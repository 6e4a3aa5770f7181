--------------------------- MODULE JudgmentPurchase ---------------------------
(***************************************************************************)
(* The sale of pre-spend judgments: check() of judgmentService.ts over the *)
(* purchase journal (judgmentRequestRepository.ts), the x402 facilitator   *)
(* and the receipt authority, and the revenue reconciliation that reads    *)
(* the journal afterwards (economicAccountingService.ts).                  *)
(*                                                                         *)
(* A call of check() quotes, verifies, claims, settles, records, publishes *)
(* and completes with an await between any two of these; the journal's     *)
(* save() overwrites a whole record with the copy the call has made.       *)
(* Several calls may work on one key, and any of them may end at any await.*)
(*                                                                         *)
(* An operator introduced as a "Variant" is a plausible slip in the        *)
(* operator that follows it; no action uses it.                            *)
(***************************************************************************)
EXTENDS Naturals

CONSTANTS
  Requests,    \* parsed inputs of check(); a request stands for its request_hash
  Keys,        \* idempotency keys of the journal
  KeyOf,       \* [Requests -> Keys]
  Payments,    \* decoded payment headers; a payment stands for its payment_hash
  Transfers,   \* transfers of the rail; a transfer stands for its transaction
  TransferOf,  \* [Payments -> Transfers]: what the payment's authorization moves
  Decisions,   \* the decisions that are charged for
  Calls,       \* concurrent calls of check()
  None,        \* no record, receipt, payment or transfer
  Ttl,         \* ttlMs: how long a quote is valid at most
  MaxTime      \* bound on the clock

Time == 0 .. MaxTime
Never == MaxTime + 1

Terms == [decision : Decisions, issued : Time, until : 0 .. MaxTime + Ttl]

JournalState == {"quoted", "settling", "settled", "complete"}

Record == [state : JournalState, request : Requests, terms : Terms,
           payment : Payments \cup {None}, settlement : Transfers \cup {None}]

Receipt == [terms : Terms, settlement : Transfers]

ASSUME PurchaseAssumption ==
  /\ KeyOf \in [Requests -> Keys]
  /\ TransferOf \in [Payments -> Transfers]
  /\ None \notin Payments \cup Transfers \cup Requests
  /\ None \notin Record /\ None \notin Receipt /\ None \notin Terms
  /\ Ttl \in Nat \ {0} /\ MaxTime \in Nat

Phase == {"idle", "judging", "quoting", "reading", "priced", "claiming", "claimed", "settling",
          "saving", "publishing", "finishing"}

\* A call: its input and signature, the time it took, its copy of the record.
Call == [phase : Phase, request : Requests \cup {None}, payment : Payments \cup {None},
         at : Time, rec : Record \cup {None}]

\* A reconciliation of a key: none, the judgment is read, the journal agrees with it.
Reconciliation == [phase : {"none", "read", "matched"}, judgment : Receipt \cup {None}]
Unreconciled == [phase |-> "none", judgment |-> None]

Resting == [phase |-> "idle", request |-> None, payment |-> None, at |-> 0, rec |-> None]

VARIABLES
  journal,      \* judgment_requests
  receipt,      \* published judgment receipts
  booked,       \* keys with a settled revenue entry
  reconciling,  \* how far a reconcile() of a key has got, and the judgment it has read
  submissions,  \* how often settle() was called for a key with a payment
  moved,        \* transfers the rail has made
  offered,      \* terms an agent was given with a 402
  call,         \* the calls of check()
  signsFrom,    \* valid_from of the issuer's active key; Never: none in force
  clock

vars == <<journal, receipt, booked, reconciling, submissions, moved, offered, call, signsFrom, clock>>
world == <<booked, reconciling, moved, signsFrom, clock>>

PurchaseTypeOK ==
  /\ journal \in [Keys -> Record \cup {None}]
  /\ receipt \in [Keys -> Receipt \cup {None}]
  /\ booked \subseteq Keys
  /\ reconciling \in [Keys -> Reconciliation]
  /\ submissions \in [Keys -> [Payments -> Nat]]
  /\ moved \subseteq Transfers
  /\ offered \in [Keys -> SUBSET Terms]
  /\ call \in [Calls -> Call]
  /\ signsFrom \in 0 .. Never
  /\ clock \in Time

Init ==
  /\ journal = [k \in Keys |-> None]
  /\ receipt = [k \in Keys |-> None]
  /\ booked = {}
  /\ reconciling = [k \in Keys |-> Unreconciled]
  /\ submissions = [k \in Keys |-> [p \in Payments |-> 0]]
  /\ moved = {}
  /\ offered = [k \in Keys |-> {}]
  /\ call = [c \in Calls |-> Resting]
  /\ signsFrom = 0
  /\ clock = 0

Known(k) == journal[k] # None
KeyFor(c) == KeyOf[call[c].request]
CanSign(issued) == signsFrom <= issued

Advance(c, phase) == call' = [call EXCEPT ![c].phase = phase]
Answer(c) == call' = [call EXCEPT ![c] = Resting]

------------------------------------------------------------------------------
(* check(): the first look at the journal.  A conflicting request, or one in *)
(* state settling, is answered 409 and changes nothing.                      *)

Enter(c, r, p, phase, rec) ==
  call' = [call EXCEPT ![c] = [phase |-> phase, request |-> r, payment |-> p,
                               at |-> clock, rec |-> rec]]

CheckNew(c) ==
  /\ call[c].phase = "idle"
  /\ \E r \in Requests, p \in Payments \cup {None} :
       /\ ~Known(KeyOf[r])
       /\ Enter(c, r, p, "judging", None)
  /\ UNCHANGED <<world, journal, receipt, submissions, offered>>

CheckQuoted(c) ==
  /\ call[c].phase = "idle"
  /\ \E r \in Requests, p \in Payments \cup {None} :
       /\ Known(KeyOf[r])
       /\ journal[KeyOf[r]].request = r /\ journal[KeyOf[r]].state = "quoted"
       /\ Enter(c, r, p, "priced", journal[KeyOf[r]])
  /\ UNCHANGED <<world, journal, receipt, submissions, offered>>

\* Variants: a settling purchase is taken for paid; only a finished one is replayed.
PaidOrSettling(rec) == rec.state \in {"settling", "settled", "complete"}
PaidAndDone(rec) == rec.state = "complete"
Paid(rec) == rec.state \in {"settled", "complete"}

\* A purchase recorded as settled is recovered, whatever the caller sends with it.
Replay(c, k) ==
  /\ call[c].phase = "idle"
  /\ Known(k) /\ Paid(journal[k])
  /\ Enter(c, journal[k].request, None, "publishing", journal[k])
  /\ UNCHANGED <<world, journal, receipt, submissions, offered>>

Until(at) == at + 1 .. at + Ttl

\* The evidence supports a paid decision, valid until the quote or the evidence
\* expires, and the issuer could sign it; otherwise the call ends (Drop).
Judge(c) ==
  /\ call[c].phase = "judging"
  /\ CanSign(call[c].at)
  /\ \E d \in Decisions, until \in Until(call[c].at) :
       call' = [call EXCEPT
         ![c].phase = "quoting",
         ![c].rec = [state |-> "quoted", request |-> call[c].request,
                     terms |-> [decision |-> d, issued |-> call[c].at, until |-> until],
                     payment |-> None, settlement |-> None]]
  /\ UNCHANGED <<world, journal, receipt, submissions, offered>>

\* Variant: the quote replaces whatever the journal holds.
Requoted(c) == call[c].rec
FirstQuote(c) == IF Known(KeyFor(c)) THEN journal[KeyFor(c)] ELSE call[c].rec

\* journal.quote(): insert ... on conflict do nothing,
InsertQuote(c) ==
  /\ call[c].phase = "quoting"
  /\ journal' = [journal EXCEPT ![KeyFor(c)] = FirstQuote(c)]
  /\ Advance(c, "reading")
  /\ UNCHANGED <<world, receipt, submissions, offered>>

\* then read the record that won; a quote for another request ends the call.
ReadQuote(c) ==
  /\ call[c].phase = "reading"
  /\ IF journal[KeyFor(c)].request = call[c].request
     THEN call' = [call EXCEPT ![c].phase = "priced", ![c].rec = journal[KeyFor(c)]]
     ELSE Answer(c)
  /\ UNCHANGED <<world, journal, receipt, submissions, offered>>

\* No payment came along: 402 with the quoted terms.
Offer(c) ==
  /\ call[c].phase = "priced" /\ call[c].payment = None
  /\ call[c].rec.terms.until > clock
  /\ offered' = [offered EXCEPT ![KeyFor(c)] = @ \cup {call[c].rec.terms}]
  /\ Answer(c)
  /\ UNCHANGED <<world, journal, receipt, submissions>>

\* The facilitator verified the payment, and the quote is still valid and signable.
Verify(c) ==
  /\ call[c].phase = "priced" /\ call[c].payment # None
  /\ call[c].rec.terms.until > clock
  /\ CanSign(call[c].rec.terms.issued)
  /\ Advance(c, "claiming")
  /\ UNCHANGED <<world, journal, receipt, submissions, offered>>

\* Variants: the claim does not compare the state; it allows a payment of another key.
ClaimableAnyState(k, p) == \A o \in Keys : Known(o) => journal[o].payment # p
ClaimableByState(k, p) == journal[k].state = "quoted"
Claimable(k, p) ==
  /\ journal[k].state = "quoted"
  /\ \A o \in Keys : Known(o) => journal[o].payment # p

\* Variant: the claim is not written down.
ClaimUnrecorded(k, p) == journal[k]
Claimed(k, p) == [journal[k] EXCEPT !.state = "settling", !.payment = p]

\* journal.claim(): compare and set; when it fails the call ends with 409.
Claim(c) ==
  /\ call[c].phase = "claiming"
  /\ Claimable(KeyFor(c), call[c].payment)
  /\ journal' = [journal EXCEPT ![KeyFor(c)] = Claimed(KeyFor(c), call[c].payment)]
  /\ call' = [call EXCEPT ![c].phase = "claimed",
                          ![c].rec.state = "settling", ![c].rec.payment = call[c].payment]
  /\ UNCHANGED <<world, receipt, submissions, offered>>

\* gateway.settle() is called.
Submit(c) ==
  /\ call[c].phase = "claimed"
  /\ submissions' = [submissions EXCEPT ![KeyFor(c)][call[c].payment] = @ + 1]
  /\ Advance(c, "settling")
  /\ UNCHANGED <<world, journal, receipt, offered>>

\* The facilitator reports success with the transaction it made.
SettleReply(c) ==
  /\ call[c].phase = "settling"
  /\ TransferOf[call[c].payment] \in moved
  /\ call' = [call EXCEPT ![c].phase = "saving", ![c].rec.state = "settled",
                          ![c].rec.settlement = TransferOf[call[c].payment]]
  /\ UNCHANGED <<world, journal, receipt, submissions, offered>>

\* Variant: settlement_ref is not unique.
AnyReference(k, t) == t \in Transfers
UnusedReference(k, t) == \A o \in Keys \ {k} : Known(o) => journal[o].settlement # t

\* journal.save(): the call's copy replaces the record, unless another key holds
\* its settlement reference.
Save(c, rec) ==
  /\ UnusedReference(KeyFor(c), rec.settlement)
  /\ journal' = [journal EXCEPT ![KeyFor(c)] = rec]

SaveSettled(c) ==
  /\ call[c].phase = "saving"
  /\ Save(c, call[c].rec)
  /\ Advance(c, "publishing")
  /\ UNCHANGED <<world, receipt, submissions, offered>>

ReceiptOf(rec) == [terms |-> rec.terms, settlement |-> rec.settlement]

\* complete(), appendJudgment(): a published receipt with the same content is kept with
\* its signature; a new one has to be signed as of its time of issue.
Publish(c) ==
  /\ call[c].phase = "publishing"
  /\ \/ receipt[KeyFor(c)] = ReceiptOf(call[c].rec) /\ UNCHANGED receipt
     \/ /\ receipt[KeyFor(c)] = None
        /\ CanSign(call[c].rec.terms.issued)
        /\ receipt' = [receipt EXCEPT ![KeyFor(c)] = ReceiptOf(call[c].rec)]
  /\ Advance(c, "finishing")
  /\ UNCHANGED <<world, journal, submissions, offered>>

\* complete(), the last save and the answer 200.
Finish(c) ==
  /\ call[c].phase = "finishing"
  /\ Save(c, [call[c].rec EXCEPT !.state = "complete"])
  /\ Answer(c)
  /\ UNCHANGED <<world, receipt, submissions, offered>>

\* The call is refused, fails, times out or dies with its process.
Drop(c) ==
  /\ call[c].phase # "idle"
  /\ Answer(c)
  /\ UNCHANGED <<world, journal, receipt, submissions, offered>>

------------------------------------------------------------------------------
\* The rail moves a submitted payment when it likes, once, also after the call ended.
RailMoves(t) ==
  /\ t \notin moved
  /\ \E k \in Keys, p \in Payments : submissions[k][p] > 0 /\ TransferOf[p] = t
  /\ moved' = moved \cup {t}
  /\ UNCHANGED <<journal, receipt, booked, reconciling, submissions, offered, call, signsFrom, clock>>

\* accounting.reconcile(): an operator has the revenue of a judgment booked.  It reads the
\* judgment, then the journal, then the chain, and each of them may change meanwhile.
Reconcile(k) ==
  /\ reconciling[k].phase = "none"
  /\ receipt[k] # None
  /\ reconciling' = [reconciling EXCEPT ![k] = [phase |-> "read", judgment |-> receipt[k]]]
  /\ UNCHANGED <<journal, receipt, booked, submissions, moved, offered, call, signsFrom, clock>>

\* Variant: the journal's state is not looked at.
BookableAnyState(k) == Known(k) /\ ReceiptOf(journal[k]) = reconciling[k].judgment
\* The purchase is complete, with that very judgment and settlement.
Bookable(k) ==
  /\ Known(k) /\ journal[k].state = "complete"
  /\ ReceiptOf(journal[k]) = reconciling[k].judgment

MatchJournal(k) ==
  /\ reconciling[k].phase = "read"
  /\ Bookable(k)
  /\ reconciling' = [reconciling EXCEPT ![k].phase = "matched"]
  /\ UNCHANGED <<journal, receipt, booked, submissions, moved, offered, call, signsFrom, clock>>

\* The transfer is final on chain: the entry is appended, which is idempotent.
Book(k) ==
  /\ reconciling[k].phase = "matched"
  /\ reconciling[k].judgment.settlement \in moved
  /\ booked' = booked \cup {k}
  /\ reconciling' = [reconciling EXCEPT ![k] = Unreconciled]
  /\ UNCHANGED <<journal, receipt, submissions, moved, offered, call, signsFrom, clock>>

\* It is refused, fails or dies at any of its awaits.
DropReconcile(k) ==
  /\ reconciling[k].phase # "none"
  /\ reconciling' = [reconciling EXCEPT ![k] = Unreconciled]
  /\ UNCHANGED <<journal, receipt, booked, submissions, moved, offered, call, signsFrom, clock>>

\* The operator changes the active signing key, or loses it.
Rotate ==
  /\ \E from \in {0, clock, Never} : signsFrom' = from
  /\ UNCHANGED <<journal, receipt, booked, reconciling, submissions, moved, offered, call, clock>>

Tick ==
  /\ clock < MaxTime
  /\ clock' = clock + 1
  /\ UNCHANGED <<journal, receipt, booked, reconciling, submissions, moved, offered, call, signsFrom>>

ReconcileStep(k) == Reconcile(k) \/ MatchJournal(k) \/ Book(k) \/ DropReconcile(k)

CheckStep(c) ==
  \/ CheckNew(c) \/ CheckQuoted(c) \/ Judge(c) \/ InsertQuote(c) \/ ReadQuote(c)
  \/ Offer(c) \/ Verify(c) \/ Claim(c) \/ Submit(c) \/ SettleReply(c)
  \/ SaveSettled(c) \/ Publish(c) \/ Finish(c)

Next ==
  \/ \E c \in Calls : CheckStep(c) \/ Drop(c)
  \/ \E c \in Calls, k \in Keys : Replay(c, k)
  \/ \E t \in Transfers : RailMoves(t)
  \/ \E k \in Keys : ReconcileStep(k)
  \/ Rotate
  \/ Tick

Spec == Init /\ [][Next]_vars

(***************************************************************************)
(* Calls end: every await has a timeout or dies with the process.  An      *)
(* agent whose payment is recorded asks again, and not every one of its    *)
(* attempts dies before it gets to the next step.                          *)
(***************************************************************************)
PublishFor(k) == \E c \in Calls : call[c].request # None /\ KeyFor(c) = k /\ Publish(c)
FinishFor(k) == \E c \in Calls : call[c].request # None /\ KeyFor(c) = k /\ Finish(c)

FairSpec ==
  /\ Spec
  /\ \A c \in Calls : WF_vars(Drop(c))
  /\ \A k \in Keys : /\ SF_vars(\E c \in Calls : Replay(c, k))
                     /\ SF_vars(PublishFor(k))
                     /\ SF_vars(FinishFor(k))

------------------------------------------------------------------------------
\* A retry never charges again: settle() is called at most once for a key and at most
\* once with a payment (claim, judgmentService.ts 148-151).
SettledOnce ==
  \A k, o \in Keys, p, q \in Payments :
    submissions[k][p] > 0 /\ submissions[o][q] > 0 =>
      /\ k = o <=> p = q
      /\ submissions[k][p] = 1

\* One transfer pays for one judgment, also when two payments carry the same
\* authorization and the facilitator reports it for both (settlement_ref, migration 012).
OneJudgmentPerSettlement ==
  \A k, o \in Keys :
    receipt[k] # None /\ receipt[o] # None /\ receipt[k].settlement = receipt[o].settlement => k = o

\* A paid receipt rests on money that moved for this very purchase: its settlement is a
\* transfer the rail made for the payment the journal holds, submitted for this key.
ReceiptIsPaid ==
  \A k \in Keys : receipt[k] # None =>
    /\ receipt[k].settlement \in moved
    /\ \E p \in Payments : /\ journal[k].payment = p
                           /\ submissions[k][p] = 1
                           /\ TransferOf[p] = receipt[k].settlement

\* Agents racing on a fresh key are all quoted the same terms, and these are the terms
\* of the receipt they get ("Quotes freeze policy, observations, times and price").
OfferHonoured ==
  \A k \in Keys :
    /\ \A s, t \in offered[k] : s = t
    /\ receipt[k] # None => offered[k] \subseteq {receipt[k].terms}

\* Money never moves without a trace: the payment of every transfer is in the journal,
\* claimed, so that an uncertain settlement can be reconciled by hand.
MoneyTraced ==
  \A t \in moved : \E k \in Keys :
    /\ Known(k) /\ journal[k].payment # None /\ TransferOf[journal[k].payment] = t
    /\ journal[k].state # "quoted"

\* Revenue is booked for finished purchases and counts no transfer twice.
RevenueIsEarned ==
  /\ \A k \in booked : /\ journal[k].state = "complete"
                       /\ ReceiptOf(journal[k]) = receipt[k]
  /\ \A k, o \in booked : receipt[k].settlement = receipt[o].settlement => k = o

StageOf == [quoted |-> 1, settling |-> 2, settled |-> 3, complete |-> 4]
Stage(rec) == IF rec = None THEN 0 ELSE StageOf[rec.state]

\* Whole-record saves by several calls never set a purchase back, nor change what was
\* quoted or which payment and settlement it was bought with.
JournalMovesForward ==
  [][\A k \in Keys :
       /\ Stage(journal[k]) <= Stage(journal'[k])
       /\ Known(k) => /\ journal'[k].terms = journal[k].terms
                      /\ journal'[k].request = journal[k].request
                      /\ journal[k].payment # None => journal'[k].payment = journal[k].payment
                      /\ journal[k].settlement # None => journal'[k].settlement = journal[k].settlement
    ]_vars

\* A recorded settlement is delivered without another charge, as long as the issuer can
\* sign for the time of the quote (judgmentService.ts 78, 36-58).
RecordedIsDelivered ==
  \A k \in Keys :
    (Known(k) /\ journal[k].state = "settled")
      ~> /\ Known(k)
         /\ journal[k].state = "complete" \/ ~CanSign(journal[k].terms.issued)

------------------------------------------------------------------------------
(* What a buyer is promised, whatever calls and copies there are.  The price *)
(* of a key is what its record was quoted; the rest is told, charged, moved, *)
(* delivered and booked by the code itself.                                  *)
Sale == INSTANCE JudgmentSale WITH
  price <- [k \in Keys |-> IF Known(k) THEN journal[k].terms ELSE None],
  told <- offered, charged <- submissions, delivered <- receipt

\* check(), with its retries, races and whole-record saves, sells as an atomic shop
\* would: it prices a key once, charges a key and a payment once, delivers what was
\* priced against a transfer that paid for nothing else, and books what it delivered.
ImplementsSale == Sale!SaleSpec
==============================================================================
