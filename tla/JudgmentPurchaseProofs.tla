------------------------ MODULE JudgmentPurchaseProofs ------------------------
(***************************************************************************)
(* Proofs about the sale of judgments, for any requests, keys, payments,   *)
(* transfers and concurrent calls.                                         *)
(*                                                                         *)
(* save() overwrites a whole record with a copy that was read several      *)
(* awaits ago.  It is safe because of who may hold which copy: until the   *)
(* claim a copy is only compared; after it the claimer alone moves the     *)
(* record, to settled; and every copy of a settled record differs from it  *)
(* in nothing but the last state.                                          *)
(***************************************************************************)
EXTENDS JudgmentPurchase, TLAPS

\* A purchase has a payment once it is claimed, and the settlement of that payment,
\* which has moved, once it is paid.
RecordSound(k) ==
  LET rec == journal[k] IN
  Known(k) =>
    /\ KeyOf[rec.request] = k
    /\ rec.payment = None <=> rec.state = "quoted"
    /\ IF Paid(rec) THEN /\ rec.settlement = TransferOf[rec.payment]
                         /\ rec.settlement \in moved
                         /\ submissions[k][rec.payment] = 1
       ELSE rec.settlement = None

\* settle() was called for claimed payments only, and once.
SubmissionsSound ==
  \A k \in Keys, p \in Payments :
    submissions[k][p] > 0 => Known(k) /\ journal[k].payment = p /\ submissions[k][p] = 1

\* The unique columns of the journal.
Bought(k, o) == Known(k) /\ Known(o) /\ k # o
ReferencesUnique ==
  \A k, o \in Keys : Bought(k, o) =>
    /\ journal[k].payment # None => journal[k].payment # journal[o].payment
    /\ journal[k].settlement # None => journal[k].settlement # journal[o].settlement

\* A copy to be claimed with: the record itself while that can still be claimed.
QuoteOf(rec, k) ==
  /\ Known(k) /\ rec.request = journal[k].request /\ rec.terms = journal[k].terms
  /\ journal[k].state = "quoted" => rec = journal[k]

\* The claimer's hold on the record.
Holding(c, k) ==
  /\ call[c].payment # None
  /\ Known(k) /\ journal[k].state = "settling" /\ journal[k].payment = call[c].payment

\* A copy that is the record's, but for the state it is paid in.
PaidCopy(rec, k) ==
  /\ Known(k) /\ Paid(journal[k])
  /\ rec \in {[journal[k] EXCEPT !.state = "settled"], [journal[k] EXCEPT !.state = "complete"]}

\* What the copy of a call is worth, phase by phase.
CopySound(c) ==
  LET k == KeyFor(c)
      rec == call[c].rec
      phase == call[c].phase
  IN
  /\ phase = "idle" => call[c] = Resting
  /\ phase # "idle" => call[c].request # None
  /\ phase \notin {"idle", "judging"} => rec # None /\ rec.request = call[c].request
  /\ phase = "quoting" => rec.state = "quoted" /\ rec.payment = None /\ rec.settlement = None
  /\ phase = "reading" => Known(k)
  /\ phase \in {"priced", "claiming"} => QuoteOf(rec, k)
  /\ phase = "claiming" => call[c].payment # None
  /\ phase \in {"claimed", "settling", "saving"} => Holding(c, k)
  /\ phase \in {"claimed", "settling"} => rec = journal[k]
  /\ phase = "claimed" => submissions[k][call[c].payment] = 0
  /\ phase \in {"settling", "saving"} => submissions[k][call[c].payment] = 1
  /\ phase = "saving" => /\ TransferOf[call[c].payment] \in moved
                         /\ rec = [journal[k] EXCEPT !.state = "settled",
                                                     !.settlement = TransferOf[call[c].payment]]
  /\ phase \in {"publishing", "finishing"} => PaidCopy(rec, k)
  /\ phase = "finishing" => receipt[k] = ReceiptOf(rec)

Claiming == {"claimed", "settling", "saving"}
OneClaimer ==
  \A c, d \in Calls :
    call[c].phase \in Claiming /\ call[d].phase \in Claiming /\ KeyFor(c) = KeyFor(d) => c = d

ReceiptsSound ==
  \A k \in Keys : receipt[k] # None =>
    Known(k) /\ Paid(journal[k]) /\ receipt[k] = ReceiptOf(journal[k])
OffersSound == \A k \in Keys : offered[k] # {} => Known(k) /\ offered[k] = {journal[k].terms}
MovesSound == \A t \in moved : \E k \in Keys, p \in Payments : submissions[k][p] > 0 /\ TransferOf[p] = t
BookedSound ==
  \A k \in Keys :
    /\ reconciling[k].phase # "none" => receipt[k] # None
    /\ k \in booked \/ reconciling[k].phase = "matched" => receipt[k] # None /\ journal[k].state = "complete"

TablesSound ==
  /\ \A k \in Keys : RecordSound(k)
  /\ SubmissionsSound /\ ReferencesUnique
  /\ ReceiptsSound /\ OffersSound /\ MovesSound /\ BookedSound
CallsSound == (\A c \in Calls : CopySound(c)) /\ OneClaimer

PurchaseInv == PurchaseTypeOK /\ TablesSound /\ CallsSound

tables == <<journal, receipt, booked, reconciling, submissions, moved, offered>>

-------------------------------------------------------------------------------
(* Calls that only read *)

LEMMA CallTyped ==
  ASSUME PurchaseInv, NEW c \in Calls, call[c].phase # "idle"
  PROVE  /\ call[c].request \in Requests /\ KeyFor(c) \in Keys
         /\ call[c].payment \in Payments \cup {None} /\ call[c].at \in Time
         /\ call[c].phase # "judging" => call[c].rec \in Record
  BY PurchaseAssumption DEF PurchaseInv, PurchaseTypeOK, CallsSound, CopySound, Call, KeyFor

LEMMA TablesStay ==
  ASSUME TablesSound, UNCHANGED tables PROVE TablesSound'
  BY DEF TablesSound, tables, RecordSound, SubmissionsSound, ReferencesUnique, Bought, ReceiptsSound, OffersSound,
         MovesSound, BookedSound, Known

\* A call that is not touched keeps what it knows while its tables do.
LEMMA CopyStays ==
  ASSUME NEW d, CopySound(d), call'[d] = call[d],
         journal'[KeyFor(d)] = journal[KeyFor(d)], receipt'[KeyFor(d)] = receipt[KeyFor(d)],
         submissions'[KeyFor(d)] = submissions[KeyFor(d)], moved \subseteq moved'
  PROVE  CopySound(d)'
<1>1. KeyFor(d)' = KeyFor(d)
  BY DEF KeyFor
<1> QED BY <1>1 DEF CopySound, QuoteOf, Holding, PaidCopy, Known

\* All copies are sound if those of the other calls are, and the one that moves is.
LEMMA CallsStay ==
  ASSUME PurchaseInv, NEW c \in Calls, NEW x, call' = [call EXCEPT ![c] = x],
         CopySound(c)', \A d \in Calls \ {c} : CopySound(d)',
         x.phase \in Claiming => /\ x.request = call[c].request
                                 /\ \/ call[c].phase \in Claiming
                                    \/ \A d \in Calls : call[d].phase \in Claiming => KeyFor(d) # KeyFor(c)
  PROVE  CallsSound'
<1>1. call'[c] = x /\ \A d \in Calls \ {c} : call'[d] = call[d]
  BY DEF PurchaseInv, PurchaseTypeOK
<1>2. OneClaimer'
  BY <1>1 DEF PurchaseInv, CallsSound, OneClaimer, KeyFor
<1> QED BY <1>2 DEF CallsSound

\* A step that moves one call, which claims nothing by it.
LEMMA OneCallMoves ==
  ASSUME PurchaseInv, NEW c \in Calls, NEW x \in Call, call' = [call EXCEPT ![c] = x],
         UNCHANGED tables, UNCHANGED <<signsFrom, clock>>,
         CopySound(c)',
         x.phase \in Claiming => call[c].phase \in Claiming /\ x.request = call[c].request
  PROVE  PurchaseInv'
<1>1. PurchaseTypeOK'
  BY DEF PurchaseInv, PurchaseTypeOK, tables
<1>2. TablesSound'
  BY TablesStay DEF PurchaseInv
<1>3. call'[c] = x /\ \A d \in Calls \ {c} : call'[d] = call[d]
  BY DEF PurchaseInv, PurchaseTypeOK
<1>4. \A d \in Calls : CopySound(d)'
  BY <1>3, CopyStays DEF PurchaseInv, CallsSound, tables
<1>5. CallsSound'
  BY <1>4, CallsStay
<1> QED BY <1>1, <1>2, <1>5 DEF PurchaseInv

LEMMA EndsCall ==
  ASSUME PurchaseInv, NEW c \in Calls, Answer(c), UNCHANGED tables, UNCHANGED <<signsFrom, clock>>
  PROVE  PurchaseInv'
<1>1. Resting \in Call
  BY PurchaseAssumption DEF Resting, Call, Phase, Time
<1>2. CopySound(c)'
  BY DEF CopySound, Answer, PurchaseInv, PurchaseTypeOK, Resting
<1>3. Resting.phase \notin Claiming
  BY DEF Resting, Claiming
<1> QED BY <1>1, <1>2, <1>3, OneCallMoves DEF Answer

LEMMA EnterInv ==
  ASSUME PurchaseInv, NEW c \in Calls, NEW r \in Requests, NEW p \in Payments \cup {None},
         NEW phase \in {"judging", "priced", "publishing"}, NEW rec \in Record \cup {None},
         Enter(c, r, p, phase, rec), UNCHANGED tables, UNCHANGED <<signsFrom, clock>>,
         phase # "judging" => rec # None /\ rec.request = r /\ rec = journal[KeyOf[r]],
         phase = "publishing" => Paid(rec)
  PROVE  PurchaseInv'
<1> DEFINE x == [phase |-> phase, request |-> r, payment |-> p, at |-> clock, rec |-> rec]
<1>1. x \in Call /\ x.phase \notin Claiming
  BY DEF Call, Phase, PurchaseInv, PurchaseTypeOK, Claiming
<1>2. call' = [call EXCEPT ![c] = x] /\ call'[c] = x
  BY DEF Enter, PurchaseInv, PurchaseTypeOK
<1>3. CopySound(c)'
  <2>1. KeyFor(c)' = KeyOf[r] /\ call'[c].phase = phase /\ call'[c].rec = rec /\ call'[c].request = r
    BY <1>2 DEF KeyFor
  <2>2. r # None
    BY PurchaseAssumption
  <2>3. CASE phase = "judging"
    BY <2>1, <2>2, <2>3 DEF CopySound
  <2>4. CASE phase = "priced"
    BY <2>1, <2>2, <2>4 DEF CopySound, QuoteOf, Known, tables
  <2>5. CASE phase = "publishing"
    <3>1. rec \in {[rec EXCEPT !.state = "settled"], [rec EXCEPT !.state = "complete"]}
      BY <2>5 DEF Paid, Record
    <3>2. PaidCopy(rec, KeyOf[r])'
      BY <2>5, <3>1 DEF PaidCopy, Known, tables
    <3> QED BY <2>1, <2>2, <2>5, <3>2 DEF CopySound
  <2> QED BY <2>3, <2>4, <2>5
<1> HIDE DEF x
<1> QED BY <1>1, <1>2, <1>3, OneCallMoves

\* A call that goes on with its copy.
LEMMA GoesOn ==
  ASSUME PurchaseInv, NEW c \in Calls, call[c].phase # "idle", NEW x,
         x \in [phase : Phase, request : {call[c].request}, payment : {call[c].payment}, at : {call[c].at},
                rec : Record \cup {None}],
         call' = [call EXCEPT ![c] = x], UNCHANGED tables, UNCHANGED <<signsFrom, clock>>,
         CopySound(c)', x.phase \in Claiming => call[c].phase \in Claiming
  PROVE  PurchaseInv'
<1>1. x \in Call
  BY DEF Call, PurchaseInv, PurchaseTypeOK
<1>2. x.request = call[c].request
  OBVIOUS
<1> QED BY <1>1, <1>2, OneCallMoves

LEMMA JudgeInv == ASSUME PurchaseInv, NEW c \in Calls, Judge(c) PROVE PurchaseInv'
<1>1. call[c].phase = "judging" /\ UNCHANGED tables /\ UNCHANGED <<signsFrom, clock>>
  BY DEF Judge, tables, world
<1>2. PICK d \in Decisions, until \in Until(call[c].at) :
        call' = [call EXCEPT
         ![c].phase = "quoting",
         ![c].rec = [state |-> "quoted", request |-> call[c].request,
                     terms |-> [decision |-> d, issued |-> call[c].at, until |-> until],
                     payment |-> None, settlement |-> None]]
  BY DEF Judge
<1> DEFINE rec == [state |-> "quoted", request |-> call[c].request,
                   terms |-> [decision |-> d, issued |-> call[c].at, until |-> until],
                   payment |-> None, settlement |-> None]
           x == [call[c] EXCEPT !.phase = "quoting", !.rec = rec]
<1>3. call[c].request \in Requests /\ call[c].at \in Time /\ call[c] \in Call
  BY <1>1, CallTyped DEF PurchaseInv, PurchaseTypeOK
<1>4. rec \in Record
  <2>1. until \in 0 .. MaxTime + Ttl
    BY <1>3, PurchaseAssumption DEF Until, Time
  <2> QED BY <1>3, <2>1 DEF Record, JournalState, Terms
<1>5. call' = [call EXCEPT ![c] = x]
  BY <1>2, <1>3 DEF PurchaseInv, PurchaseTypeOK
<1>6. x \in [phase : Phase, request : {call[c].request}, payment : {call[c].payment}, at : {call[c].at},
             rec : Record \cup {None}]
  BY <1>3, <1>4 DEF Call, Phase
<1>7. CopySound(c)'
  <2>1. call'[c] = x /\ x.phase = "quoting" /\ x.rec = rec /\ x.request = call[c].request
    BY <1>3, <1>5 DEF PurchaseInv, PurchaseTypeOK, Call
  <2>2. rec # None /\ call[c].request # None
    BY <1>3, <1>4, PurchaseAssumption
  <2> QED BY <2>1, <2>2 DEF CopySound
<1>8. x.phase \notin Claiming
  BY <1>3 DEF Claiming, Call
<1> HIDE DEF x
<1> QED BY <1>1, <1>5, <1>6, <1>7, <1>8, GoesOn

LEMMA ReadQuoteInv == ASSUME PurchaseInv, NEW c \in Calls, ReadQuote(c) PROVE PurchaseInv'
<1>1. call[c].phase = "reading" /\ UNCHANGED tables /\ UNCHANGED <<signsFrom, clock>>
  BY DEF ReadQuote, tables, world
<1> DEFINE rec == journal[KeyFor(c)]
           x == [call[c] EXCEPT !.phase = "priced", !.rec = rec]
<1>2. CASE rec.request = call[c].request
  <2>1. call[c] \in Call /\ KeyFor(c) \in Keys /\ call[c].request # None
    BY <1>1, CallTyped, PurchaseAssumption DEF PurchaseInv, PurchaseTypeOK
  <2>2. Known(KeyFor(c)) /\ rec \in Record
    BY <1>1, <2>1 DEF PurchaseInv, CallsSound, CopySound, PurchaseTypeOK, Known
  <2>3. call' = [call EXCEPT ![c] = x]
    BY <1>2, <2>1 DEF ReadQuote, PurchaseInv, PurchaseTypeOK
  <2>4. x \in [phase : Phase, request : {call[c].request}, payment : {call[c].payment}, at : {call[c].at},
               rec : Record \cup {None}]
    BY <2>1, <2>2 DEF Call, Phase
  <2>5. call'[c] = x /\ x.phase = "priced" /\ x.rec = rec /\ x.request = call[c].request
    BY <2>1, <2>3 DEF PurchaseInv, PurchaseTypeOK, Call
  <2>6. CopySound(c)'
    <3>1. KeyFor(c)' = KeyFor(c)
      BY <2>5 DEF KeyFor
    <3>2. QuoteOf(rec, KeyFor(c))'
      BY <2>2, <3>1 , <1>1 DEF QuoteOf, Known, tables
    <3> QED BY <1>1, <1>2, <2>1, <2>2, <2>5, <3>1, <3>2 DEF CopySound, Known, tables
  <2>7. x.phase \notin Claiming
    BY <2>5 DEF Claiming
  <2> HIDE DEF x, rec
  <2> QED BY <1>1, <2>3, <2>4, <2>6, <2>7, GoesOn
<1>3. CASE rec.request # call[c].request
  BY <1>1, <1>3, EndsCall DEF ReadQuote
<1> QED BY <1>2, <1>3

LEMMA VerifyInv == ASSUME PurchaseInv, NEW c \in Calls, Verify(c) PROVE PurchaseInv'
<1>1. call[c].phase = "priced" /\ call[c].payment # None /\ UNCHANGED tables /\ UNCHANGED <<signsFrom, clock>>
  BY DEF Verify, tables, world
<1> DEFINE x == [call[c] EXCEPT !.phase = "claiming"]
<1>2. call[c] \in Call
  BY DEF PurchaseInv, PurchaseTypeOK
<1>3. call' = [call EXCEPT ![c] = x]
  BY <1>2 DEF Verify, Advance, PurchaseInv, PurchaseTypeOK
<1>4. x \in [phase : Phase, request : {call[c].request}, payment : {call[c].payment}, at : {call[c].at},
             rec : Record \cup {None}]
  BY <1>2 DEF Call, Phase
<1>5. /\ call'[c] = x /\ x.phase = "claiming"
      /\ x.rec = call[c].rec /\ x.request = call[c].request /\ x.payment = call[c].payment
  BY <1>2, <1>3 DEF PurchaseInv, PurchaseTypeOK, Call
<1>6. CopySound(c)'
  <2>1. KeyFor(c)' = KeyFor(c)
    BY <1>5 DEF KeyFor
  <2>2. /\ call[c].request # None /\ QuoteOf(call[c].rec, KeyFor(c))
        /\ call[c].rec # None /\ call[c].rec.request = call[c].request
    BY <1>1 DEF PurchaseInv, CallsSound, CopySound
  <2>3. QuoteOf(call[c].rec, KeyFor(c))'
    BY <1>1, <1>5, <2>1, <2>2 DEF QuoteOf, Known, tables
  <2> HIDE DEF x
  <2> QED BY <1>1, <1>5, <2>1, <2>2, <2>3 DEF CopySound
<1>7. x.phase \notin Claiming
  BY <1>5 DEF Claiming
<1> HIDE DEF x
<1> QED BY <1>1, <1>3, <1>4, <1>6, <1>7, GoesOn

LEMMA SettleReplyInv == ASSUME PurchaseInv, NEW c \in Calls, SettleReply(c) PROVE PurchaseInv'
<1>1. /\ call[c].phase = "settling" /\ TransferOf[call[c].payment] \in moved
      /\ UNCHANGED tables /\ UNCHANGED <<signsFrom, clock>>
  BY DEF SettleReply, tables, world
<1> DEFINE rec == [call[c].rec EXCEPT !.state = "settled", !.settlement = TransferOf[call[c].payment]]
           x == [call[c] EXCEPT !.phase = "saving", !.rec = rec]
<1>2. call[c] \in Call /\ call[c].rec \in Record /\ call[c].rec = journal[KeyFor(c)]
  BY <1>1, CallTyped DEF PurchaseInv, PurchaseTypeOK, CallsSound, CopySound
<1>3. rec \in Record /\ rec.request = call[c].rec.request
  BY <1>1, <1>2 DEF Record, JournalState, PurchaseInv, PurchaseTypeOK
<1>4. call' = [call EXCEPT ![c] = x]
  BY <1>2 DEF SettleReply, PurchaseInv, PurchaseTypeOK, Call, Record
<1>5. x \in [phase : Phase, request : {call[c].request}, payment : {call[c].payment}, at : {call[c].at},
             rec : Record \cup {None}]
  BY <1>2, <1>3 DEF Call, Phase
<1>6. /\ call'[c] = x /\ x.phase = "saving"
      /\ x.rec = rec /\ x.request = call[c].request /\ x.payment = call[c].payment
  BY <1>2, <1>4 DEF PurchaseInv, PurchaseTypeOK, Call
<1>7. CopySound(c)'
  <2>1. KeyFor(c)' = KeyFor(c) /\ rec # None
    BY <1>3, <1>6, PurchaseAssumption DEF KeyFor
  <2>2. rec = [journal[KeyFor(c)] EXCEPT !.state = "settled", !.settlement = TransferOf[call[c].payment]]
    BY <1>2
  <2> HIDE DEF rec, x
  <2>3. /\ call[c].request # None /\ Holding(c, KeyFor(c))
        /\ call[c].rec.request = call[c].request /\ submissions[KeyFor(c)][call[c].payment] = 1
    BY <1>1 DEF PurchaseInv, CallsSound, CopySound
  <2>4. Holding(c, KeyFor(c))'
    BY <1>1, <1>6, <2>1, <2>3 DEF Holding, Known, tables
  <2> QED BY <1>1, <1>3, <1>6, <2>1, <2>2, <2>3, <2>4 DEF CopySound, tables
<1>8. x.phase \in Claiming => call[c].phase \in Claiming
  BY <1>1 DEF Claiming
<1> HIDE DEF x, rec
<1> QED BY <1>1, <1>4, <1>5, <1>7, <1>8, GoesOn

LEMMA ReadsInv ==
  ASSUME PurchaseInv, NEW c \in Calls,
         CheckNew(c) \/ CheckQuoted(c) \/ (\E k \in Keys : Replay(c, k)) \/ Drop(c)
  PROVE  PurchaseInv'
<1>1. UNCHANGED tables /\ UNCHANGED <<signsFrom, clock>>
  BY DEF CheckNew, CheckQuoted, Replay, Drop, tables, world
<1>2. \A r \in Requests : KeyOf[r] \in Keys /\ (Known(KeyOf[r]) => journal[KeyOf[r]] \in Record)
  BY PurchaseAssumption DEF Known, PurchaseInv, PurchaseTypeOK
<1>3. CASE CheckNew(c)
  BY <1>1, <1>3, EnterInv DEF CheckNew
<1>4. CASE CheckQuoted(c)
  <2>1. PICK r \in Requests, p \in Payments \cup {None} :
          /\ Known(KeyOf[r]) /\ journal[KeyOf[r]].request = r
          /\ Enter(c, r, p, "priced", journal[KeyOf[r]])
    BY <1>4 DEF CheckQuoted
  <2> QED BY <1>1, <1>2, <2>1, EnterInv DEF Known
<1>5. ASSUME NEW k \in Keys, Replay(c, k) PROVE PurchaseInv'
  <2>1. Known(k) /\ Paid(journal[k]) /\ Enter(c, journal[k].request, None, "publishing", journal[k])
    BY <1>5 DEF Replay
  <2>2. KeyOf[journal[k].request] = k /\ journal[k] \in Record /\ journal[k].request \in Requests
    BY <2>1 DEF PurchaseInv, TablesSound, RecordSound, Known, PurchaseTypeOK, Record
  <2>3. journal[k] # None
    BY <2>1 DEF Known
  <2> QED BY <1>1, <2>1, <2>2, <2>3, EnterInv
<1>6. CASE Drop(c)
  BY <1>1, <1>6, EndsCall DEF Drop
<1> QED BY <1>3, <1>4, <1>5, <1>6

-------------------------------------------------------------------------------
(* Calls that write *)

LEMMA OfferInv == ASSUME PurchaseInv, NEW c \in Calls, Offer(c) PROVE PurchaseInv'
<1>1. PICK k \in Keys : k = KeyFor(c)
  BY CallTyped DEF Offer
<1>2. /\ call[c].phase = "priced" /\ offered' = [offered EXCEPT ![k] = @ \cup {call[c].rec.terms}]
      /\ call' = [call EXCEPT ![c] = Resting]
      /\ UNCHANGED <<journal, receipt, submissions, moved, booked, reconciling, signsFrom, clock>>
  BY <1>1 DEF Offer, Answer, world
<1>3. Known(k) /\ call[c].rec.terms = journal[k].terms
  BY <1>1, <1>2 DEF PurchaseInv, CallsSound, CopySound, QuoteOf
<1>4. journal[k] \in Record /\ journal[k].terms \in Terms
  BY <1>3 DEF Known, PurchaseInv, PurchaseTypeOK, Record
<1>5. Resting \in Call
  BY PurchaseAssumption DEF Resting, Call, Phase, Time
<1>6. PurchaseTypeOK'
  BY <1>2, <1>3, <1>4, <1>5 DEF PurchaseInv, PurchaseTypeOK
<1>7. OffersSound'
  BY <1>2, <1>3 DEF PurchaseInv, PurchaseTypeOK, TablesSound, OffersSound, Known
<1>8. TablesSound'
  BY <1>2, <1>7 DEF PurchaseInv, TablesSound, RecordSound, SubmissionsSound, ReferencesUnique, Bought, ReceiptsSound,
                    MovesSound, BookedSound, Known
<1>9. call'[c] = Resting /\ \A d \in Calls \ {c} : call'[d] = call[d]
  BY <1>2 DEF PurchaseInv, PurchaseTypeOK
<1>10. CopySound(c)'
  BY <1>9 DEF CopySound, Resting
<1>11. \A d \in Calls \ {c} : CopySound(d)'
  BY <1>2, <1>9, CopyStays DEF PurchaseInv, CallsSound
<1>12. Resting.phase \notin Claiming
  BY DEF Resting, Claiming
<1>13. CallsSound'
  BY <1>2, <1>10, <1>11, <1>12, CallsStay
<1> QED BY <1>6, <1>8, <1>13 DEF PurchaseInv

\* Another call's copy survives a change of a record it does not depend on.
LEMMA OtherCopies ==
  ASSUME PurchaseInv, NEW c \in Calls, NEW k \in Keys, NEW rec,
         journal' = [journal EXCEPT ![k] = rec], UNCHANGED <<receipt, submissions, moved>>,
         NEW d \in Calls \ {c}, call'[d] = call[d],
         KeyFor(d) = k /\ call[d].phase # "idle" =>
           \/ call[d].phase \in {"judging", "quoting"}
           \/ call[d].phase = "reading" /\ rec # None
           \/ call[d].phase \in {"priced", "claiming"} /\ QuoteOf(call[d].rec, k)'
           \/ call[d].phase \in {"publishing", "finishing"} /\ PaidCopy(call[d].rec, k)'
  PROVE  CopySound(d)'
<1>1. CopySound(d) /\ KeyFor(d)' = KeyFor(d)
  BY DEF PurchaseInv, CallsSound, KeyFor
<1>2. CASE KeyFor(d) # k
  <2>1. journal'[KeyFor(d)] = journal[KeyFor(d)]
    BY <1>2 DEF PurchaseInv, PurchaseTypeOK
  <2> QED BY <1>1, <2>1, CopyStays
<1>3. CASE call[d].phase = "idle"
  BY <1>1, <1>3 DEF CopySound
<1>4. CASE KeyFor(d) = k /\ call[d].phase # "idle"
  <2>1. journal'[k] = rec
    BY DEF PurchaseInv, PurchaseTypeOK
  <2>2. CASE call[d].phase \in {"judging", "quoting"}
    BY <1>1, <2>2 DEF CopySound
  <2>3. CASE call[d].phase = "reading" /\ rec # None
    BY <1>1, <1>4, <2>1, <2>3 DEF CopySound, Known
  <2>4. CASE call[d].phase \in {"priced", "claiming"} /\ QuoteOf(call[d].rec, k)'
    BY <1>1, <1>4, <2>4 DEF CopySound
  <2>5. CASE call[d].phase \in {"publishing", "finishing"} /\ PaidCopy(call[d].rec, k)'
    BY <1>1, <1>4, <2>5 DEF CopySound
  <2> QED BY <1>4, <2>2, <2>3, <2>4, <2>5
<1> QED BY <1>2, <1>3, <1>4

\* How far a call can be, given its record.
LEMMA AtKey ==
  ASSUME PurchaseInv, NEW d \in Calls, call[d].phase # "idle"
  PROVE  /\ Known(KeyFor(d)) \/ call[d].phase \in {"judging", "quoting"}
         /\ call[d].phase \in Claiming => journal[KeyFor(d)].state = "settling"
         /\ call[d].phase \in {"priced", "claiming"} => QuoteOf(call[d].rec, KeyFor(d))
         /\ call[d].phase \in {"publishing", "finishing"} => PaidCopy(call[d].rec, KeyFor(d))
         /\ call[d].phase \in Claiming \cup {"judging", "quoting", "reading", "priced", "claiming",
                                             "publishing", "finishing"}
<1>1. call[d].phase \in Phase /\ CopySound(d)
  BY DEF PurchaseInv, PurchaseTypeOK, CallsSound, Call
<1> QED BY <1>1 DEF CopySound, Phase, QuoteOf, Holding, PaidCopy, Claiming

LEMMA InsertQuoteInv == ASSUME PurchaseInv, NEW c \in Calls, InsertQuote(c) PROVE PurchaseInv'
<1>1. PICK k \in Keys : k = KeyFor(c)
  BY CallTyped DEF InsertQuote
<1> DEFINE x == [call[c] EXCEPT !.phase = "reading"]
<1>2. /\ call[c].phase = "quoting" /\ journal' = [journal EXCEPT ![k] = FirstQuote(c)]
      /\ UNCHANGED <<receipt, submissions, offered, booked, reconciling, moved, signsFrom, clock>>
  BY <1>1 DEF InsertQuote, world
<1>3. call[c] \in Call /\ call[c].rec \in Record /\ KeyOf[call[c].rec.request] = k
  BY <1>1, <1>2, CallTyped DEF PurchaseInv, PurchaseTypeOK, CallsSound, CopySound, KeyFor
<1>4. call' = [call EXCEPT ![c] = x]
  BY <1>3 DEF InsertQuote, Advance, PurchaseInv, PurchaseTypeOK
<1>5. /\ call'[c] = x /\ x.phase = "reading" /\ x.rec = call[c].rec /\ x.request = call[c].request
      /\ \A d \in Calls \ {c} : call'[d] = call[d]
  BY <1>3, <1>4 DEF PurchaseInv, PurchaseTypeOK, Call
<1>6. x \in [phase : Phase, request : {call[c].request}, payment : {call[c].payment}, at : {call[c].at},
             rec : Record \cup {None}]
  BY <1>3 DEF Call, Phase
<1>7. journal'[k] = FirstQuote(c) /\ FirstQuote(c) \in Record
  BY <1>1, <1>2, <1>3 DEF FirstQuote, Known, PurchaseInv, PurchaseTypeOK
<1>8. CopySound(c)'
  <2>1. KeyFor(c)' = k /\ Known(k)'
    BY <1>1, <1>5, <1>7, PurchaseAssumption DEF KeyFor, Known
  <2> HIDE DEF x
  <2> QED BY <1>2, <1>5, <2>1 DEF CopySound, PurchaseInv, CallsSound
<1>9. CASE Known(k)
  <2>1. journal' = journal
    BY <1>1, <1>2, <1>9 DEF FirstQuote, PurchaseInv, PurchaseTypeOK
  <2>2. UNCHANGED tables /\ UNCHANGED <<signsFrom, clock>>
    BY <1>2, <2>1 DEF tables
  <2>3. x.phase \notin Claiming
    BY <1>5 DEF Claiming
  <2> HIDE DEF x
  <2> QED BY <1>2, <1>4, <1>6, <1>8, <2>2, <2>3, GoesOn
<1>10. CASE ~Known(k)
  <2>1. journal'[k] = call[c].rec /\ \A o \in Keys \ {k} : journal'[o] = journal[o]
    BY <1>1, <1>2, <1>7, <1>10 DEF FirstQuote, PurchaseInv, PurchaseTypeOK
  <2>2. /\ call[c].rec.state = "quoted" /\ call[c].rec.payment = None /\ call[c].rec.settlement = None
    BY <1>2 DEF PurchaseInv, CallsSound, CopySound
  <2>3. \A o \in Keys \ {k} : Known(o)' = Known(o)
    BY <2>1 DEF Known
  <2>4. PurchaseTypeOK'
    BY <1>2, <1>4, <1>6, <1>7, <1>3 DEF PurchaseInv, PurchaseTypeOK, Call
  <2>5. \A o \in Keys : RecordSound(o)'
    <3>1. RecordSound(k)'
      BY <1>3, <2>1, <2>2 DEF RecordSound, Paid
    <3>2. \A o \in Keys \ {k} : RecordSound(o)'
      BY <1>2, <2>1, <2>3 DEF PurchaseInv, TablesSound, RecordSound
    <3> QED BY <3>1, <3>2
  <2>6. SubmissionsSound'
    BY <1>2, <1>10, <2>1, <2>3 DEF PurchaseInv, TablesSound, SubmissionsSound
  <2>7. ReferencesUnique'
    <3> SUFFICES ASSUME NEW o \in Keys, NEW q \in Keys, Bought(o, q)'
                 PROVE  /\ journal'[o].payment # None => journal'[o].payment # journal'[q].payment
                        /\ journal'[o].settlement # None => journal'[o].settlement # journal'[q].settlement
      BY DEF ReferencesUnique
    <3>1. CASE o = k \/ q = k
      BY <2>1, <2>2, <3>1
    <3>2. CASE o # k /\ q # k
      BY <2>1, <2>3, <3>2 DEF PurchaseInv, TablesSound, ReferencesUnique, Bought
    <3> QED BY <3>1, <3>2
  <2>8. ReceiptsSound' /\ OffersSound' /\ BookedSound'
    BY <1>2, <1>10, <2>1, <2>3 DEF PurchaseInv, PurchaseTypeOK, TablesSound, ReceiptsSound, OffersSound, BookedSound
  <2>9. MovesSound'
    BY <1>2 DEF PurchaseInv, TablesSound, MovesSound
  <2>10. \A d \in Calls \ {c} : CopySound(d)'
    <3> SUFFICES ASSUME NEW d \in Calls \ {c} PROVE CopySound(d)'
      OBVIOUS
    <3>1. KeyFor(d) = k /\ call[d].phase # "idle" => call[d].phase \in {"judging", "quoting"}
      BY <1>10, AtKey
    <3> QED BY <1>2, <1>5, <3>1, OtherCopies
  <2>11. CallsSound'
    <3>1. x.phase \notin Claiming
      BY <1>5 DEF Claiming
    <3> HIDE DEF x
    <3> QED BY <1>4, <1>8, <2>10, <3>1, CallsStay
  <2> QED BY <2>4, <2>5, <2>6, <2>7, <2>8, <2>9, <2>11 DEF PurchaseInv, TablesSound
<1> QED BY <1>9, <1>10

LEMMA ClaimInv == ASSUME PurchaseInv, NEW c \in Calls, Claim(c) PROVE PurchaseInv'
<1>1. PICK k \in Keys : k = KeyFor(c)
  BY CallTyped DEF Claim
<1>2. PICK p \in Payments : p = call[c].payment
  BY CallTyped DEF Claim, PurchaseInv, CallsSound, CopySound
<1>3. /\ call[c].phase = "claiming" /\ Claimable(k, p)
      /\ journal' = [journal EXCEPT ![k] = Claimed(k, p)]
      /\ UNCHANGED <<receipt, submissions, offered, booked, reconciling, moved, signsFrom, clock>>
  BY <1>1, <1>2 DEF Claim, world
<1>4. /\ Known(k) /\ journal[k] \in Record /\ journal[k].state = "quoted"
      /\ call[c].rec = journal[k] /\ call[c].rec.request = call[c].request
      /\ call[c] \in Call /\ call[c].request # None
  BY <1>1, <1>3, CallTyped DEF PurchaseInv, PurchaseTypeOK, CallsSound, CopySound, QuoteOf, Claimable
<1>5. journal[k].payment = None /\ journal[k].settlement = None /\ KeyOf[journal[k].request] = k
  BY <1>4 DEF PurchaseInv, TablesSound, RecordSound, Paid
<1>r. PICK rec \in Record : rec = Claimed(k, p)
  BY <1>4 DEF Claimed, Record, JournalState
<1> DEFINE x == [call[c] EXCEPT !.phase = "claimed", !.rec = rec]
<1>6. /\ rec.state = "settling" /\ rec.payment = p /\ rec.settlement = None
      /\ rec.request = journal[k].request /\ rec.terms = journal[k].terms
  BY <1>r, <1>4, <1>5 DEF Claimed, Record, JournalState
<1>7. call' = [call EXCEPT ![c] = x]
  BY <1>r, <1>2, <1>4 DEF Claim, Claimed, PurchaseInv, PurchaseTypeOK, Call, Record
<1>8. x \in Call
  BY <1>4, <1>6 DEF Call, Phase
<1>9. /\ call'[c] = x /\ x.phase = "claimed" /\ x.rec = rec
      /\ x.request = call[c].request /\ x.payment = p
      /\ \A d \in Calls \ {c} : call'[d] = call[d]
  BY <1>2, <1>4, <1>7 DEF PurchaseInv, PurchaseTypeOK, Call
<1>10. journal'[k] = rec /\ \A o \in Keys \ {k} : journal'[o] = journal[o]
  BY <1>r, <1>3 DEF PurchaseInv, PurchaseTypeOK
<1>11. (rec # None /\ Known(k)') /\ \A o \in Keys : Known(o)' = Known(o)
  BY <1>4, <1>6, <1>10, PurchaseAssumption DEF Known
<1>12. \A q \in Payments : submissions[k][q] = 0
  BY <1>5, PurchaseAssumption DEF PurchaseInv, TablesSound, SubmissionsSound, PurchaseTypeOK
<1> HIDE DEF x
<1>13. PurchaseTypeOK'
  BY <1>r, <1>3, <1>6, <1>7, <1>8 DEF PurchaseInv, PurchaseTypeOK
<1>14. \A o \in Keys : RecordSound(o)'
  <2>1. RecordSound(k)'
    BY <1>5, <1>6, <1>10, PurchaseAssumption DEF RecordSound, Paid
  <2>2. \A o \in Keys \ {k} : RecordSound(o)'
    BY <1>3, <1>10, <1>11 DEF PurchaseInv, TablesSound, RecordSound
  <2> QED BY <2>1, <2>2
<1>15. SubmissionsSound'
  BY <1>3, <1>10, <1>11, <1>12 DEF PurchaseInv, TablesSound, SubmissionsSound
<1>16. ReferencesUnique'
  <2> SUFFICES ASSUME NEW o \in Keys, NEW q \in Keys, Bought(o, q)'
               PROVE  /\ journal'[o].payment # None => journal'[o].payment # journal'[q].payment
                      /\ journal'[o].settlement # None => journal'[o].settlement # journal'[q].settlement
    BY DEF ReferencesUnique
  <2>1. Known(o) /\ Known(q) /\ o # q
    BY <1>11 DEF Bought
  <2>2. CASE o = k \/ q = k
    BY <1>3, <1>6, <1>10, <2>1, <2>2 DEF Claimable
  <2>3. CASE o # k /\ q # k
    BY <1>10, <2>1, <2>3 DEF PurchaseInv, TablesSound, ReferencesUnique, Bought
  <2> QED BY <2>2, <2>3
<1>17. ReceiptsSound' /\ OffersSound' /\ BookedSound'
  BY <1>3, <1>4, <1>6, <1>10, <1>11
     DEF PurchaseInv, PurchaseTypeOK, TablesSound, ReceiptsSound, OffersSound, BookedSound, Paid
<1>18. MovesSound'
  BY <1>3 DEF PurchaseInv, TablesSound, MovesSound
<1>19. \A d \in Calls : KeyFor(d) = k /\ call[d].phase # "idle" =>
         call[d].phase \in {"judging", "quoting", "reading", "priced", "claiming"}
  BY <1>4, AtKey DEF PaidCopy, Paid
<1>20. \A d \in Calls \ {c} : CopySound(d)'
  <2> SUFFICES ASSUME NEW d \in Calls \ {c} PROVE CopySound(d)'
    OBVIOUS
  <2>1. KeyFor(d) = k /\ call[d].phase \in {"priced", "claiming"} => QuoteOf(call[d].rec, k)'
    BY <1>6, <1>9, <1>10, <1>11, AtKey DEF QuoteOf
  <2>2. journal' = [journal EXCEPT ![k] = rec]
    BY <1>r, <1>3
  <2>3. call'[d] = call[d] /\ UNCHANGED <<receipt, submissions, moved>> /\ rec # None
    BY <1>3, <1>9, <1>11
  <2>4. KeyFor(d) = k /\ call[d].phase # "idle" =>
          \/ call[d].phase \in {"judging", "quoting"}
          \/ call[d].phase = "reading" /\ rec # None
          \/ call[d].phase \in {"priced", "claiming"} /\ QuoteOf(call[d].rec, k)'
          \/ call[d].phase \in {"publishing", "finishing"} /\ PaidCopy(call[d].rec, k)'
    BY <1>19, <2>1, <2>3
  <2> QED BY <2>2, <2>3, <2>4, OtherCopies
<1>21. CopySound(c)'
  <2>1. KeyFor(c)' = k
    BY <1>1, <1>9 DEF KeyFor
  <2>2. Holding(c, k)'
    BY <1>6, <1>9, <1>10, <1>11, PurchaseAssumption DEF Holding
  <2> QED BY <1>2, <1>3, <1>4, <1>6, <1>9, <1>10, <1>11, <1>12, <2>1, <2>2 DEF CopySound
<1>22. CallsSound'
  <2>1. \A d \in Calls : call[d].phase \in Claiming => KeyFor(d) # k
    BY <1>19 DEF Claiming
  <2> QED BY <1>1, <1>7, <1>9, <1>20, <1>21, <2>1, CallsStay
<1> QED BY <1>13, <1>14, <1>15, <1>16, <1>17, <1>18, <1>22 DEF PurchaseInv, TablesSound

LEMMA SubmitInv == ASSUME PurchaseInv, NEW c \in Calls, Submit(c) PROVE PurchaseInv'
<1>1. PICK k \in Keys : k = KeyFor(c)
  BY CallTyped DEF Submit
<1>2. PICK p \in Payments : p = call[c].payment
  BY CallTyped DEF Submit, PurchaseInv, CallsSound, CopySound, Holding
<1>3. /\ call[c].phase = "claimed" /\ submissions' = [submissions EXCEPT ![k][p] = @ + 1]
      /\ UNCHANGED <<journal, receipt, offered, booked, reconciling, moved, signsFrom, clock>>
  BY <1>1, <1>2 DEF Submit, world
<1> DEFINE x == [call[c] EXCEPT !.phase = "settling"]
<1>4. call[c] \in Call /\ CopySound(c)
  BY DEF PurchaseInv, PurchaseTypeOK, CallsSound
<1>5. call' = [call EXCEPT ![c] = x] /\ x \in Call
  BY <1>4 DEF Submit, Advance, PurchaseInv, PurchaseTypeOK, Call, Phase
<1>6. /\ call'[c] = x /\ x.phase = "settling" /\ x.rec = call[c].rec
      /\ x.request = call[c].request /\ x.payment = p
      /\ \A d \in Calls \ {c} : call'[d] = call[d]
  BY <1>2, <1>4, <1>5 DEF PurchaseInv, PurchaseTypeOK, Call
<1>7. /\ Known(k) /\ journal[k].state = "settling" /\ journal[k].payment = p
      /\ submissions[k][p] = 0 /\ call[c].rec = journal[k]
  BY <1>1, <1>2, <1>3, <1>4 DEF CopySound, Holding
<1>8. /\ submissions'[k][p] = 1 /\ \A q \in Payments \ {p} : submissions'[k][q] = submissions[k][q]
      /\ \A o \in Keys \ {k} : submissions'[o] = submissions[o]
      /\ submissions' \in [Keys -> [Payments -> Nat]]
  BY <1>3, <1>7 DEF PurchaseInv, PurchaseTypeOK
<1> HIDE DEF x
<1>9. PurchaseTypeOK'
  BY <1>3, <1>5, <1>8 DEF PurchaseInv, PurchaseTypeOK
<1>10. \A o \in Keys : RecordSound(o)'
  <2>1. RecordSound(k)'
    BY <1>3, <1>7 DEF PurchaseInv, TablesSound, RecordSound, Paid, Known
  <2>2. \A o \in Keys \ {k} : RecordSound(o)'
    BY <1>3, <1>8 DEF PurchaseInv, TablesSound, RecordSound, Known
  <2> QED BY <2>1, <2>2
<1>11. SubmissionsSound'
  <2> SUFFICES ASSUME NEW o \in Keys, NEW q \in Payments, submissions'[o][q] > 0
               PROVE  Known(o) /\ journal[o].payment = q /\ submissions'[o][q] = 1
    BY <1>3 DEF SubmissionsSound, Known
  <2>1. CASE o = k /\ q = p
    BY <1>7, <1>8, <2>1
  <2>2. CASE ~(o = k /\ q = p)
    <3>1. submissions'[o][q] = submissions[o][q]
      BY <1>8, <2>2
    <3> QED BY <3>1 DEF PurchaseInv, TablesSound, SubmissionsSound
  <2> QED BY <2>1, <2>2
<1>12. MovesSound'
  <2>1. \A o \in Keys, q \in Payments : submissions[o][q] > 0 => submissions'[o][q] > 0
    BY <1>7, <1>8
  <2> QED BY <1>3, <2>1 DEF PurchaseInv, TablesSound, MovesSound
<1>13. TablesSound'
  BY <1>3, <1>10, <1>11, <1>12
     DEF PurchaseInv, TablesSound, ReferencesUnique, Bought, ReceiptsSound, OffersSound, BookedSound, Known
<1>14. CopySound(c)'
  <2>1. KeyFor(c)' = k /\ KeyFor(c) = k
    BY <1>1, <1>6 DEF KeyFor
  <2>2. Holding(c, k)'
    BY <1>2, <1>3, <1>4, <1>6, <2>1 DEF CopySound, Holding, Known
  <2>3. call[c].request # None /\ call[c].rec # None /\ call[c].rec.request = call[c].request
    BY <1>3, <1>4 DEF CopySound
  <2> QED BY <1>3, <1>6, <1>7, <1>8, <2>1, <2>2, <2>3 DEF CopySound
<1>15. \A d \in Calls \ {c} : CopySound(d)'
  <2> SUFFICES ASSUME NEW d \in Calls \ {c} PROVE CopySound(d)'
    OBVIOUS
  <2>1. CASE KeyFor(d) # k
    <3>1. submissions'[KeyFor(d)] = submissions[KeyFor(d)]
      BY <1>3, <2>1 DEF PurchaseInv, PurchaseTypeOK
    <3> QED BY <1>3, <1>6, <3>1, CopyStays DEF PurchaseInv, CallsSound
  <2>2. CASE KeyFor(d) = k
    <3>1. CopySound(d) /\ KeyFor(d)' = k
      BY <1>6, <2>2 DEF PurchaseInv, CallsSound, KeyFor
    <3>2. call[d].phase \notin Claiming
      BY <1>1, <1>3, <2>2 DEF PurchaseInv, CallsSound, OneClaimer, Claiming
    <3> QED BY <1>3, <1>6, <2>2, <3>1, <3>2 DEF CopySound, Claiming, QuoteOf, PaidCopy, Known
  <2> QED BY <2>1, <2>2
<1>16. CallsSound'
  <2>1. call[c].phase \in Claiming
    BY <1>3 DEF Claiming
  <2> QED BY <1>5, <1>6, <1>14, <1>15, <2>1, CallsStay
<1> QED BY <1>9, <1>13, <1>16 DEF PurchaseInv

\* What a save needs: the new record only adds to the one it replaces, whose references
\* stay unique, and calls that are not at this key or not claiming are not disturbed.
LEMMA SaveInv ==
  ASSUME PurchaseInv, NEW c \in Calls, NEW k \in Keys, k = KeyFor(c), call[c].phase # "idle",
         Known(k), NEW rec \in Record, journal' = [journal EXCEPT ![k] = rec],
         UNCHANGED <<receipt, submissions, offered, world>>,
         journal[k].state = "settling" \/ Paid(journal[k]), Paid(rec),
         journal[k].state = "complete" => rec.state = "complete",
         rec.request = journal[k].request, rec.terms = journal[k].terms, rec.payment = journal[k].payment,
         rec.settlement = TransferOf[rec.payment], rec.settlement \in moved, submissions[k][rec.payment] = 1,
         Paid(journal[k]) => rec.settlement = journal[k].settlement,
         UnusedReference(k, rec.settlement),
         NEW x \in Call, call' = [call EXCEPT ![c] = x], CopySound(c)', x.phase \notin Claiming,
         \A d \in Calls \ {c} : KeyFor(d) = k => call[d].phase \notin Claiming
  PROVE  PurchaseInv'
<1>1. journal'[k] = rec /\ \A o \in Keys \ {k} : journal'[o] = journal[o]
  BY DEF PurchaseInv, PurchaseTypeOK
<1>2. rec # None /\ \A o \in Keys : Known(o)' = Known(o)
  BY <1>1, PurchaseAssumption DEF Known
<1>3. call'[c] = x /\ \A d \in Calls \ {c} : call'[d] = call[d]
  BY DEF PurchaseInv, PurchaseTypeOK
<1>w. UNCHANGED <<booked, reconciling, moved, signsFrom, clock>>
  BY DEF world
<1>4. PurchaseTypeOK'
  BY <1>w DEF PurchaseInv, PurchaseTypeOK
<1>5. RecordSound(k) /\ journal[k] \in Record
  BY DEF PurchaseInv, PurchaseTypeOK, TablesSound, Known
<1>6. \A o \in Keys : RecordSound(o)'
  <2>1. RecordSound(k)'
    BY <1>w, <1>1, <1>5 DEF RecordSound, Paid
  <2>2. \A o \in Keys \ {k} : RecordSound(o)'
    BY <1>w, <1>1, <1>2 DEF PurchaseInv, TablesSound, RecordSound
  <2> QED BY <2>1, <2>2
<1>7. SubmissionsSound'
  BY <1>1, <1>2 DEF PurchaseInv, TablesSound, SubmissionsSound
<1>8. ReferencesUnique'
  <2> SUFFICES ASSUME NEW o \in Keys, NEW q \in Keys, Bought(o, q)'
               PROVE  /\ journal'[o].payment # None => journal'[o].payment # journal'[q].payment
                      /\ journal'[o].settlement # None => journal'[o].settlement # journal'[q].settlement
    BY DEF ReferencesUnique
  <2>1. Known(o) /\ Known(q) /\ o # q
    BY <1>2 DEF Bought
  <2>2. journal'[o].payment = journal[o].payment /\ journal'[q].payment = journal[q].payment
    BY <1>1
  <2>3. journal[o].payment # None => journal[o].payment # journal[q].payment
    BY <2>1 DEF PurchaseInv, TablesSound, ReferencesUnique, Bought
  <2>4. CASE o = k \/ q = k
    BY <1>1, <2>1, <2>2, <2>3, <2>4 DEF UnusedReference
  <2>5. CASE o # k /\ q # k
    BY <1>1, <2>1, <2>5 DEF PurchaseInv, TablesSound, ReferencesUnique, Bought
  <2> QED BY <2>4, <2>5
<1>9. ReceiptsSound'
  <2> SUFFICES ASSUME NEW o \in Keys, receipt[o] # None
               PROVE  Known(o) /\ Paid(journal'[o]) /\ receipt[o] = ReceiptOf(journal'[o])
    BY <1>2 DEF ReceiptsSound
  <2>1. Known(o) /\ Paid(journal[o]) /\ receipt[o] = ReceiptOf(journal[o])
    BY DEF PurchaseInv, TablesSound, ReceiptsSound
  <2>2. CASE o = k
    BY <1>1, <2>1, <2>2 DEF ReceiptOf
  <2> QED BY <1>1, <2>1, <2>2
<1>10. OffersSound' /\ BookedSound' /\ MovesSound'
  BY <1>w, <1>1, <1>2 DEF PurchaseInv, PurchaseTypeOK, TablesSound, OffersSound, BookedSound, MovesSound
<1>11. \A d \in Calls \ {c} : CopySound(d)'
  <2> SUFFICES ASSUME NEW d \in Calls \ {c} PROVE CopySound(d)'
    OBVIOUS
  <2>1. KeyFor(d) = k /\ call[d].phase \in {"priced", "claiming"} => QuoteOf(call[d].rec, k)'
    <3>1. rec.state # "quoted"
      BY DEF Paid
    <3> QED BY <1>1, <1>2, <1>3, <3>1, AtKey DEF QuoteOf
  <2>2. KeyFor(d) = k /\ call[d].phase \in {"publishing", "finishing"} => PaidCopy(call[d].rec, k)'
    <3> SUFFICES ASSUME KeyFor(d) = k, call[d].phase \in {"publishing", "finishing"}
                 PROVE  PaidCopy(call[d].rec, k)'
      OBVIOUS
    <3>1. PaidCopy(call[d].rec, k)
      BY AtKey
    <3>2. /\ [rec EXCEPT !.state = "settled"] = [journal[k] EXCEPT !.state = "settled"]
          /\ [rec EXCEPT !.state = "complete"] = [journal[k] EXCEPT !.state = "complete"]
      BY <1>5, <3>1 DEF PaidCopy, Record
    <3> QED BY <1>1, <1>2, <1>3, <3>1, <3>2 DEF PaidCopy
  <2>3. UNCHANGED <<receipt, submissions, moved>> /\ call'[d] = call[d] /\ journal' = [journal EXCEPT ![k] = rec]
    BY <1>w, <1>3
  <2>4. KeyFor(d) = k /\ call[d].phase # "idle" =>
          \/ call[d].phase \in {"judging", "quoting"}
          \/ call[d].phase = "reading" /\ rec # None
          \/ call[d].phase \in {"priced", "claiming"} /\ QuoteOf(call[d].rec, k)'
          \/ call[d].phase \in {"publishing", "finishing"} /\ PaidCopy(call[d].rec, k)'
    BY <1>2, <2>1, <2>2, AtKey
  <2> QED BY <2>3, <2>4, OtherCopies
<1>12. CallsSound'
  BY <1>11, CallsStay
<1> QED BY <1>4, <1>6, <1>7, <1>8, <1>9, <1>10, <1>12 DEF PurchaseInv, TablesSound

LEMMA SaveSettledInv == ASSUME PurchaseInv, NEW c \in Calls, SaveSettled(c) PROVE PurchaseInv'
<1>1. PICK k \in Keys : k = KeyFor(c)
  BY CallTyped DEF SaveSettled
<1>2. PICK p \in Payments : p = call[c].payment
  BY CallTyped DEF SaveSettled, PurchaseInv, CallsSound, CopySound, Holding
<1>3. call[c].phase = "saving" /\ call[c] \in Call /\ CopySound(c)
  BY DEF SaveSettled, PurchaseInv, PurchaseTypeOK, CallsSound
<1>4. PICK rec \in Record : rec = call[c].rec
  BY <1>3, CallTyped
<1>5. /\ UnusedReference(k, rec.settlement) /\ journal' = [journal EXCEPT ![k] = rec]
      /\ UNCHANGED <<receipt, submissions, offered, world>>
  BY <1>1, <1>4 DEF SaveSettled, Save
<1>6. /\ Known(k) /\ journal[k] \in Record /\ journal[k].state = "settling" /\ journal[k].payment = p
      /\ TransferOf[p] \in moved /\ submissions[k][p] = 1
      /\ rec = [journal[k] EXCEPT !.state = "settled", !.settlement = TransferOf[p]]
  BY <1>1, <1>2, <1>3, <1>4 DEF CopySound, Holding, Known, PurchaseInv, PurchaseTypeOK
<1>7. /\ rec.state = "settled" /\ rec.request = journal[k].request /\ rec.terms = journal[k].terms
      /\ rec.payment = p /\ rec.settlement = TransferOf[p]
  BY <1>6 DEF Record
<1> DEFINE x == [call[c] EXCEPT !.phase = "publishing"]
<1>8. x \in Call /\ call' = [call EXCEPT ![c] = x]
  BY <1>3 DEF SaveSettled, Advance, PurchaseInv, PurchaseTypeOK, Call, Phase
<1>9. /\ call'[c] = x /\ x.phase = "publishing" /\ x.rec = rec /\ x.request = call[c].request
  BY <1>3, <1>4, <1>8 DEF PurchaseInv, PurchaseTypeOK, Call
<1> HIDE DEF x
<1>10. CopySound(c)'
  <2>1. KeyFor(c)' = k /\ journal'[k] = rec
    BY <1>1, <1>5, <1>9 DEF KeyFor, PurchaseInv, PurchaseTypeOK
  <2>2. rec # None /\ rec = [rec EXCEPT !.state = "settled"]
    BY <1>7, PurchaseAssumption DEF Record
  <2>3. PaidCopy(rec, k)'
    BY <1>7, <2>1, <2>2 DEF PaidCopy, Known, Paid
  <2>4. call[c].request # None /\ rec.request = call[c].request
    BY <1>3, <1>4 DEF CopySound
  <2>5. PaidCopy(call[c].rec, KeyFor(c))'
    BY <1>9, <2>1, <2>3
  <2> QED BY <1>9, <2>2, <2>4, <2>5 DEF CopySound
<1>11. x.phase \notin Claiming /\ Paid(rec) /\ ~Paid(journal[k])
  BY <1>6, <1>7, <1>9 DEF Claiming, Paid
<1>12. \A d \in Calls \ {c} : KeyFor(d) = k => call[d].phase \notin Claiming
  BY <1>1, <1>3 DEF PurchaseInv, CallsSound, OneClaimer, Claiming
<1> QED BY <1>1, <1>3, <1>5, <1>6, <1>7, <1>8, <1>10, <1>11, <1>12, SaveInv

LEMMA FinishInv == ASSUME PurchaseInv, NEW c \in Calls, Finish(c) PROVE PurchaseInv'
<1>1. PICK k \in Keys : k = KeyFor(c)
  BY CallTyped DEF Finish
<1>3. call[c].phase = "finishing" /\ call[c] \in Call /\ CopySound(c) /\ call[c].rec \in Record
  BY CallTyped DEF Finish, PurchaseInv, PurchaseTypeOK, CallsSound
<1>4. PICK rec \in Record : rec = [call[c].rec EXCEPT !.state = "complete"]
  BY <1>3 DEF Record, JournalState
<1>5. /\ UnusedReference(k, rec.settlement) /\ journal' = [journal EXCEPT ![k] = rec]
      /\ UNCHANGED <<receipt, submissions, offered, world>>
  BY <1>1, <1>4 DEF Finish, Save
<1>6. Known(k) /\ Paid(journal[k]) /\ journal[k] \in Record /\ RecordSound(k)
  BY <1>1, <1>3 DEF CopySound, PaidCopy, Known, PurchaseInv, PurchaseTypeOK, TablesSound
<1>7. rec = [journal[k] EXCEPT !.state = "complete"]
  BY <1>1, <1>3, <1>4 DEF CopySound, PaidCopy, Record
<1>8. /\ rec.state = "complete" /\ rec.request = journal[k].request /\ rec.terms = journal[k].terms
      /\ rec.payment = journal[k].payment /\ rec.settlement = journal[k].settlement
  BY <1>6, <1>7 DEF Record
<1>9. /\ rec.settlement = TransferOf[rec.payment] /\ rec.settlement \in moved
      /\ submissions[k][rec.payment] = 1
  BY <1>6, <1>8 DEF RecordSound
<1>10. Resting \in Call /\ Resting.phase \notin Claiming
  BY PurchaseAssumption DEF Resting, Call, Phase, Time, Claiming
<1>11. call' = [call EXCEPT ![c] = Resting] /\ CopySound(c)'
  BY DEF Finish, Answer, PurchaseInv, PurchaseTypeOK, CopySound, Resting
<1>12. \A d \in Calls \ {c} : KeyFor(d) = k => call[d].phase \notin Claiming
  BY <1>6, AtKey DEF Paid, Claiming
<1>13. Paid(rec) /\ call[c].phase # "idle"
  BY <1>3, <1>8 DEF Paid
<1> QED BY <1>1, <1>5, <1>6, <1>8, <1>9, <1>10, <1>11, <1>12, <1>13, SaveInv

LEMMA PublishInv == ASSUME PurchaseInv, NEW c \in Calls, Publish(c) PROVE PurchaseInv'
<1>1. PICK k \in Keys : k = KeyFor(c)
  BY CallTyped DEF Publish
<1>2. call[c].phase = "publishing" /\ call[c] \in Call /\ CopySound(c) /\ call[c].rec \in Record
  BY CallTyped DEF Publish, PurchaseInv, PurchaseTypeOK, CallsSound
<1>3. UNCHANGED <<journal, submissions, offered, booked, reconciling, moved, signsFrom, clock>>
  BY DEF Publish, world
<1> DEFINE x == [call[c] EXCEPT !.phase = "finishing"]
<1>4. /\ x \in Call /\ call' = [call EXCEPT ![c] = x]
      /\ x \in [phase : Phase, request : {call[c].request}, payment : {call[c].payment}, at : {call[c].at},
             rec : Record \cup {None}]
  BY <1>2 DEF Publish, Advance, PurchaseInv, PurchaseTypeOK, Call, Phase
<1>5. /\ call'[c] = x /\ x.phase = "finishing" /\ x.rec = call[c].rec /\ x.request = call[c].request
      /\ \A d \in Calls \ {c} : call'[d] = call[d]
  BY <1>2, <1>4 DEF PurchaseInv, PurchaseTypeOK, Call
<1> HIDE DEF x
<1>6. x.phase \notin Claiming /\ call[c].phase # "idle"
  BY <1>2, <1>5 DEF Claiming
<1>7. /\ Known(k) /\ Paid(journal[k]) /\ PaidCopy(call[c].rec, k)
      /\ call[c].request # None /\ call[c].rec # None /\ call[c].rec.request = call[c].request
  BY <1>1, <1>2 DEF CopySound, PaidCopy
<1>8. ReceiptOf(call[c].rec) = ReceiptOf(journal[k])
  <2>1. journal[k] \in Record
    BY <1>7 DEF PurchaseInv, PurchaseTypeOK, Known
  <2> QED BY <1>7, <2>1 DEF PaidCopy, ReceiptOf, Record
<1>9. ReceiptOf(journal[k]) \in Receipt
  <2>1. journal[k] \in Record /\ journal[k].settlement \in moved /\ moved \subseteq Transfers
    BY <1>7 DEF PurchaseInv, PurchaseTypeOK, Known, TablesSound, RecordSound
  <2> QED BY <2>1 DEF Record, Receipt, ReceiptOf
<1>10. receipt'[k] = ReceiptOf(journal[k]) => CopySound(c)'
  <2> SUFFICES ASSUME receipt'[k] = ReceiptOf(journal[k]) PROVE CopySound(c)'
    OBVIOUS
  <2>1. KeyFor(c)' = k
    BY <1>1, <1>5 DEF KeyFor
  <2>2. PaidCopy(call[c].rec, KeyFor(c))'
    BY <1>3, <1>5, <1>7, <2>1 DEF PaidCopy, Known
  <2>3. receipt'[k] = ReceiptOf(call[c].rec)
    BY <1>8
  <2> QED BY <1>5, <1>7, <2>1, <2>2, <2>3 DEF CopySound
<1>11. CASE receipt[k] = ReceiptOf(call[c].rec) /\ UNCHANGED receipt
  <2>1. UNCHANGED tables /\ UNCHANGED <<signsFrom, clock>>
    BY <1>3, <1>11 DEF tables
  <2> QED BY <1>4, <1>6, <1>8, <1>10, <1>11, <2>1, GoesOn
<1>12. CASE receipt[k] = None /\ receipt' = [receipt EXCEPT ![k] = ReceiptOf(call[c].rec)]
  <2>1. receipt'[k] = ReceiptOf(journal[k]) /\ \A o \in Keys \ {k} : receipt'[o] = receipt[o]
    BY <1>8, <1>12 DEF PurchaseInv, PurchaseTypeOK
  <2>2. PurchaseTypeOK'
    BY <1>3, <1>4, <1>8, <1>9, <1>12 DEF PurchaseInv, PurchaseTypeOK
  <2>3. ReceiptsSound'
    BY <1>3, <1>7, <2>1 DEF PurchaseInv, TablesSound, ReceiptsSound, Known
  <2>4. BookedSound'
    BY <1>3, <1>9, <2>1, PurchaseAssumption DEF PurchaseInv, PurchaseTypeOK, TablesSound, BookedSound
  <2>5. TablesSound'
    BY <1>3, <2>3, <2>4 DEF PurchaseInv, TablesSound, RecordSound, SubmissionsSound, ReferencesUnique, Bought,
                            OffersSound, MovesSound, Known
  <2>6. \A d \in Calls \ {c} : CopySound(d)'
    <3> SUFFICES ASSUME NEW d \in Calls \ {c} PROVE CopySound(d)'
      OBVIOUS
    <3>1. CASE KeyFor(d) # k
      <4>1. receipt'[KeyFor(d)] = receipt[KeyFor(d)]
        BY <1>12, <3>1 DEF PurchaseInv, PurchaseTypeOK
      <4> QED BY <1>3, <1>5, <4>1, CopyStays DEF PurchaseInv, CallsSound
    <3>2. CASE KeyFor(d) = k
      <4>1. CopySound(d) /\ KeyFor(d)' = k
        BY <1>5, <3>2 DEF PurchaseInv, CallsSound, KeyFor
      <4>2. call[d].phase # "finishing"
        <5> SUFFICES ASSUME call[d].phase = "finishing" PROVE FALSE
          OBVIOUS
        <5>1. PaidCopy(call[d].rec, k) /\ receipt[k] = ReceiptOf(call[d].rec)
          BY <3>2, <4>1 DEF CopySound
        <5>2. journal[k] \in Record
          BY <1>7 DEF PurchaseInv, PurchaseTypeOK, Known
        <5>3. ReceiptOf(call[d].rec) = ReceiptOf(journal[k])
          BY <5>1, <5>2 DEF PaidCopy, ReceiptOf, Record
        <5> QED BY <1>9, <1>12, <5>1, <5>3, PurchaseAssumption
      <4>3. call'[d] = call[d] /\ UNCHANGED <<journal, submissions, moved>> /\ KeyFor(d)' = KeyFor(d)
        BY <1>3, <1>5, <3>2, <4>1
      <4>4. /\ UNCHANGED QuoteOf(call[d].rec, KeyFor(d)) /\ UNCHANGED PaidCopy(call[d].rec, KeyFor(d))
            /\ UNCHANGED Holding(d, KeyFor(d)) /\ UNCHANGED Known(KeyFor(d))
        BY <4>3 DEF QuoteOf, Holding, PaidCopy, Known
      <4> QED BY <4>1, <4>2, <4>3, <4>4 DEF CopySound
    <3> QED BY <3>1, <3>2
  <2>7. CallsSound'
    BY <1>4, <1>6, <1>10, <2>1, <2>6, CallsStay
  <2> QED BY <2>2, <2>5, <2>7 DEF PurchaseInv
<1> QED BY <1>1, <1>11, <1>12 DEF Publish

-------------------------------------------------------------------------------
(* The rail, the books, the operator and time *)

\* What a reconciliation has found of a judgment and its journal stays true until it books.
LEMMA ReconcileInv ==
  ASSUME PurchaseInv, NEW k \in Keys, ReconcileStep(k)
  PROVE  /\ UNCHANGED <<journal, receipt, submissions, moved, offered, call, signsFrom, clock>>
         /\ reconciling' \in [Keys -> Reconciliation] /\ booked' \subseteq Keys /\ BookedSound'
<1> USE DEF PurchaseInv, PurchaseTypeOK
<1>0. receipt[k] \in Receipt \cup {None} /\ reconciling[k] \in Reconciliation /\ Unreconciled \in Reconciliation
  BY DEF Unreconciled, Reconciliation
<1>1. BookedSound
  BY DEF TablesSound
<1>2. CASE Reconcile(k)
  BY <1>0, <1>1, <1>2 DEF Reconcile, Reconciliation, BookedSound
<1>3. CASE MatchJournal(k)
  <2>1. /\ reconciling' = [reconciling EXCEPT ![k].phase = "matched"] /\ reconciling[k].phase = "read"
        /\ journal[k].state = "complete"
    BY <1>3 DEF MatchJournal, Bookable
  <2>2. reconciling'[k].phase = "matched" /\ \A o \in Keys \ {k} : reconciling'[o] = reconciling[o]
    BY <2>1, <1>0 DEF Reconciliation
  <2>3. [reconciling[k] EXCEPT !.phase = "matched"] \in Reconciliation
    BY <1>0 DEF Reconciliation
  <2>4. BookedSound'
    BY <1>1, <1>3, <2>1, <2>2 DEF MatchJournal, BookedSound
  <2> QED BY <1>3, <2>1, <2>3, <2>4 DEF MatchJournal
<1>4. CASE Book(k)
  BY <1>0, <1>1, <1>4 DEF Book, Unreconciled, BookedSound
<1>5. CASE DropReconcile(k)
  BY <1>0, <1>1, <1>5 DEF DropReconcile, Unreconciled, BookedSound
<1> QED BY <1>2, <1>3, <1>4, <1>5 DEF ReconcileStep

LEMMA WorldInv ==
  ASSUME PurchaseInv,
         (\E t \in Transfers : RailMoves(t)) \/ (\E k \in Keys : ReconcileStep(k)) \/ Rotate \/ Tick
  PROVE  PurchaseInv'
<1>0. \/ \E k \in Keys : ReconcileStep(k)
      \/ UNCHANGED <<journal, receipt, submissions, offered, call, booked, reconciling>>
  BY DEF RailMoves, Rotate, Tick
<1>1. UNCHANGED <<journal, receipt, submissions, offered, call>> /\ moved \subseteq moved'
  BY ReconcileInv DEF RailMoves, Rotate, Tick
<1>2. CallsSound'
  <2>1. \A c \in Calls : CopySound(c)'
    BY <1>1, CopyStays DEF PurchaseInv, CallsSound
  <2> QED BY <1>1, <2>1 DEF PurchaseInv, CallsSound, OneClaimer, KeyFor
<1>3. PurchaseTypeOK'
  <2>1. moved' \subseteq Transfers /\ booked' \subseteq Keys /\ reconciling' \in [Keys -> Reconciliation]
    BY <1>0, ReconcileInv DEF RailMoves, Rotate, Tick, PurchaseInv, PurchaseTypeOK
  <2>2. signsFrom' \in 0 .. Never /\ clock' \in Time
    BY PurchaseAssumption, ReconcileInv DEF RailMoves, Rotate, Tick, PurchaseInv, PurchaseTypeOK, Time, Never
  <2> QED BY <1>1, <2>1, <2>2 DEF PurchaseInv, PurchaseTypeOK
<1>4. MovesSound'
  BY <1>1, ReconcileInv DEF RailMoves, Rotate, Tick, PurchaseInv, TablesSound, MovesSound
<1>5. BookedSound'
  BY <1>0, ReconcileInv DEF PurchaseInv, TablesSound, BookedSound
<1>6. \A k \in Keys : RecordSound(k)'
  BY <1>1 DEF PurchaseInv, TablesSound, RecordSound, Known
<1>7. TablesSound'
  BY <1>1, <1>4, <1>5, <1>6 DEF PurchaseInv, TablesSound, SubmissionsSound, ReferencesUnique, Bought, ReceiptsSound,
                                OffersSound, Known
<1> QED BY <1>2, <1>3, <1>7 DEF PurchaseInv

LEMMA PurchaseStart == Init => PurchaseInv
<1> SUFFICES ASSUME Init PROVE PurchaseInv
  OBVIOUS
<1>1. PurchaseTypeOK
  BY PurchaseAssumption DEF Init, PurchaseTypeOK, Call, Resting, Phase, Time, Never, Reconciliation, Unreconciled
<1>2. TablesSound
  BY DEF Init, TablesSound, RecordSound, SubmissionsSound, ReferencesUnique, Bought, ReceiptsSound, OffersSound,
         MovesSound, BookedSound, Unreconciled, Known
<1>3. CallsSound
  BY DEF Init, CallsSound, CopySound, OneClaimer, Claiming, Resting
<1> QED BY <1>1, <1>2, <1>3 DEF PurchaseInv

LEMMA PurchaseStep == PurchaseInv /\ [Next]_vars => PurchaseInv'
<1>1. ASSUME PurchaseInv, UNCHANGED vars PROVE PurchaseInv'
  <2>1. UNCHANGED tables /\ UNCHANGED <<call, signsFrom, clock>>
    BY <1>1 DEF vars, tables
  <2>2. \A c \in Calls : CopySound(c)'
    BY <1>1, <2>1, CopyStays DEF PurchaseInv, CallsSound, tables
  <2>3. CallsSound'
    BY <1>1, <2>1, <2>2 DEF PurchaseInv, CallsSound, OneClaimer, KeyFor
  <2>4. PurchaseTypeOK'
    BY <1>1, <2>1 DEF PurchaseInv, PurchaseTypeOK, tables
  <2> QED BY <1>1, <2>1, <2>3, <2>4, TablesStay DEF PurchaseInv
<1>2. ASSUME PurchaseInv, NEW c \in Calls, CheckStep(c) PROVE PurchaseInv'
  BY <1>2, ReadsInv, JudgeInv, InsertQuoteInv, ReadQuoteInv, OfferInv, VerifyInv, ClaimInv, SubmitInv, SettleReplyInv,
     SaveSettledInv, PublishInv, FinishInv DEF CheckStep
<1> QED BY <1>1, <1>2, ReadsInv, WorldInv DEF Next

LEMMA PurchaseInvariant == Spec => []PurchaseInv
  BY PurchaseStart, PurchaseStep, PTL DEF Spec

\* Records, copies, receipts and what the rail did keep their types.
THEOREM PurchaseTypes == Spec => []PurchaseTypeOK
  BY PurchaseInvariant, PTL DEF PurchaseInv

\* However calls on one key interleave, are repeated or die, settle() is called at most
\* once for a key and at most once with a payment.
THEOREM NothingIsChargedTwice == Spec => []SettledOnce
<1>1. PurchaseInv => SettledOnce
  <2> SUFFICES ASSUME PurchaseInv, NEW k \in Keys, NEW o \in Keys, NEW p \in Payments, NEW q \in Payments,
                      submissions[k][p] > 0, submissions[o][q] > 0
               PROVE  (k = o <=> p = q) /\ submissions[k][p] = 1
    BY DEF SettledOnce
  <2>1. /\ Known(k) /\ journal[k].payment = p /\ submissions[k][p] = 1
        /\ Known(o) /\ journal[o].payment = q
    BY DEF PurchaseInv, TablesSound, SubmissionsSound
  <2>2. p # None
    BY PurchaseAssumption
  <2> QED BY <2>1, <2>2 DEF PurchaseInv, TablesSound, ReferencesUnique, Bought
<1> QED BY <1>1, PurchaseInvariant, PTL

\* A receipt tells its record.
LEMMA ReceiptTells ==
  ASSUME PurchaseInv, NEW k \in Keys, receipt[k] # None
  PROVE  /\ Known(k) /\ journal[k] \in Record /\ Paid(journal[k])
         /\ receipt[k].settlement = journal[k].settlement /\ receipt[k].terms = journal[k].terms
         /\ journal[k].settlement = TransferOf[journal[k].payment] /\ journal[k].settlement \in moved
         /\ journal[k].payment \in Payments /\ submissions[k][journal[k].payment] = 1
<1>1. Known(k) /\ Paid(journal[k]) /\ receipt[k] = ReceiptOf(journal[k])
  BY DEF PurchaseInv, TablesSound, ReceiptsSound
<1>2. journal[k] \in Record /\ RecordSound(k)
  BY <1>1 DEF PurchaseInv, PurchaseTypeOK, TablesSound, Known
<1> QED BY <1>1, <1>2 DEF ReceiptOf, RecordSound, Paid, Record

LEMMA SettlementBuysOne == ASSUME PurchaseInv PROVE OneJudgmentPerSettlement
<1> SUFFICES ASSUME NEW k \in Keys, NEW o \in Keys, receipt[k] # None, receipt[o] # None,
                    receipt[k].settlement = receipt[o].settlement, k # o
             PROVE  FALSE
  BY DEF OneJudgmentPerSettlement
<1>1. /\ Known(k) /\ receipt[k].settlement = journal[k].settlement /\ journal[k].settlement \in moved
      /\ Known(o) /\ receipt[o].settlement = journal[o].settlement
  BY ReceiptTells
<1>2. journal[k].settlement # None
  BY <1>1, PurchaseAssumption DEF PurchaseInv, PurchaseTypeOK
<1> QED BY <1>1, <1>2 DEF PurchaseInv, TablesSound, ReferencesUnique, Bought

\* One transfer buys one judgment, whoever saves its settlement first.
THEOREM TransferBuysOne == Spec => []OneJudgmentPerSettlement
  BY SettlementBuysOne, PurchaseInvariant, PTL

\* The payment of every transfer the rail made is in the journal, claimed, although the
\* transfer may come long after the call that asked for it has ended.
THEOREM MoneyLeavesTraces == Spec => []MoneyTraced
<1>1. PurchaseInv => MoneyTraced
  <2> SUFFICES ASSUME PurchaseInv, NEW t \in moved
               PROVE  \E k \in Keys : /\ Known(k) /\ journal[k].payment # None
                                      /\ TransferOf[journal[k].payment] = t /\ journal[k].state # "quoted"
    BY DEF MoneyTraced
  <2>1. PICK k \in Keys, p \in Payments : submissions[k][p] > 0 /\ TransferOf[p] = t
    BY DEF PurchaseInv, TablesSound, MovesSound
  <2>2. Known(k) /\ journal[k].payment = p /\ p # None
    BY <2>1, PurchaseAssumption DEF PurchaseInv, TablesSound, SubmissionsSound
  <2> QED BY <2>1, <2>2 DEF PurchaseInv, TablesSound, RecordSound
<1> QED BY <1>1, PurchaseInvariant, PTL

\* Revenue is booked for finished purchases, at their receipt, and no transfer twice.
THEOREM RevenueStaysEarned == Spec => []RevenueIsEarned
<1>1. ASSUME PurchaseInv PROVE RevenueIsEarned
  <2>1. \A k \in booked : k \in Keys /\ receipt[k] # None /\ journal[k].state = "complete"
    BY <1>1 DEF PurchaseInv, PurchaseTypeOK, TablesSound, BookedSound
  <2>2. \A k \in booked : ReceiptOf(journal[k]) = receipt[k]
    BY <1>1, <2>1 DEF PurchaseInv, TablesSound, ReceiptsSound
  <2> QED BY <1>1, <2>1, <2>2, SettlementBuysOne DEF RevenueIsEarned, OneJudgmentPerSettlement
<1> QED BY <1>1, PurchaseInvariant, PTL

\* A receipt rests on a transfer that was made for the one payment submitted for its key.
THEOREM ReceiptsArePaid == Spec => []ReceiptIsPaid
<1>1. PurchaseInv => ReceiptIsPaid
  BY ReceiptTells DEF ReceiptIsPaid
<1> QED BY <1>1, PurchaseInvariant, PTL

\* Whoever asks under a key is offered the same terms, and these are the receipt's.
THEOREM OffersAreHonoured == Spec => []OfferHonoured
<1>1. PurchaseInv => OfferHonoured
  <2> SUFFICES ASSUME PurchaseInv, NEW k \in Keys
               PROVE  /\ \A s, t \in offered[k] : s = t
                      /\ receipt[k] # None => offered[k] \subseteq {receipt[k].terms}
    BY DEF OfferHonoured
  <2>1. offered[k] # {} => offered[k] = {journal[k].terms}
    BY DEF PurchaseInv, TablesSound, OffersSound
  <2> QED BY <2>1, ReceiptTells
<1> QED BY <1>1, PurchaseInvariant, PTL

\* A save of a copy read several awaits ago never sets a purchase back, nor changes what
\* was quoted or what it was bought with.
THEOREM SavesMoveForward == Spec => JournalMovesForward
<1> DEFINE Forward(k) ==
       /\ Stage(journal[k]) <= Stage(journal'[k])
       /\ Known(k) => /\ journal'[k].terms = journal[k].terms
                      /\ journal'[k].request = journal[k].request
                      /\ journal[k].payment # None => journal'[k].payment = journal[k].payment
                      /\ journal[k].settlement # None => journal'[k].settlement = journal[k].settlement
<1>0. \A rec \in Record : /\ rec.state = "quoted" => Stage(rec) = 1
                          /\ rec.state = "settling" => Stage(rec) = 2
                          /\ rec.state = "settled" => Stage(rec) = 3
                          /\ rec.state = "complete" => Stage(rec) = 4
  BY PurchaseAssumption DEF Stage, StageOf
<1>1. \A rec \in Record : Stage(rec) \in 1 .. 4
  BY <1>0 DEF Record, JournalState
<1>2. \A rec \in Record \cup {None} : Stage(rec) \in 0 .. 4
  BY <1>1 DEF Stage
<1>3. ASSUME PurchaseInv, NEW k \in Keys, journal'[k] = journal[k] PROVE Forward(k)
  BY <1>2, <1>3 DEF PurchaseInv, PurchaseTypeOK
<1>4. ASSUME PurchaseInv, PurchaseInv', NEW c \in Calls, NEW k \in Keys,
             InsertQuote(c) \/ Claim(c) \/ SaveSettled(c) \/ Finish(c)
      PROVE  Forward(k)
  <2>1. PICK o \in Keys : o = KeyFor(c)
    BY <1>4, CallTyped DEF InsertQuote, Claim, SaveSettled, Finish
  <2>2. CASE k # o
    <3>1. journal'[k] = journal[k]
      BY <1>4, <2>1, <2>2 DEF InsertQuote, Claim, SaveSettled, Finish, Save, PurchaseInv, PurchaseTypeOK
    <3> QED BY <1>3, <1>4, <3>1
  <2>3. CASE k = o
    <3>1. journal[k] \in Record \cup {None} /\ journal'[k] \in Record \cup {None}
      BY <1>4 DEF PurchaseInv, PurchaseTypeOK
    <3>2. CASE InsertQuote(c)
      <4>1. Known(k) => journal'[k] = journal[k]
        BY <1>4, <2>1, <2>3, <3>2 DEF InsertQuote, FirstQuote, PurchaseInv, PurchaseTypeOK
      <4>2. CASE ~Known(k)
        BY <1>2, <3>1, <4>2 DEF Known, Stage
      <4> QED BY <1>3, <1>4, <4>1, <4>2
    <3>3. CASE Claim(c)
      <4>1. Known(k) /\ journal[k].state = "quoted" /\ journal'[k] = Claimed(k, call[c].payment)
        BY <1>4, <2>1, <2>3, <3>3, AtKey DEF Claim, Claimable, PurchaseInv, PurchaseTypeOK
      <4>2. journal[k] \in Record /\ journal[k].payment = None
        BY <1>4, <4>1 DEF PurchaseInv, PurchaseTypeOK, Known, TablesSound, RecordSound
      <4>p. call[c].payment \in Payments \cup {None}
        BY <1>4, <3>3, CallTyped DEF Claim
      <4>3. /\ journal'[k] \in Record /\ journal'[k].state = "settling"
            /\ journal'[k].terms = journal[k].terms /\ journal'[k].request = journal[k].request
            /\ journal'[k].settlement = journal[k].settlement
        BY <4>p, <4>1, <4>2 DEF Claimed, Record, JournalState
      <4>4. Stage(journal[k]) = 1 /\ Stage(journal'[k]) = 2
        BY <1>0, <4>1, <4>2, <4>3
      <4> QED BY <4>2, <4>3, <4>4
    <3>4. CASE SaveSettled(c)
      <4>1. CopySound(c) /\ call[c].phase = "saving" /\ journal'[k] = call[c].rec
        BY <1>4, <2>1, <2>3, <3>4 DEF SaveSettled, Save, PurchaseInv, PurchaseTypeOK, CallsSound
      <4>2. /\ Known(k) /\ journal[k] \in Record /\ journal[k].state = "settling" /\ RecordSound(k)
            /\ journal'[k] = [journal[k] EXCEPT !.state = "settled", !.settlement = TransferOf[call[c].payment]]
        BY <1>4, <2>1, <2>3, <4>1 DEF CopySound, Holding, PurchaseInv, PurchaseTypeOK, Known, TablesSound
      <4>3. journal[k].settlement = None
        BY <4>2 DEF RecordSound, Paid
      <4>4. /\ journal'[k] \in Record /\ journal'[k].state = "settled"
            /\ journal'[k].terms = journal[k].terms /\ journal'[k].request = journal[k].request
            /\ journal'[k].payment = journal[k].payment
        <5>1. journal'[k] \in Record
          BY <1>4, <4>1, CallTyped
        <5>2. journal'[k].state = "settled"
          BY <4>2 DEF Record
        <5> QED BY <4>2, <5>1, <5>2 DEF Record
      <4>5. Stage(journal[k]) = 2 /\ Stage(journal'[k]) = 3
        BY <1>0, <4>2, <4>4
      <4> QED BY <4>3, <4>4, <4>5
    <3>5. CASE Finish(c)
      <4>1. CopySound(c) /\ call[c].phase = "finishing" /\ journal'[k] = [call[c].rec EXCEPT !.state = "complete"]
        BY <1>4, <2>1, <2>3, <3>5 DEF Finish, Save, PurchaseInv, PurchaseTypeOK, CallsSound
      <4>2. Known(k) /\ journal[k] \in Record /\ PaidCopy(call[c].rec, k)
        BY <1>4, <2>1, <2>3, <4>1 DEF CopySound, PaidCopy, PurchaseInv, PurchaseTypeOK, Known
      <4>3. journal'[k] = [journal[k] EXCEPT !.state = "complete"]
        BY <4>1, <4>2 DEF PaidCopy, Record
      <4>4. /\ journal'[k] \in Record /\ journal'[k].state = "complete"
            /\ journal'[k].terms = journal[k].terms /\ journal'[k].request = journal[k].request
            /\ journal'[k].payment = journal[k].payment /\ journal'[k].settlement = journal[k].settlement
        BY <4>2, <4>3 DEF Record, JournalState
      <4>5. Stage(journal'[k]) = 4
        BY <1>0, <4>4
      <4>6. Stage(journal[k]) <= 4
        BY <1>1, <4>2
      <4> QED BY <4>4, <4>5, <4>6
    <3> QED BY <1>4, <3>2, <3>3, <3>4, <3>5
  <2> QED BY <2>2, <2>3
<1>5. ASSUME PurchaseInv, PurchaseInv', [Next]_vars, NEW k \in Keys PROVE Forward(k)
  <2>1. journal' = journal \/ \E c \in Calls : InsertQuote(c) \/ Claim(c) \/ SaveSettled(c) \/ Finish(c)
    BY <1>5 DEF Next, CheckStep, vars, CheckNew, CheckQuoted, Replay, Judge, ReadQuote, Offer, Verify, Submit,
                SettleReply, Publish, Drop, RailMoves, ReconcileStep, Reconcile, MatchJournal, Book, DropReconcile,
                Rotate, Tick
  <2> QED BY <1>3, <1>4, <1>5, <2>1
<1>6. PurchaseInv /\ PurchaseInv' /\ [Next]_vars => [\A k \in Keys : Forward(k)]_vars
  BY <1>5
<1> QED BY <1>6, PurchaseInvariant, PTL DEF Spec, JournalMovesForward

-------------------------------------------------------------------------------
(* The sale a buyer sees *)

Price == [k \in Keys |-> IF Known(k) THEN journal[k].terms ELSE None]

LEMMA PriceIs ==
  ASSUME PurchaseInv, NEW k \in Keys
  PROVE  /\ Price[k] = IF Known(k) THEN journal[k].terms ELSE None
         /\ Price[k] # None <=> Known(k)
<1>1. Known(k) => journal[k].terms \in Terms
  BY DEF PurchaseInv, PurchaseTypeOK, Known, Record
<1> QED BY <1>1, PurchaseAssumption DEF Price

\* Prices stay as long as no record is quoted or changes its terms.
LEMMA PriceStays ==
  ASSUME \A k \in Keys : Known(k)' = Known(k) /\ (Known(k) => journal'[k].terms = journal[k].terms)
  PROVE  Price' = Price
  BY DEF Price

LEMMA QuoteMaps ==
  ASSUME PurchaseInv, NEW c \in Calls, InsertQuote(c)
  PROVE  (\E k \in Keys : Sale!Quote(k)) \/ UNCHANGED Sale!saleVars
<1>1. PICK k \in Keys : k = KeyFor(c)
  BY CallTyped DEF InsertQuote
<1>2. /\ journal' = [journal EXCEPT ![k] = FirstQuote(c)] /\ call[c].rec \in Record
      /\ UNCHANGED <<offered, submissions, moved, receipt, booked>>
  BY <1>1, CallTyped DEF InsertQuote, world
<1>3. CASE Known(k)
  <2>1. journal' = journal
    BY <1>1, <1>2, <1>3 DEF FirstQuote, PurchaseInv, PurchaseTypeOK
  <2> QED BY <1>2, <2>1 DEF Sale!saleVars, Known
<1>4. CASE ~Known(k)
  <2>1. /\ journal'[k] = call[c].rec /\ \A o \in Keys \ {k} : journal'[o] = journal[o]
        /\ call[c].rec.terms \in Terms /\ call[c].rec # None
    BY <1>1, <1>2, <1>4, PurchaseAssumption DEF FirstQuote, PurchaseInv, PurchaseTypeOK, Record
  <2>2. Price' = [Price EXCEPT ![k] = call[c].rec.terms] /\ Price[k] = None
    BY <1>4, <2>1 DEF Price, Known
  <2>3. Sale!Quote(k)
    BY <1>2, <2>1, <2>2 DEF Sale!Quote, Price
  <2> QED BY <2>3
<1> QED BY <1>3, <1>4

LEMMA OfferMaps ==
  ASSUME PurchaseInv, NEW c \in Calls, Offer(c) PROVE \E k \in Keys : Sale!Tell(k)
<1>1. PICK k \in Keys : k = KeyFor(c)
  BY CallTyped DEF Offer
<1>2. /\ offered' = [offered EXCEPT ![k] = @ \cup {call[c].rec.terms}]
      /\ Known(k) /\ call[c].rec.terms = journal[k].terms
      /\ UNCHANGED <<journal, submissions, moved, receipt, booked>>
  BY <1>1 DEF Offer, world, PurchaseInv, CallsSound, CopySound, QuoteOf
<1>3. Price[k] # None /\ Price[k] = journal[k].terms /\ Price' = Price
  BY <1>2, PriceIs, PriceStays DEF Known
<1>4. offered[k] \cup {journal[k].terms} = {Price[k]}
  BY <1>3 DEF PurchaseInv, TablesSound, OffersSound
<1>5. offered' = [offered EXCEPT ![k] = {Price[k]}]
  BY <1>2, <1>4 DEF PurchaseInv, PurchaseTypeOK
<1>6. Sale!Tell(k)
  BY <1>2, <1>3, <1>5 DEF Sale!Tell, Price
<1> QED BY <1>6

\* settle() is called by the claimer, whose key and payment were never submitted.
LEMMA SubmitMaps ==
  ASSUME PurchaseInv, NEW c \in Calls, Submit(c)
  PROVE  \E k \in Keys, p \in Payments : Sale!Charge(k, p)
<1>1. PICK k \in Keys : k = KeyFor(c)
  BY CallTyped DEF Submit
<1>2. PICK p \in Payments : p = call[c].payment
  BY CallTyped, PurchaseAssumption DEF Submit, PurchaseInv, CallsSound, CopySound, Holding
<1>3. /\ submissions' = [submissions EXCEPT ![k][p] = @ + 1]
      /\ Known(k) /\ journal[k].payment = p /\ submissions[k][p] = 0
      /\ UNCHANGED <<journal, offered, moved, receipt, booked>>
  BY <1>1, <1>2 DEF Submit, world, PurchaseInv, CallsSound, CopySound, Holding
<1>4. submissions' = [submissions EXCEPT ![k][p] = 1]
  BY <1>3 DEF PurchaseInv, PurchaseTypeOK
<1>5. \A o \in Keys, q \in Payments : o = k \/ q = p => submissions[o][q] = 0
  <2> SUFFICES ASSUME NEW o \in Keys, NEW q \in Payments, o = k \/ q = p, submissions[o][q] # 0 PROVE FALSE
    OBVIOUS
  <2>1. submissions[o][q] > 0
    BY DEF PurchaseInv, PurchaseTypeOK
  <2>2. Known(o) /\ journal[o].payment = q /\ q # None
    BY <2>1, PurchaseAssumption DEF PurchaseInv, TablesSound, SubmissionsSound
  <2>3. o = k
    BY <1>3, <2>2 DEF PurchaseInv, TablesSound, ReferencesUnique, Bought
  <2> QED BY <1>3, <2>2, <2>3
<1>6. Price[k] # None /\ Price' = Price
  BY <1>3, PriceIs, PriceStays DEF Known
<1>7. Sale!Charge(k, p)
  BY <1>3, <1>4, <1>5, <1>6 DEF Sale!Charge, Price
<1> QED BY <1>7

\* A receipt that is not there yet is published for a paid record, whose settlement no
\* other record has.
LEMMA PublishMaps ==
  ASSUME PurchaseInv, NEW c \in Calls, Publish(c)
  PROVE  (\E k \in Keys, p \in Payments : Sale!Deliver(k, p)) \/ UNCHANGED Sale!saleVars
<1>1. PICK k \in Keys : k = KeyFor(c)
  BY CallTyped DEF Publish
<1>2. UNCHANGED <<journal, offered, submissions, moved, booked>>
  BY DEF Publish, world
<1>3. CASE receipt' = receipt
  BY <1>2, <1>3 DEF Sale!saleVars, Known
<1>4. CASE receipt' # receipt
  <2>1. receipt[k] = None /\ receipt' = [receipt EXCEPT ![k] = ReceiptOf(call[c].rec)]
    BY <1>1, <1>4 DEF Publish
  <2>2. PaidCopy(call[c].rec, k) /\ Known(k) /\ journal[k] \in Record /\ RecordSound(k) /\ Paid(journal[k])
    BY <1>1 DEF Publish, PurchaseInv, PurchaseTypeOK, TablesSound, CallsSound, CopySound, PaidCopy, Known
  <2>3. PICK p \in Payments : p = journal[k].payment
    BY <2>2 DEF RecordSound, Paid, Record
  <2>4. /\ journal[k].settlement = TransferOf[p] /\ TransferOf[p] \in moved /\ submissions[k][p] = 1
        /\ journal[k].settlement # None
    BY <2>2, <2>3, PurchaseAssumption DEF RecordSound
  <2>5. ReceiptOf(call[c].rec) = [terms |-> Price[k], settlement |-> TransferOf[p]]
    <3>1. call[c].rec.terms = journal[k].terms /\ call[c].rec.settlement = journal[k].settlement
      BY <2>2 DEF PaidCopy, Record
    <3> QED BY <2>2, <2>4, <3>1, PriceIs DEF ReceiptOf
  <2>6. \A o \in Keys : receipt[o] # None => receipt[o].settlement # TransferOf[p]
    BY <2>1, <2>2, <2>4, ReceiptTells DEF PurchaseInv, TablesSound, ReferencesUnique, Bought
  <2>7. Price' = Price
    BY <1>2 DEF Price, Known
  <2>8. Sale!Deliver(k, p)
    BY <1>2, <2>1, <2>4, <2>5, <2>6, <2>7 DEF Sale!Deliver, Price
  <2> QED BY <2>8
<1> QED BY <1>3, <1>4

\* Claims and saves leave a key's terms as they are.
LEMMA SavesKeepPrices ==
  ASSUME PurchaseInv, NEW c \in Calls, Claim(c) \/ SaveSettled(c) \/ Finish(c)
  PROVE  Price' = Price
<1>1. PICK k \in Keys : k = KeyFor(c)
  BY CallTyped DEF Claim, SaveSettled, Finish
<1>2. Known(k) /\ journal[k] \in Record /\ journal[k].terms \in Terms
  BY <1>1, AtKey DEF Claim, SaveSettled, Finish, PurchaseInv, PurchaseTypeOK, Known, Record
<1>3. PICK rec : journal' = [journal EXCEPT ![k] = rec] /\ rec # None /\ rec.terms = journal[k].terms
  <2>1. CASE Claim(c)
    <3>1. journal' = [journal EXCEPT ![k] = Claimed(k, call[c].payment)] /\ call[c].payment \in Payments \cup {None}
      BY <1>1, <2>1, CallTyped DEF Claim
    <3>2. Claimed(k, call[c].payment) \in Record /\ Claimed(k, call[c].payment).terms = journal[k].terms
      BY <1>2, <3>1 DEF Claimed, Record, JournalState
    <3> QED BY <3>1, <3>2, PurchaseAssumption
  <2>2. CASE SaveSettled(c)
    <3>1. journal' = [journal EXCEPT ![k] = call[c].rec] /\ call[c].rec \in Record
      BY <1>1, <2>2, CallTyped DEF SaveSettled, Save
    <3>2. call[c].rec.terms = journal[k].terms
      BY <1>1, <1>2, <2>2 DEF SaveSettled, PurchaseInv, CallsSound, CopySound, Record
    <3> QED BY <3>1, <3>2, PurchaseAssumption
  <2>3. CASE Finish(c)
    <3>1. /\ journal' = [journal EXCEPT ![k] = [call[c].rec EXCEPT !.state = "complete"]]
          /\ call[c].rec \in Record /\ PaidCopy(call[c].rec, k)
      BY <1>1, <2>3, CallTyped DEF Finish, Save, PurchaseInv, CallsSound, CopySound
    <3>2. /\ [call[c].rec EXCEPT !.state = "complete"] \in Record
          /\ [call[c].rec EXCEPT !.state = "complete"].terms = journal[k].terms
      BY <1>2, <3>1 DEF PaidCopy, Record, JournalState
    <3> QED BY <3>1, <3>2, PurchaseAssumption
  <2> QED BY <2>1, <2>2, <2>3
<1>4. journal'[k] = rec /\ \A o \in Keys \ {k} : journal'[o] = journal[o]
  BY <1>3 DEF PurchaseInv, PurchaseTypeOK
<1>5. \A o \in Keys : Known(o)' = Known(o) /\ (Known(o) => journal'[o].terms = journal[o].terms)
  BY <1>2, <1>3, <1>4 DEF Known
<1> QED BY <1>5, PriceStays

LEMMA SaleStep ==
  ASSUME PurchaseInv, [Next]_vars PROVE [Sale!SaleNext]_(Sale!saleVars)
<1>1. CASE \E c \in Calls : InsertQuote(c) \/ Offer(c) \/ Submit(c) \/ Publish(c)
  BY <1>1, QuoteMaps, OfferMaps, SubmitMaps, PublishMaps DEF Sale!SaleNext
<1>2. CASE \E c \in Calls : Claim(c) \/ SaveSettled(c) \/ Finish(c)
  <2>1. Price' = Price /\ UNCHANGED <<offered, submissions, moved, receipt, booked>>
    BY <1>2, SavesKeepPrices DEF Claim, SaveSettled, Finish, world
  <2> QED BY <2>1 DEF Sale!saleVars, Price
<1>3. CASE \E t \in Transfers : RailMoves(t)
  BY <1>3 DEF RailMoves, Known, Sale!SaleNext, Sale!Move
<1>4. CASE \E k \in Keys : Book(k)
  BY <1>4 DEF Book, PurchaseInv, TablesSound, BookedSound, Known, Sale!SaleNext, Sale!Book
<1>5. CASE UNCHANGED <<journal, receipt, booked, submissions, moved, offered>>
  BY <1>5 DEF Sale!saleVars, Known
<1>6. \/ \E c \in Calls : InsertQuote(c) \/ Offer(c) \/ Submit(c) \/ Publish(c)
      \/ \E c \in Calls : Claim(c) \/ SaveSettled(c) \/ Finish(c)
      \/ \E t \in Transfers : RailMoves(t)
      \/ \E k \in Keys : Book(k)
      \/ UNCHANGED <<journal, receipt, booked, submissions, moved, offered>>
  BY DEF Next, CheckStep, vars, world, CheckNew, CheckQuoted, Replay, Judge, ReadQuote, Verify, SettleReply,
         Drop, ReconcileStep, Reconcile, MatchJournal, DropReconcile, Rotate, Tick
<1> QED BY <1>1, <1>2, <1>3, <1>4, <1>5, <1>6

\* check() with its retries, races, deaths and whole-record saves is, to a buyer, a shop
\* that prices once, charges once, delivers what it priced for money that bought nothing
\* else, and books what it delivered.
THEOREM PurchaseIsSale == Spec => ImplementsSale
<1>1. Init => Sale!SaleInit
  BY DEF Init, Known, Sale!SaleInit
<1>2. PurchaseInv /\ [Next]_vars => [Sale!SaleNext]_(Sale!saleVars)
  BY SaleStep
<1> QED BY <1>1, <1>2, PurchaseInvariant, PTL DEF Spec, ImplementsSale, Sale!SaleSpec
==============================================================================
