------------------------- MODULE ReceiptSpineProofs -------------------------
(***************************************************************************)
(* Proofs about the receipt spine, for any proofs and evaluations, any     *)
(* sharing of keys, judgments, settlements and subjects between them, and  *)
(* any number of handlers.                                                 *)
(*                                                                         *)
(* The uniqueness of what is stored is kept by the constraints of the      *)
(* tables; that the answers agree with it needs to know what a handler     *)
(* carries from one await to the next: the receipt it sealed is of its     *)
(* item, and the error it met is about something that is still stored.     *)
(***************************************************************************)
EXTENDS ReceiptSpine, TLAPS

\* A receipt is stored under the id that its own request asks for.
StoredUnderKey ==
  /\ \A id \in ExecutionIds : executions[id] # None => Key[executions[id]] = id
  /\ \A t \in DOMAIN evaluations :
       evaluations[t] # None => Token[evaluations[t].request] = t

\* A handler that works has an item; one that appends or has failed to has
\* sealed a receipt of it, and seen the parent of an evaluation.
Sealed(k) ==
  /\ k.at \in Working => k.item \in Items
  /\ k.at = "verify" => k.item \in Submissions
  /\ k.at = "parent" => k.item \in Requests
  /\ k.at \in {"append", "reread"} =>
       /\ k.sealed # None /\ Own(k.item, k.sealed)
       /\ k.item \in Submissions => k.sealed \in Submissions
       /\ k.item \in Requests => k.sealed \in Evaluation /\ Executed(k.item)

\* The error a handler met is about what is stored: a receipt under its id, or
\* a rival under another one unless its own is stored after all.
Founded(k) ==
  k.at = "reread" =>
    /\ k.error = "conflict" => Stored(k.item) # None
    /\ k.error = "used" => Constrained(k.item) \/ Own(k.item, Stored(k.item))

CallsGrounded == \A c \in Callers : Sealed(calls[c]) /\ Founded(calls[c])

TablesInv == StoredUnderKey /\ ProvedOnce /\ EvaluatedOnce
SpineInv == TypeOK /\ TablesInv /\ CallsGrounded

-----------------------------------------------------------------------------
LEMMA SpineInit == Init => SpineInv
<1> SUFFICES ASSUME Init PROVE SpineInv
  OBVIOUS
<1>1. TypeOK
  BY SpineAssumption DEF Init, TypeOK, Rest, Call, Resting, Errors
<1>2. TablesInv
  BY DEF Init, TablesInv, StoredUnderKey, ProvedOnce, EvaluatedOnce
<1>3. CallsGrounded
  BY DEF Init, CallsGrounded, Rest, Sealed, Founded, Working
<1> QED BY <1>1, <1>2, <1>3 DEF SpineInv

\* A handler moves and the tables stay.
LEMMA CallMoves ==
  ASSUME SpineInv, NEW c \in Callers, NEW k \in Call, Sealed(k), Founded(k),
         calls' = [calls EXCEPT ![c] = k],
         UNCHANGED <<executions, evaluations>>,
         now' \in 0..MaxTime, answered' \subseteq [item : Items, receipt : Receipts],
         refused' \subseteq Items
  PROVE  SpineInv'
<1>1. TypeOK'
  BY DEF SpineInv, TypeOK
<1>2. TablesInv'
  BY DEF SpineInv, TablesInv, StoredUnderKey, ProvedOnce, EvaluatedOnce, Executed
<1>3. \A d \in Callers : calls'[d] = IF d = c THEN k ELSE calls[d]
  BY DEF SpineInv, TypeOK
<1>4. \A j : (Sealed(j) => Sealed(j)') /\ (Founded(j) => Founded(j)')
  BY DEF Sealed, Founded, Stored, Own, Executed, Constrained, Taken, Evaluated
<1>5. CallsGrounded'
  BY <1>3, <1>4 DEF SpineInv, CallsGrounded
<1> QED BY <1>1, <1>2, <1>5 DEF SpineInv

LEMMA RestsWell == Rest \in Call /\ Sealed(Rest) /\ Founded(Rest)
  BY DEF Rest, Call, Resting, Errors, Sealed, Founded, Working

\* What a call holds, and what is stored under an item's id.
LEMMA CallTypes ==
  ASSUME SpineInv, NEW c \in Callers
  PROVE  /\ calls[c] \in Call /\ Sealed(calls[c]) /\ Founded(calls[c])
         /\ \A i \in Items : Stored(i) \in Receipts \cup {None}
         /\ \A i \in Requests : i \notin Submissions
         /\ \A i \in Submissions : Stored(i) = executions[Key[i]]
         /\ \A i \in Requests : Stored(i) = evaluations[Token[i]]
<1>1. calls[c] \in Call /\ Sealed(calls[c]) /\ Founded(calls[c])
  BY DEF SpineInv, TypeOK, CallsGrounded
<1>2. \A i \in Requests : i \notin Submissions
  BY SpineAssumption
<1>3. \A i \in Items : Stored(i) \in Receipts \cup {None}
  BY DEF SpineInv, TypeOK, Stored, Receipts, Items, ExecutionIds
<1> QED BY <1>1, <1>2, <1>3 DEF Stored

\* The end of a call, with or without an answer.
LEMMA CallEnds ==
  ASSUME SpineInv, NEW c \in Callers, calls' = [calls EXCEPT ![c] = Rest],
         UNCHANGED <<executions, evaluations, now>>,
         answered' \subseteq [item : Items, receipt : Receipts],
         refused' \subseteq Items
  PROVE  SpineInv'
  BY RestsWell, CallMoves DEF SpineInv, TypeOK

LEMMA AnswerEnds ==
  ASSUME SpineInv, NEW c \in Callers, calls[c].item \in Items,
         NEW receipt \in Receipts, Answer(c, receipt),
         UNCHANGED <<executions, evaluations, now>>
  PROVE  SpineInv'
<1>1. answered' \subseteq [item : Items, receipt : Receipts] /\ refused' \subseteq Items
  BY DEF SpineInv, TypeOK, Answer
<1> QED BY <1>1, CallEnds DEF Answer

LEMMA RefuseEnds ==
  ASSUME SpineInv, NEW c \in Callers, calls[c].item \in Items, Refuse(c),
         UNCHANGED <<executions, evaluations, now>>
  PROVE  SpineInv'
<1>1. answered' \subseteq [item : Items, receipt : Receipts] /\ refused' \subseteq Items
  BY DEF SpineInv, TypeOK, Refuse
<1> QED BY <1>1, CallEnds DEF Refuse

\* A silent move of one call.
LEMMA CallGoesOn ==
  ASSUME SpineInv, NEW c \in Callers, NEW k \in Call, Sealed(k), Founded(k),
         calls' = [calls EXCEPT ![c] = k], Silently,
         UNCHANGED <<executions, evaluations, now>>
  PROVE  SpineInv'
  BY CallMoves DEF SpineInv, TypeOK, Silently

LEMMA BeginStep ==
  ASSUME SpineInv, NEW c \in Callers, NEW i \in Items, Begin(c, i) PROVE SpineInv'
<1> DEFINE k == [Rest EXCEPT !.at = "lookup", !.item = i]
<1>1. k \in Call /\ Sealed(k) /\ Founded(k)
  BY DEF Rest, Call, Working, Errors, Sealed, Founded
<1> QED BY <1>1, CallGoesOn DEF Begin

LEMMA LookupStep ==
  ASSUME SpineInv, NEW c \in Callers, Lookup(c) PROVE SpineInv'
<1> DEFINE i == calls[c].item
<1>1. i \in Items /\ Stored(i) \in Receipts \cup {None}
  BY CallTypes DEF Lookup, Sealed, Working
<1>2. CASE Stored(i) = None /\ Goto(c, IF i \in Submissions THEN "verify" ELSE "parent") /\ Silently
  <2> DEFINE to == IF i \in Submissions THEN "verify" ELSE "parent"
             k == [calls[c] EXCEPT !.at = to]
  <2>1. k \in Call /\ k.at = to /\ k.item = i
    BY CallTypes DEF Call, Working
  <2>2. Sealed(k) /\ Founded(k)
    BY <2>1, <1>1 DEF Sealed, Founded, Items
  <2>3. calls' = [calls EXCEPT ![c] = k]
    BY <1>2 DEF Goto
  <2> QED BY <1>2, <2>1, <2>2, <2>3, CallGoesOn DEF Lookup
<1>3. CASE Stored(i) # None /\ Own(i, Stored(i)) /\ Answer(c, Stored(i))
  BY <1>1, <1>3, AnswerEnds DEF Lookup
<1>4. CASE Stored(i) # None /\ ~Own(i, Stored(i)) /\ Refuse(c)
  BY <1>1, <1>4, RefuseEnds DEF Lookup
<1> QED BY <1>2, <1>3, <1>4 DEF Lookup

LEMMA VerifyStep ==
  ASSUME SpineInv, NEW c \in Callers, Verify(c) PROVE SpineInv'
<1> DEFINE i == calls[c].item
           k == [calls[c] EXCEPT !.at = "append", !.sealed = i]
<1>1. i \in Submissions
  BY CallTypes DEF Verify, Sealed
<1>2. k \in Call /\ k.at = "append" /\ k.item = i /\ k.sealed = i
  BY <1>1, CallTypes DEF Call, Working, Receipts
<1>3. Sealed(k) /\ Founded(k)
  BY <1>1, <1>2, SpineAssumption DEF Sealed, Founded, Own, Items
<1>4. calls' = [calls EXCEPT ![c] = k]
  BY DEF Verify
<1> QED BY <1>2, <1>3, <1>4, CallGoesOn DEF Verify

LEMMA ReadParentStep ==
  ASSUME SpineInv, NEW c \in Callers, ReadParent(c) PROVE SpineInv'
<1> DEFINE i == calls[c].item
           receipt == [request |-> i, at |-> now]
           k == [calls[c] EXCEPT !.at = "append", !.sealed = receipt]
<1>1. i \in Requests /\ i \notin Submissions
  BY CallTypes DEF ReadParent, Sealed
<1>2. receipt \in Evaluation /\ receipt # None
  BY <1>1, SpineAssumption DEF SpineInv, TypeOK, Evaluation
<1>3. k \in Call /\ k.at = "append" /\ k.item = i /\ k.sealed = receipt
  BY <1>1, <1>2, CallTypes DEF Call, Working, Receipts
<1>4. Sealed(k) /\ Founded(k)
  BY <1>1, <1>2, <1>3 DEF Sealed, Founded, Own, Items, ReadParent
<1>5. calls' = [calls EXCEPT ![c] = k]
  BY DEF ReadParent
<1> QED BY <1>3, <1>4, <1>5, CallGoesOn DEF ReadParent

\* An append that failed leaves its error to the re-reading.
LEMMA FailStep ==
  ASSUME SpineInv, NEW c \in Callers, NEW error \in Errors,
         calls[c].at = "append", Fail(c, error), Silently,
         UNCHANGED <<executions, evaluations, now>>,
         error = "conflict" => Stored(calls[c].item) # None,
         error = "used" => \/ Constrained(calls[c].item)
                           \/ Own(calls[c].item, Stored(calls[c].item))
  PROVE  SpineInv'
<1> DEFINE k == [calls[c] EXCEPT !.at = "reread", !.error = error]
<1>1. k \in Call /\ k.at = "reread" /\ k.error = error /\ k.item = calls[c].item
      /\ k.sealed = calls[c].sealed
  BY CallTypes DEF Call, Working
<1>2. Sealed(k) /\ Founded(k)
  BY <1>1, CallTypes DEF Sealed, Founded, Working
<1>3. calls' = [calls EXCEPT ![c] = k]
  BY DEF Fail
<1> QED BY <1>1, <1>2, <1>3, CallGoesOn

LEMMA CollideStep ==
  ASSUME SpineInv, NEW c \in Callers, Collide(c) PROVE SpineInv'
<1> DEFINE i == calls[c].item
<1>1. /\ calls[c].at = "append" /\ Stored(i) # None
      /\ i \in Items /\ calls[c].sealed # None /\ Own(i, calls[c].sealed)
      /\ Stored(i) \in Receipts
  BY CallTypes DEF Collide, Sealed, Working
<1>2. CASE Stored(i) = calls[c].sealed /\ Answer(c, calls[c].sealed)
  BY <1>1, <1>2, AnswerEnds DEF Collide
<1>3. CASE Stored(i) # calls[c].sealed /\ Fail(c, "conflict") /\ Silently
  BY <1>1, <1>3, FailStep DEF Collide, Errors
<1>4. CASE /\ Stored(i) = calls[c].sealed
           /\ Fail(c, IF i \in Submissions THEN "used" ELSE "failed") /\ Silently
  BY <1>1, <1>4, FailStep DEF Collide, Errors
<1> QED BY <1>2, <1>3, <1>4 DEF Collide

LEMMA ViolateStep ==
  ASSUME SpineInv, NEW c \in Callers, Violate(c) \/ Disconnect(c) PROVE SpineInv'
<1>1. CASE Violate(c)
  BY <1>1, FailStep DEF Violate, Errors
<1>2. CASE Disconnect(c)
  BY <1>2, FailStep DEF Disconnect, Errors
<1> QED BY <1>1, <1>2

LEMMA RereadStep ==
  ASSUME SpineInv, NEW c \in Callers, Reread(c) PROVE SpineInv'
<1> DEFINE i == calls[c].item
           won == Rereads(i, calls[c].error) /\ Own(i, Stored(i))
<1>1. calls[c].at = "reread" /\ i \in Items
  BY CallTypes DEF Reread, Sealed, Working
<1>2. CASE won /\ Answer(c, Winner(c))
  <2>1. Stored(i) \in Receipts
    <3>1. Stored(i) \in Receipts \cup {None} /\ Own(i, Stored(i))
      BY <1>1, <1>2, CallTypes
    <3> QED BY <1>1, <3>1, SpineAssumption DEF Own
  <2> QED BY <1>1, <1>2, <2>1, AnswerEnds DEF Reread, Winner
<1>3. CASE ~won /\ Refusing(i, calls[c].error) /\ Refuse(c)
  BY <1>1, <1>3, RefuseEnds DEF Reread
<1>4. CASE ~won /\ ~Refusing(i, calls[c].error) /\ Goto(c, "unavailable") /\ Silently
  <2> DEFINE k == [calls[c] EXCEPT !.at = "unavailable"]
  <2>1. k \in Call /\ k.at = "unavailable"
    BY CallTypes DEF Call, Resting
  <2>2. Sealed(k) /\ Founded(k)
    BY <2>1 DEF Sealed, Founded, Working
  <2>3. calls' = [calls EXCEPT ![c] = k]
    BY <1>4 DEF Goto
  <2> QED BY <1>4, <2>1, <2>2, <2>3, CallGoesOn DEF Reread
<1> QED BY <1>2, <1>3, <1>4 DEF Reread

LEMMA GiveUpStep ==
  ASSUME SpineInv, NEW c \in Callers, GiveUp(c) PROVE SpineInv'
  BY RestsWell, CallGoesOn DEF GiveUp

LEMMA TickStep ==
  ASSUME SpineInv, Tick PROVE SpineInv'
<1>1. TypeOK'
  BY SpineAssumption DEF SpineInv, TypeOK, Tick
<1>2. TablesInv' /\ CallsGrounded'
  BY DEF SpineInv, Tick, TablesInv, StoredUnderKey, ProvedOnce, EvaluatedOnce, Executed,
         CallsGrounded, Sealed, Founded, Own, Stored, Constrained, Taken, Evaluated
<1> QED BY <1>1, <1>2 DEF SpineInv

-----------------------------------------------------------------------------
(* The insertion *)

\* An item that is inserted had nothing under its id; a proof shares neither judgment
\* nor settlement with a proof under another id, an evaluation no execution.
LEMMA InsertWrites ==
  ASSUME SpineInv, NEW c \in Callers, Insert(c)
  PROVE  LET i == calls[c].item IN
           /\ i \in Items /\ calls[c].sealed \in Receipts /\ calls[c].sealed # None
           /\ Own(i, calls[c].sealed) /\ Stored(i) = None /\ ~Constrained(i)
           /\ \/ /\ i \in Submissions /\ calls[c].sealed = i
                 /\ executions' = [executions EXCEPT ![Key[i]] = i]
                 /\ evaluations' = evaluations
              \/ /\ i \in Requests /\ i \notin Submissions
                 /\ calls[c].sealed \in Evaluation /\ calls[c].sealed.request = i
                 /\ Executed(i)
                 /\ evaluations' = [evaluations EXCEPT ![Token[i]] = calls[c].sealed]
                 /\ executions' = executions
<1> DEFINE i == calls[c].item
<1>1. /\ i \in Items /\ calls[c].sealed # None /\ Own(i, calls[c].sealed)
      /\ i \in Submissions => calls[c].sealed \in Submissions
      /\ i \in Requests => calls[c].sealed \in Evaluation /\ Executed(i)
      /\ \A r \in Requests : r \notin Submissions
  BY CallTypes DEF Insert, Sealed, Working
<1>2. Stored(i) = None /\ ~Constrained(i) /\ Write(i, calls[c].sealed)
  BY DEF Insert
<1>3. CASE i \in Submissions
  BY <1>1, <1>2, <1>3 DEF Write, Own, Receipts
<1>4. CASE i \notin Submissions
  BY <1>1, <1>2, <1>4 DEF Write, Own, Receipts, Items
<1> QED BY <1>3, <1>4

LEMMA InsertProof ==
  ASSUME SpineInv, NEW i \in Submissions, Stored(i) = None, ~Constrained(i),
         executions' = [executions EXCEPT ![Key[i]] = i], evaluations' = evaluations
  PROVE  /\ executions' \in [ExecutionIds -> Submissions \cup {None}]
         /\ TablesInv'
         /\ \A id \in ExecutionIds : executions[id] # None => executions'[id] = executions[id]
<1>1. Key[i] \in ExecutionIds /\ executions[Key[i]] = None
  BY DEF ExecutionIds, Stored
<1>2. /\ executions' \in [ExecutionIds -> Submissions \cup {None}]
      /\ \A id \in ExecutionIds : executions'[id] = IF id = Key[i] THEN i ELSE executions[id]
  BY DEF SpineInv, TypeOK
<1>3. StoredUnderKey'
  BY <1>2 DEF SpineInv, TablesInv, StoredUnderKey
<1>4. \A id \in ExecutionIds \ {Key[i]} : executions[id] # None =>
        Judgment[executions[id]] # Judgment[i] /\ Settlement[executions[id]] # Settlement[i]
  BY DEF Constrained, Taken
<1>5. ProvedOnce'
  BY <1>2, <1>4 DEF SpineInv, TablesInv, ProvedOnce
<1>6. \A r : Executed(r) => Executed(r)'
  BY <1>1, <1>2, SpineAssumption DEF Executed
<1>7. EvaluatedOnce'
  BY <1>6 DEF SpineInv, TablesInv, EvaluatedOnce
<1> QED BY <1>1, <1>2, <1>3, <1>5, <1>7 DEF TablesInv

LEMMA InsertEvaluation ==
  ASSUME SpineInv, NEW i \in Requests, i \notin Submissions, Stored(i) = None, ~Constrained(i),
         NEW receipt \in Evaluation, receipt.request = i, Executed(i), receipt # None,
         evaluations' = [evaluations EXCEPT ![Token[i]] = receipt], executions' = executions
  PROVE  /\ evaluations' \in [{Token[r] : r \in Requests} -> Evaluation \cup {None}]
         /\ TablesInv'
         /\ \A t \in DOMAIN evaluations : evaluations[t] # None => evaluations'[t] = evaluations[t]
<1>1. Token[i] \in DOMAIN evaluations /\ evaluations[Token[i]] = None
  BY DEF SpineInv, TypeOK, Stored
<1>2. /\ evaluations' \in [{Token[r] : r \in Requests} -> Evaluation \cup {None}]
      /\ DOMAIN evaluations' = DOMAIN evaluations
      /\ \A t \in DOMAIN evaluations : evaluations'[t] = IF t = Token[i] THEN receipt ELSE evaluations[t]
  BY DEF SpineInv, TypeOK
<1>3. StoredUnderKey'
  BY <1>2 DEF SpineInv, TablesInv, StoredUnderKey
<1>4. \A t \in DOMAIN evaluations \ {Token[i]} : evaluations[t] # None =>
        Subject[evaluations[t].request] # Subject[i]
  BY DEF Constrained, Evaluated
<1>5. EvaluatedOnce'
  BY <1>2, <1>4 DEF SpineInv, TablesInv, EvaluatedOnce, Executed
<1>6. ProvedOnce'
  BY DEF SpineInv, TablesInv, ProvedOnce
<1> QED BY <1>1, <1>2, <1>3, <1>5, <1>6 DEF TablesInv

\* What handlers know stays true when receipts are only added.
LEMMA GroundsKept ==
  ASSUME SpineInv, NEW k, Sealed(k), Founded(k),
         TypeOK', StoredUnderKey,
         \A id \in ExecutionIds : executions[id] # None => executions'[id] = executions[id],
         \A t \in DOMAIN evaluations : evaluations[t] # None => evaluations'[t] = evaluations[t]
  PROVE  Sealed(k)' /\ Founded(k)'
<1>1. DOMAIN evaluations' = DOMAIN evaluations
      /\ \A r \in Requests : Token[r] \in DOMAIN evaluations
  BY DEF SpineInv, TypeOK
<1>2. \A r : Executed(r) => Executed(r)'
  BY DEF Executed
<1>3. \A i \in Items : Stored(i) # None => Stored(i)' = Stored(i)
  BY <1>1 DEF Stored, Items, ExecutionIds
<1>4. \A i \in Items : Constrained(i) => Constrained(i)'
  BY <1>1 DEF Constrained, Taken, Evaluated
<1>5. \A i \in Items : Own(i, Stored(i)) => Stored(i) # None
  BY SpineAssumption DEF Own
<1>6. \A i, receipt : Own(i, receipt) => Own(i, receipt)'
  BY DEF Own
<1>7. Sealed(k)'
  BY <1>2, <1>6 DEF Sealed, Own
<1>8. k.at = "reread" => k.item \in Items
  BY DEF Sealed, Working
<1>9. Founded(k)'
  BY <1>3, <1>4, <1>5, <1>6, <1>8 DEF Founded, Own
<1> QED BY <1>7, <1>9

LEMMA InsertStep ==
  ASSUME SpineInv, NEW c \in Callers, Insert(c) PROVE SpineInv'
<1> DEFINE i == calls[c].item
           receipt == calls[c].sealed
<1>1. /\ i \in Items /\ receipt \in Receipts /\ receipt # None
      /\ Own(i, receipt) /\ Stored(i) = None /\ ~Constrained(i)
      /\ \/ /\ i \in Submissions /\ receipt = i
            /\ executions' = [executions EXCEPT ![Key[i]] = i]
            /\ evaluations' = evaluations
         \/ /\ i \in Requests /\ i \notin Submissions
            /\ receipt \in Evaluation /\ receipt.request = i /\ Executed(i)
            /\ evaluations' = [evaluations EXCEPT ![Token[i]] = receipt]
            /\ executions' = executions
  BY InsertWrites
<1>2. /\ executions' \in [ExecutionIds -> Submissions \cup {None}]
      /\ evaluations' \in [{Token[r] : r \in Requests} -> Evaluation \cup {None}]
      /\ TablesInv'
      /\ \A id \in ExecutionIds : executions[id] # None => executions'[id] = executions[id]
      /\ \A t \in DOMAIN evaluations : evaluations[t] # None => evaluations'[t] = evaluations[t]
  BY <1>1, InsertProof, InsertEvaluation DEF SpineInv, TypeOK
<1>3. PICK k \in Call : calls' = [calls EXCEPT ![c] = k] /\ Sealed(k) /\ Founded(k)
  <2>1. CASE Answer(c, receipt)
    BY <2>1, RestsWell DEF Answer
  <2>2. CASE Fail(c, "failed") /\ Silently
    <3> DEFINE k == [calls[c] EXCEPT !.at = "reread", !.error = "failed"]
    <3>1. k \in Call /\ k.at = "reread" /\ k.error = "failed" /\ k.item = i /\ k.sealed = receipt
      BY CallTypes DEF Call, Working, Errors
    <3>2. Sealed(k) /\ Founded(k)
      BY <3>1, CallTypes DEF Insert, Sealed, Founded, Working
    <3>3. calls' = [calls EXCEPT ![c] = k]
      BY <2>2 DEF Fail
    <3> QED BY <3>1, <3>2, <3>3
  <2> QED BY <2>1, <2>2 DEF Insert
<1>4. answered' \subseteq [item : Items, receipt : Receipts] /\ refused' \subseteq Items
  BY <1>1 DEF Insert, Answer, Silently, SpineInv, TypeOK
<1>5. TypeOK'
  BY <1>2, <1>3, <1>4 DEF Insert, SpineInv, TypeOK
<1>6. \A d \in Callers : calls'[d] = IF d = c THEN k ELSE calls[d]
  BY <1>3 DEF SpineInv, TypeOK
<1>7. \A j : Sealed(j) /\ Founded(j) => Sealed(j)' /\ Founded(j)'
  <2> SUFFICES ASSUME NEW j, Sealed(j), Founded(j) PROVE Sealed(j)' /\ Founded(j)'
    OBVIOUS
  <2>1. StoredUnderKey
    BY DEF SpineInv, TablesInv
  <2> QED BY <1>2, <1>5, <2>1, GroundsKept
<1>8. CallsGrounded'
  BY <1>3, <1>6, <1>7 DEF SpineInv, CallsGrounded
<1> QED BY <1>2, <1>5, <1>8 DEF SpineInv

LEMMA SpineNext == SpineInv /\ [Next]_vars => SpineInv'
<1> SUFFICES ASSUME SpineInv, [Next]_vars PROVE SpineInv'
  OBVIOUS
<1>1. ASSUME NEW c \in Callers, Step(c) PROVE SpineInv'
  <2>1. ASSUME NEW i \in Items, Begin(c, i) PROVE SpineInv'
    BY <2>1, BeginStep
  <2>2. CASE Lookup(c)
    BY <2>2, LookupStep
  <2>3. CASE Verify(c)
    BY <2>3, VerifyStep
  <2>4. CASE ReadParent(c)
    BY <2>4, ReadParentStep
  <2>5. CASE Insert(c)
    BY <2>5, InsertStep
  <2>6. CASE Collide(c)
    BY <2>6, CollideStep
  <2>7. CASE Violate(c) \/ Disconnect(c)
    BY <2>7, ViolateStep
  <2>8. CASE Reread(c)
    BY <2>8, RereadStep
  <2>9. CASE GiveUp(c)
    BY <2>9, GiveUpStep
  <2> QED BY <1>1, <2>1, <2>2, <2>3, <2>4, <2>5, <2>6, <2>7, <2>8, <2>9 DEF Step
<1>2. CASE Tick
  BY <1>2, TickStep
<1>3. CASE UNCHANGED vars
  BY <1>3 DEF vars, SpineInv, TypeOK, TablesInv, StoredUnderKey, ProvedOnce, EvaluatedOnce,
              Executed, CallsGrounded, Sealed, Founded, Own, Stored, Constrained, Taken, Evaluated
<1> QED BY <1>1, <1>2, <1>3 DEF Next

LEMMA SpineInvariant == Spec => []SpineInv
  BY SpineInit, SpineNext, PTL DEF Spec

\* Every handler holds a call, and the tables receipts, of their types.
THEOREM TypesHold == Spec => []TypeOK
  BY SpineInvariant, PTL DEF SpineInv

\* No two proofs of one judgment, nor of one settlement, are ever stored: the
\* unique constraints keep racing submissions under different keys apart.
THEOREM JudgmentsProvedOnce == Spec => []ProvedOnce
<1>1. SpineInv => ProvedOnce
  BY DEF SpineInv, TablesInv
<1> QED BY <1>1, SpineInvariant, PTL

\* No two evaluations of one execution are ever stored, and none without its
\* execution: what a handler read before the append still holds when it commits.
THEOREM ExecutionsEvaluatedOnce == Spec => []EvaluatedOnce
<1>1. SpineInv => EvaluatedOnce
  BY DEF SpineInv, TablesInv
<1> QED BY <1>1, SpineInvariant, PTL

-----------------------------------------------------------------------------
(* The registry *)

LEMMA RecordedIs ==
  /\ DOMAIN Recorded = Items
  /\ \A i \in Items : Recorded[i] = IF Own(i, Stored(i)) THEN Stored(i) ELSE None
  BY DEF Recorded

\* An item's own receipt is what is recorded of it.
LEMMA OwnIsRecorded ==
  ASSUME SpineInv, NEW i \in Items
  PROVE  /\ Own(i, Stored(i)) => Recorded[i] = Stored(i) /\ Recorded[i] # None
         /\ ~Own(i, Stored(i)) => Recorded[i] = None
  BY RecordedIs, SpineAssumption DEF Own

LEMMA RivalsAre ==
  ASSUME NEW i \in Items, NEW j \in Items
  PROVE  <<i, j>> \in Rivals <=>
           /\ i # j
           /\ \/ /\ i \in Submissions /\ j \in Submissions
                 /\ Key[i] = Key[j] \/ Judgment[i] = Judgment[j] \/ Settlement[i] = Settlement[j]
              \/ /\ i \in Requests /\ j \in Requests
                 /\ Token[i] = Token[j] \/ Subject[i] = Subject[j]
<1>1. \A r \in Requests : r \notin Submissions
  BY SpineAssumption
<1> QED BY <1>1 DEF Rivals, Items

\* Whatever is stored under an item's id and is not its own is a recorded rival's.
LEMMA OccupiedIsHeld ==
  ASSUME SpineInv, NEW i \in Items, Stored(i) # None, ~Own(i, Stored(i))
  PROVE  Registry!Held(i)
<1>1. CASE i \in Submissions
  <2> DEFINE j == Stored(i)
  <2>1. j \in Submissions /\ j # i /\ Key[j] = Key[i]
    BY <1>1 DEF SpineInv, TypeOK, TablesInv, StoredUnderKey, Stored, Own, ExecutionIds
  <2>2. Own(j, Stored(j))
    BY <1>1, <2>1 DEF Stored, Own
  <2>3. j \in Items /\ <<i, j>> \in Rivals
    BY <1>1, <2>1, RivalsAre DEF Items
  <2> QED BY <2>2, <2>3, OwnIsRecorded DEF Registry!Held
<1>2. CASE i \in Requests
  <2> DEFINE j == Stored(i).request
  <2>1. i \notin Submissions
    BY <1>2, SpineAssumption
  <2>2. Stored(i) \in Evaluation /\ Stored(i) = evaluations[Token[i]] /\ Token[i] \in DOMAIN evaluations
    BY <1>2, <2>1 DEF SpineInv, TypeOK, Stored
  <2>3. j \in Requests /\ j # i /\ Token[j] = Token[i]
    BY <2>1, <2>2 DEF SpineInv, TablesInv, StoredUnderKey, Own, Evaluation
  <2>4. j \notin Submissions
    BY <2>3, SpineAssumption
  <2>5. Own(j, Stored(j))
    BY <2>1, <2>2, <2>3, <2>4 DEF Stored, Own
  <2>6. j \in Items /\ <<i, j>> \in Rivals
    BY <1>2, <2>3, RivalsAre DEF Items
  <2> QED BY <2>5, <2>6, OwnIsRecorded DEF Registry!Held
<1> QED BY <1>1, <1>2 DEF Items

\* A constraint is violated by a recorded rival.
LEMMA ConstrainedIsHeld ==
  ASSUME SpineInv, NEW i \in Items, Constrained(i)
  PROVE  Registry!Held(i)
<1>1. CASE i \in Submissions
  <2>1. PICK id \in ExecutionIds \ {Key[i]} :
          /\ executions[id] # None
          /\ \/ Judgment[executions[id]] = Judgment[i]
             \/ Settlement[executions[id]] = Settlement[i]
    BY <1>1 DEF Constrained, Taken
  <2> DEFINE j == executions[id]
  <2>2. j \in Submissions /\ Key[j] = id
    BY <2>1 DEF SpineInv, TypeOK, TablesInv, StoredUnderKey
  <2>3. Own(j, Stored(j))
    BY <2>2 DEF Stored, Own
  <2>4. j \in Items /\ <<i, j>> \in Rivals
    BY <1>1, <2>1, <2>2, RivalsAre DEF Items
  <2> QED BY <2>3, <2>4, OwnIsRecorded DEF Registry!Held
<1>2. CASE i \in Requests
  <2>1. i \notin Submissions
    BY <1>2, SpineAssumption
  <2>2. PICK t \in DOMAIN evaluations \ {Token[i]} :
          evaluations[t] # None /\ Subject[evaluations[t].request] = Subject[i]
    BY <2>1 DEF Constrained, Evaluated
  <2> DEFINE j == evaluations[t].request
  <2>3. evaluations[t] \in Evaluation
    BY <2>2 DEF SpineInv, TypeOK
  <2>4. j \in Requests /\ Token[j] = t
    BY <2>2, <2>3 DEF SpineInv, TablesInv, StoredUnderKey, Evaluation
  <2>5. j \notin Submissions
    BY <2>4, SpineAssumption
  <2>6. Own(j, Stored(j))
    BY <2>2, <2>4, <2>5 DEF Stored, Own
  <2>7. j \in Items /\ <<i, j>> \in Rivals
    BY <1>2, <2>2, <2>4, RivalsAre DEF Items
  <2> QED BY <2>6, <2>7, OwnIsRecorded DEF Registry!Held
<1> QED BY <1>1, <1>2 DEF Items

\* An item that the tables would take has no recorded rival.
LEMMA FreeIsNotHeld ==
  ASSUME SpineInv, NEW i \in Items, Stored(i) = None, ~Constrained(i)
  PROVE  ~Registry!Held(i)
<1> SUFFICES ASSUME NEW j \in Items, <<i, j>> \in Rivals, Recorded[j] # None PROVE FALSE
  BY DEF Registry!Held
<1>1. Own(j, Stored(j))
  BY OwnIsRecorded
<1>2. CASE i \in Submissions /\ j \in Submissions
  <2>1. executions[Key[j]] = j /\ executions[Key[i]] = None /\ Key[j] \in ExecutionIds
    BY <1>1, <1>2 DEF Stored, Own, ExecutionIds
  <2>2. Key[j] # Key[i] /\ executions[Key[j]] # None
    BY <1>2, <2>1, SpineAssumption
  <2>3. Judgment[i] = Judgment[j] \/ Settlement[i] = Settlement[j]
    BY <1>2, <2>2, RivalsAre, SpineAssumption
  <2>4. Taken(i)
    BY <2>1, <2>2, <2>3 DEF Taken
  <2> QED BY <1>2, <2>4 DEF Constrained
<1>3. CASE i \in Requests /\ j \in Requests
  <2>1. i \notin Submissions /\ j \notin Submissions
    BY <1>3, SpineAssumption
  <2>2. /\ evaluations[Token[j]].request = j /\ evaluations[Token[j]] # None
        /\ evaluations[Token[i]] = None
    BY <1>1, <2>1 DEF Stored, Own
  <2>3. Token[j] # Token[i] /\ Token[j] \in DOMAIN evaluations
    BY <1>3, <2>2 DEF SpineInv, TypeOK
  <2>4. Subject[i] = Subject[j]
    BY <1>3, <2>1, <2>3, RivalsAre
  <2>5. Evaluated(i)
    BY <2>2, <2>3, <2>4 DEF Evaluated
  <2> QED BY <2>1, <2>5 DEF Constrained
<1> QED BY <1>2, <1>3, RivalsAre

\* An insertion records the item, and nothing else changes in the registry.
LEMMA InsertRecords ==
  ASSUME SpineInv, NEW c \in Callers, Insert(c),
         NEW i, i = calls[c].item, NEW receipt, receipt = calls[c].sealed
  PROVE  Recorded[i] = None /\ Recorded' = [Recorded EXCEPT ![i] = receipt]
<1>1. /\ i \in Items /\ receipt \in Receipts /\ receipt # None
      /\ Own(i, receipt) /\ Stored(i) = None
      /\ \/ /\ i \in Submissions /\ receipt = i
            /\ executions' = [executions EXCEPT ![Key[i]] = i]
            /\ evaluations' = evaluations
         \/ /\ i \in Requests /\ i \notin Submissions
            /\ receipt \in Evaluation /\ receipt.request = i
            /\ evaluations' = [evaluations EXCEPT ![Token[i]] = receipt]
            /\ executions' = executions
  BY InsertWrites
<1>2. \A j \in Items : \/ Stored(j)' = Stored(j)
                       \/ /\ Stored(j) = None /\ Stored(j)' = receipt
                          /\ j \in Submissions <=> i \in Submissions
  BY <1>1 DEF SpineInv, TypeOK, Stored, Items, ExecutionIds
<1>3. Stored(i)' = receipt
  BY <1>1 DEF SpineInv, TypeOK, Stored, ExecutionIds
<1>4. Own(i, receipt)
  BY <1>1
<1>5. \A j \in Items \ {i} : (j \in Submissions <=> i \in Submissions) => ~Own(j, receipt)
  BY <1>1, SpineAssumption DEF Own, Items, Evaluation
<1>6. \A j \in Items : ~Own(j, None)
  BY SpineAssumption DEF Own
<1>7. \A j : Own(j, Stored(j))' <=> Own(j, Stored(j)')
  BY DEF Own
<1>8. \A j \in Items : Recorded'[j] = IF j = i THEN receipt ELSE Recorded[j]
  <2> SUFFICES ASSUME NEW j \in Items PROVE Recorded'[j] = IF j = i THEN receipt ELSE Recorded[j]
    OBVIOUS
  <2>1. Recorded'[j] = IF Own(j, Stored(j)') THEN Stored(j)' ELSE None
    BY <1>7 DEF Recorded
  <2> QED BY <2>1, <1>2, <1>3, <1>4, <1>5, <1>6, RecordedIs
<1>9. Recorded[i] = None
  BY <1>1, <1>6, RecordedIs
<1>10. /\ Recorded' = [j \in Items |-> Recorded'[j]]
       /\ Recorded = [j \in Items |-> Recorded[j]]
  BY DEF Recorded
<1>11. Recorded' = [Recorded EXCEPT ![i] = receipt]
  BY <1>8, <1>10
<1> QED BY <1>9, <1>11

\* While the tables stay, the registry does.
LEMMA RecordedStays ==
  ASSUME UNCHANGED <<executions, evaluations>> PROVE Recorded' = Recorded
<1>1. \A j : Own(j, Stored(j))' <=> Own(j, Stored(j))
  BY DEF Own, Stored
<1>2. \A j : Stored(j)' = Stored(j)
  BY DEF Stored
<1> QED BY <1>1, <1>2 DEF Recorded

LEMMA SilentStays ==
  ASSUME UNCHANGED <<executions, evaluations>>, Silently
  PROVE  UNCHANGED Registry!registryVars
  BY RecordedStays DEF Silently, Registry!registryVars

\* An answer with the receipt that is stored repeats the registry's.
LEMMA AnswerRepeats ==
  ASSUME SpineInv, NEW c \in Callers, calls[c].item \in Items,
         Own(calls[c].item, Stored(calls[c].item)), Answer(c, Stored(calls[c].item)),
         UNCHANGED <<executions, evaluations>>
  PROVE  Registry!Repeat(calls[c].item)
  BY RecordedStays, OwnIsRecorded DEF Answer, Registry!Repeat

LEMMA RefuseRefuses ==
  ASSUME SpineInv, NEW c \in Callers, Registry!Held(calls[c].item), Refuse(c),
         UNCHANGED <<executions, evaluations>>
  PROVE  Registry!Refuse(calls[c].item)
  BY RecordedStays DEF Refuse, Registry!Refuse

LEMMA StepMaps ==
  ASSUME SpineInv, NEW c \in Callers, Step(c)
  PROVE  Registry!RegistryNext \/ UNCHANGED Registry!registryVars
<1> DEFINE i == calls[c].item
<1>1. CASE Insert(c)
  <2>1. i \in Items /\ calls[c].sealed \in Receipts /\ Stored(i) = None /\ ~Constrained(i)
    BY <1>1, InsertWrites
  <2>2. ~Registry!Held(i)
    BY <2>1, FreeIsNotHeld
  <2>3. Recorded[i] = None /\ Recorded' = [Recorded EXCEPT ![i] = calls[c].sealed]
    BY <1>1, InsertRecords
  <2>4. Registry!Record(i, calls[c].sealed)
    BY <1>1, <2>2, <2>3 DEF Insert, Answer, Silently, Registry!Record
  <2> QED BY <2>1, <2>4 DEF Registry!RegistryNext
<1>2. CASE Lookup(c)
  <2>1. i \in Items
    BY <1>2, CallTypes DEF Lookup, Sealed, Working
  <2>2. CASE Silently
    BY <1>2, <2>2, SilentStays DEF Lookup
  <2>3. CASE Own(i, Stored(i)) /\ Answer(c, Stored(i))
    BY <1>2, <2>1, <2>3, AnswerRepeats DEF Lookup, Registry!RegistryNext
  <2>4. CASE Stored(i) # None /\ ~Own(i, Stored(i)) /\ Refuse(c)
    BY <1>2, <2>1, <2>4, OccupiedIsHeld, RefuseRefuses DEF Lookup, Registry!RegistryNext
  <2> QED BY <1>2, <2>2, <2>3, <2>4 DEF Lookup
<1>3. CASE Collide(c)
  <2>1. i \in Items /\ Own(i, calls[c].sealed)
    BY <1>3, CallTypes DEF Collide, Sealed, Working
  <2>2. CASE Silently
    BY <1>3, <2>2, SilentStays DEF Collide
  <2>3. CASE Stored(i) = calls[c].sealed /\ Answer(c, calls[c].sealed)
    BY <1>3, <2>1, <2>3, AnswerRepeats DEF Collide, Registry!RegistryNext
  <2> QED BY <1>3, <2>2, <2>3 DEF Collide
<1>4. CASE Reread(c)
  <2> DEFINE won == Rereads(i, calls[c].error) /\ Own(i, Stored(i))
  <2>1. i \in Items /\ Founded(calls[c])
    BY <1>4, CallTypes DEF Reread, Sealed, Working
  <2>2. CASE Silently
    BY <1>4, <2>2, SilentStays DEF Reread
  <2>3. CASE won /\ Answer(c, Winner(c))
    BY <1>4, <2>1, <2>3, AnswerRepeats DEF Reread, Winner, Registry!RegistryNext
  <2>4. CASE ~won /\ Refusing(i, calls[c].error) /\ Refuse(c)
    <3>1. ~Own(i, Stored(i)) /\ (Stored(i) # None \/ Constrained(i))
      BY <1>4, <2>1, <2>4 DEF Reread, Rereads, Refusing, Founded
    <3>2. Registry!Held(i)
      BY <2>1, <3>1, OccupiedIsHeld, ConstrainedIsHeld
    <3> QED BY <1>4, <2>1, <2>4, <3>2, RefuseRefuses DEF Reread, Registry!RegistryNext
  <2> QED BY <1>4, <2>2, <2>3, <2>4 DEF Reread
<1>5. CASE \/ \E j \in Items : Begin(c, j)
           \/ Verify(c) \/ ReadParent(c) \/ Violate(c) \/ Disconnect(c) \/ GiveUp(c)
  BY <1>5, SilentStays DEF Begin, Verify, ReadParent, Violate, Disconnect, GiveUp
<1> QED BY <1>1, <1>2, <1>3, <1>4, <1>5 DEF Step

LEMMA NextMaps ==
  ASSUME SpineInv, [Next]_vars
  PROVE  Registry!RegistryNext \/ UNCHANGED Registry!registryVars
<1>1. CASE Tick
  BY <1>1, SilentStays DEF Tick, Silently
<1>2. CASE UNCHANGED vars
  BY <1>2, SilentStays DEF vars, Silently
<1> QED BY <1>1, <1>2, StepMaps DEF Next

\* To its clients the spine is a registry: racing, retrying and dying handlers
\* record every item once, answer with what is recorded, and refuse for a rival.
THEOREM SpineIsRegistry == Spec => ImplementsRegistry
<1>1. Init => Registry!RegistryInit
  <2> SUFFICES ASSUME Init PROVE Registry!RegistryInit
    OBVIOUS
  <2>1. \A i \in Items : Stored(i) = None
    BY DEF Init, Stored, Items, ExecutionIds
  <2>2. Recorded = [i \in Items |-> None]
    BY <2>1 DEF Recorded
  <2> QED BY <2>2 DEF Init, Registry!RegistryInit
<1>2. SpineInv /\ [Next]_vars => [Registry!RegistryNext]_(Registry!registryVars)
  BY NextMaps
<1> QED BY <1>1, <1>2, SpineInvariant, PTL DEF Spec, ImplementsRegistry, Registry!RegistrySpec

-----------------------------------------------------------------------------
\* What the registry promises, and why: a refusal had its rival.
RegistryInv ==
  /\ Registry!RegistryConsistent
  /\ \A i \in refused : Registry!Held(i)

LEMMA RivalsAreMutual ==
  ASSUME NEW i \in Items, NEW j \in Items, <<i, j>> \in Rivals
  PROVE  <<j, i>> \in Rivals
  BY RivalsAre

LEMMA RegistryStep ==
  ASSUME SpineInv, SpineInv', RegistryInv, Registry!RegistryNext
  PROVE  RegistryInv'
<1>1. DOMAIN Recorded = Items /\ answered \subseteq [item : Items, receipt : Receipts] /\ refused \subseteq Items
  BY RecordedIs DEF SpineInv, TypeOK
<1>2. PICK i \in Items : Registry!Repeat(i) \/ Registry!Refuse(i)
                         \/ \E receipt \in Receipts : Registry!Record(i, receipt)
  BY DEF Registry!RegistryNext
<1>3. CASE Registry!Repeat(i)
  BY <1>1, <1>3 DEF RegistryInv, Registry!RegistryConsistent, Registry!Held, Registry!Repeat
<1>4. CASE Registry!Refuse(i)
  BY <1>1, <1>4, RivalsAreMutual DEF RegistryInv, Registry!RegistryConsistent, Registry!Held, Registry!Refuse
<1>5. ASSUME NEW receipt \in Receipts, Registry!Record(i, receipt) PROVE RegistryInv'
  <2>1. \A j \in Items : Recorded'[j] = IF j = i THEN receipt ELSE Recorded[j]
    BY <1>1, <1>5 DEF Registry!Record
  <2>2. receipt # None /\ Recorded[i] = None /\ ~Registry!Held(i) /\ refused' = refused
    BY <1>5, SpineAssumption DEF Registry!Record, Receipts, Evaluation
  <2>3. \A j \in refused : j # i /\ Registry!Held(j)'
    BY <1>1, <2>1, <2>2 DEF RegistryInv, Registry!Held
  <2>4. \A j, k \in Items : <<j, k>> \in Rivals /\ Recorded'[j] # None => Recorded'[k] = None
    BY <2>1, <2>2, RivalsAreMutual, RivalsAre DEF RegistryInv, Registry!RegistryConsistent, Registry!Held
  <2>5. \A a \in answered' : a.receipt = Recorded'[a.item]
    <3>1. \A a \in answered : a.receipt = Recorded[a.item] /\ a.item # i /\ a.item \in Items
      BY <1>1, <2>2, SpineAssumption DEF RegistryInv, Registry!RegistryConsistent, Receipts, Evaluation
    <3>2. answered' = answered \/ answered' = answered \cup {[item |-> i, receipt |-> receipt]}
      BY <1>5 DEF Registry!Record
    <3> QED BY <2>1, <3>1, <3>2
  <2>6. \A j \in refused' : Recorded'[j] = None
    BY <1>1, <2>1, <2>2, <2>3 DEF RegistryInv, Registry!RegistryConsistent
  <2> QED BY <2>2, <2>3, <2>4, <2>5, <2>6 DEF RegistryInv, Registry!RegistryConsistent
<1> QED BY <1>2, <1>3, <1>4, <1>5

\* What is answered is what is recorded, now and for ever; a 409 had a recorded
\* rival, and the refused item is never recorded after all.
THEOREM AnswersAgree == Spec => []Registry!RegistryConsistent
<1>1. Init /\ SpineInv => RegistryInv
  <2> SUFFICES ASSUME Init, SpineInv PROVE RegistryInv
    OBVIOUS
  <2>1. \A i \in Items : Recorded[i] = None
    <3>1. \A i \in Items : Stored(i) = None
      BY DEF Init, Stored, Items, ExecutionIds
    <3> QED BY <3>1, RecordedIs
  <2> QED BY <2>1 DEF Init, RegistryInv, Registry!RegistryConsistent
<1>2. SpineInv /\ SpineInv' /\ [Next]_vars /\ RegistryInv => RegistryInv'
  <2> SUFFICES ASSUME SpineInv, SpineInv', [Next]_vars, RegistryInv PROVE RegistryInv'
    OBVIOUS
  <2>1. Registry!RegistryNext \/ UNCHANGED Registry!registryVars
    BY NextMaps
  <2>2. CASE UNCHANGED Registry!registryVars
    BY <2>2 DEF Registry!registryVars, RegistryInv, Registry!RegistryConsistent, Registry!Held
  <2> QED BY <2>1, <2>2, RegistryStep
<1>3. RegistryInv => Registry!RegistryConsistent
  BY DEF RegistryInv
<1> QED BY <1>1, <1>2, <1>3, SpineInvariant, PTL DEF Spec
=============================================================================
