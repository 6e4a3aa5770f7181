------------------------------ MODULE SpendLedger ------------------------------
(***************************************************************************)
(* What the economic engine and its execution gate promise to a principal  *)
(* about money, without policies, evidence, receipts, calls or clocks      *)
(* (docs/economic-engine-implementation.md:85): capacity is held before it *)
(* is spent, a hold is returned only while nothing was submitted under it, *)
(* and what is held, in flight or spent never exceeds the principal's      *)
(* limit.  ExecutionGate implements it (ImplementsLedger there).           *)
(***************************************************************************)
EXTENDS Naturals, Functions

CONSTANTS
  Requests, Principals,
  Payer,   \* Payer[r]: the principal request r spends for
  Cost,    \* Cost[r]: the most r may be charged
  Limit    \* Limit[p]: what principal p may have at stake

VARIABLES
  hold,     \* progress of the hold of request r
  charged,  \* what it was closed at
  paid      \* what has been paid under it

ledgerVars == <<hold, charged, paid>>

AtStake(r) == CASE hold[r] \in {"held", "committed"} -> Cost[r]
                [] hold[r] = "spent" -> charged[r]
                [] OTHER -> 0
Exposure(p) == SumFunction([r \in Requests |-> IF Payer[r] = p THEN AtStake(r) ELSE 0])

LedgerInit ==
  /\ hold = [r \in Requests |-> "free"]
  /\ charged = [r \in Requests |-> 0]
  /\ paid = [r \in Requests |-> 0]

\* Holds are returned; nothing was submitted under them.
Return(rs) ==
  /\ \A r \in rs : hold[r] = "held"
  /\ hold' = [r \in Requests |-> IF r \in rs THEN "returned" ELSE hold[r]]
  /\ UNCHANGED <<charged, paid>>

\* Other holds may be returned on the way to a new one, which must fit.
Grant(r, rs) ==
  /\ hold[r] = "free"
  /\ \A q \in rs : hold[q] = "held"
  /\ hold' = [q \in Requests |-> IF q = r THEN "held" ELSE IF q \in rs THEN "returned" ELSE hold[q]]
  /\ Exposure(Payer[r])' <= Limit[Payer[r]]
  /\ UNCHANGED <<charged, paid>>

Commit(r) ==
  /\ hold[r] = "held"
  /\ hold' = [hold EXCEPT ![r] = "committed"]
  /\ UNCHANGED <<charged, paid>>

\* One payment per hold, only while it is committed and within what it holds.
Pay(r, amount) ==
  /\ hold[r] = "committed" /\ paid[r] = 0
  /\ amount <= Cost[r]
  /\ paid' = [paid EXCEPT ![r] = amount]
  /\ UNCHANGED <<hold, charged>>

\* A hold is closed at what was paid.
Close(r) ==
  /\ hold[r] = "committed"
  /\ hold' = [hold EXCEPT ![r] = "spent"]
  /\ charged' = [charged EXCEPT ![r] = paid[r]]
  /\ UNCHANGED paid

LedgerNext ==
  \/ \E r \in Requests, rs \in SUBSET Requests : Grant(r, rs)
  \/ \E rs \in SUBSET Requests : Return(rs)
  \/ \E r \in Requests : Commit(r) \/ Close(r)
  \/ \E r \in Requests : \E amount \in 1 .. Cost[r] : Pay(r, amount)

LedgerSpec == LedgerInit /\ [][LedgerNext]_ledgerVars
=================================================================================
