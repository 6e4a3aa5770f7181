---------------------------- MODULE IPXLaunchProofs ----------------------------
(***************************************************************************)
(* Proofs about the launch, for any wallets, any cohort, any revenues and  *)
(* costs, and any share of them to be burned.                              *)
(*                                                                         *)
(* What is owed is a sum: of the entitlements not yet claimed, of the      *)
(* budgets not yet executed, of what the purchases burned.  Each step of   *)
(* the contracts changes one summand and one balance by the same amount,   *)
(* which the lemmas of FiniteSums turn into the invariants below.          *)
(***************************************************************************)
EXTENDS IPXLaunch, FiniteSums

TokenTypeOK == balance \in [Accounts -> Nat] /\ supply \in Int

\* The cohort: ordinals are given once and without gaps, to payloads of their window.
AdmissionsBuilt == \A c \in Admissions : admission[c].at # "idle" => admission[c].payload \in Payload
OrdinalsDiffer ==
  \A v, w \in Admitted : cohort[v].ordinal = cohort[w].ordinal => v = w
CohortInv == IsFiniteSet(Admitted) /\ OrdinalsDiffer /\ CohortSound

\* Before the seal nothing is paid; the root is the complete cohort, and what is
\* claimed are leaves of it.
RootInv ==
  /\ cohortRoot = Unset => claimed = {} /\ \A w \in Wallets : balance[w] = 0
  /\ cohortRoot # Unset =>
       /\ cohortRoot = Leaves /\ Cardinality(Admitted) = Limit
       /\ \A x \in claimed : x[2] \in Admitted /\ x[1] = cohort[x[2]].ordinal

\* The leaves still to be paid, and what they add up to.
Open == {leaf \in cohortRoot : <<leaf[1], leaf[2]>> \notin claimed}
Outstanding == SumFunction([leaf \in Open |-> leaf[3]])

\* The distributor holds what is still to be paid, and has paid what was promised.
EntitlementsCovered ==
  cohortRoot # Unset =>
    /\ balance[Distributor] >= Outstanding
    /\ \A w \in Wallets : balance[w] =
         IF \E x \in claimed : x[2] = w THEN Promised(cohort[w].ordinal) ELSE 0

GenesisInv ==
  GenesisTypeOK /\ TokenTypeOK /\ AdmissionsBuilt /\ CohortInv /\ RootInv /\ EntitlementsCovered

\* The vault and the ledger: an event is an executed contribution's, a purchase
\* receipt has a final event, and the supply lacks what the events burned.
EventsExecuted ==
  \A r \in Revenues :
    /\ event[r] # NoReceipt <=> contributions[r] # NoReceipt /\ contributions[r].executed
    /\ event[r] # NoReceipt => event[r].spent = contributions[r].budget
Purchased ==
  \A r \in Revenues : stage[r] \in {"purchase", "burn"} =>
    /\ event[r] # NoReceipt /\ event[r].final /\ event[r].spent = accounted[r]
    /\ proven[r] = [spent |-> event[r].spent, burned |-> event[r].burned]
Burned(r) == IF event[r] # NoReceipt THEN event[r].burned ELSE 0
SupplyBurned == Allocation + Liquidity - supply = SumFunction([r \in Revenues |-> Burned(r)])

ContributionInv ==
  ContributionTypeOK /\ ReservesBacked /\ EventsExecuted /\ Purchased /\ SupplyBurned

LaunchInv == GenesisInv /\ ContributionInv

--------------------------------------------------------------------------------
(* The vault and the ledger *)

\* A share of at most the whole, rounded down, is at most the whole.
LEMMA ShareBounded ==
  ASSUME NEW a \in Nat, NEW s \in Nat \ {0}, NEW b \in 1 .. s
  PROVE  (a * b) \div s \in 0 .. a
<1> DEFINE q == (a * b) \div s
<1>1. a * b \in Nat /\ a * b <= a * s
  OBVIOUS
<1>2. q \in Nat /\ s * q <= a * b
  BY <1>1
<1>3. ASSUME q > a PROVE FALSE
  <2>1. s * (a + 1) <= s * q
    BY <1>2, <1>3
  <2>2. s * (a + 1) = a * s + s
    OBVIOUS
  <2> QED BY <1>1, <1>2, <2>1, <2>2
<1> QED BY <1>2, <1>3

LEMMA BudgetBounded ==
  ASSUME NEW gross \in Nat, NEW costs \in Nat
  PROVE  Budget(gross, costs) \in 0 .. gross
<1>1. CASE gross > costs
  <2>1. gross - costs \in Nat
    BY <1>1
  <2>2. ((gross - costs) * BurnBps) \div Scale \in 0 .. gross - costs
    BY <2>1, ShareBounded, ContributionAssumption
  <2> QED BY <1>1, <2>2 DEF Budget
<1>2. CASE ~(gross > costs)
  BY <1>2 DEF Budget
<1> QED BY <1>1, <1>2

LEMMA StagesAre == {Stages[n] : n \in 1..6} = {"none", "service", "revenue", "contribution", "purchase", "burn"}
<1>1. \A n \in 1..6 : n = 1 \/ n = 2 \/ n = 3 \/ n = 4 \/ n = 5 \/ n = 6
  OBVIOUS
<1>2. /\ Stages[1] = "none" /\ Stages[2] = "service" /\ Stages[3] = "revenue"
      /\ Stages[4] = "contribution" /\ Stages[5] = "purchase" /\ Stages[6] = "burn"
  BY DEF Stages
<1> QED BY <1>1, <1>2

LEMMA RecordsAreReceipts ==
  /\ \A x \in [budget : Nat, executed : BOOLEAN] : x # NoReceipt
  /\ \A x \in [spent : Nat, burned : Nat, final : BOOLEAN] : x # NoReceipt
  BY ContributionAssumption

\* What the sums add up.
LEMMA SummandsTyped ==
  ASSUME ContributionTypeOK
  PROVE  /\ [r \in Revenues |-> Owed(r)] \in [Revenues -> Nat]
         /\ [r \in Revenues |-> Burned(r)] \in [Revenues -> Nat]
         /\ \A r \in Revenues :
              /\ contributions[r] # NoReceipt =>
                   contributions[r] \in [budget : Nat, executed : BOOLEAN]
              /\ event[r] # NoReceipt =>
                   event[r] \in [spent : Nat, burned : Nat, final : BOOLEAN]
  BY DEF ContributionTypeOK, Owed, Burned

\* One revenue's contribution changes: the sum of what is owed changes by as much.
LEMMA OwedChanges ==
  ASSUME ContributionTypeOK, ContributionTypeOK', NEW r \in Revenues,
         \A s \in Revenues \ {r} : contributions'[s] = contributions[s]
  PROVE  LET F == [s \in Revenues |-> Owed(s)] IN
           /\ SumFunction(F)' = (SumFunction(F) - Owed(r)) + Owed(r)'
           /\ SumFunction(F) \in Nat /\ Owed(r) \in Nat /\ Owed(r) <= SumFunction(F)
<1> DEFINE F == [s \in Revenues |-> Owed(s)]
<1>1. F \in [Revenues -> Nat] /\ F' \in [Revenues -> Nat]
  BY SummandsTyped DEF ContributionTypeOK, Owed
<1>2. \A s \in Revenues \ {r} : F[s] = F'[s]
  BY DEF Owed
<1>3. F[r] = Owed(r) /\ F'[r] = Owed(r)'
  OBVIOUS
<1> HIDE DEF F
<1>4. IsFiniteSet(Revenues)
  BY ContributionAssumption
<1>5. /\ SumFunction(F') = (SumFunction(F) - F[r]) + F'[r]
      /\ SumFunction(F) \in Nat /\ F[r] <= SumFunction(F)
  BY <1>1, <1>2, <1>4, TotalChanges
<1> QED BY <1>1, <1>3, <1>5 DEF F

LEMMA BurnedChanges ==
  ASSUME ContributionTypeOK, ContributionTypeOK', NEW r \in Revenues,
         \A s \in Revenues \ {r} : event'[s] = event[s]
  PROVE  LET F == [s \in Revenues |-> Burned(s)] IN
           /\ SumFunction(F)' = (SumFunction(F) - Burned(r)) + Burned(r)'
           /\ SumFunction(F) \in Nat /\ Burned(r) \in Nat
<1> DEFINE F == [s \in Revenues |-> Burned(s)]
<1>1. F \in [Revenues -> Nat] /\ F' \in [Revenues -> Nat]
  BY SummandsTyped DEF ContributionTypeOK, Burned
<1>2. \A s \in Revenues \ {r} : F[s] = F'[s]
  BY DEF Burned
<1>3. F[r] = Burned(r) /\ F'[r] = Burned(r)'
  OBVIOUS
<1> HIDE DEF F
<1>4. IsFiniteSet(Revenues)
  BY ContributionAssumption
<1>5. /\ SumFunction(F') = (SumFunction(F) - F[r]) + F'[r]
      /\ SumFunction(F) \in Nat
  BY <1>1, <1>2, <1>4, TotalChanges
<1> QED BY <1>1, <1>3, <1>5 DEF F

\* While contributions or events stay, so do the sums over them.
LEMMA SumsStay ==
  /\ UNCHANGED contributions =>
       SumFunction([r \in Revenues |-> Owed(r)])' = SumFunction([r \in Revenues |-> Owed(r)])
  /\ UNCHANGED event =>
       SumFunction([r \in Revenues |-> Burned(r)])' = SumFunction([r \in Revenues |-> Burned(r)])
<1>1. ASSUME UNCHANGED contributions
      PROVE  [r \in Revenues |-> Owed(r)]' = [r \in Revenues |-> Owed(r)]
  BY <1>1 DEF Owed
<1>2. ASSUME UNCHANGED event
      PROVE  [r \in Revenues |-> Burned(r)]' = [r \in Revenues |-> Burned(r)]
  BY <1>2 DEF Burned
<1> QED BY <1>1, <1>2

LEMMA FundStep ==
  ASSUME ContributionInv, Fund PROVE ContributionInv'
<1>1. ContributionTypeOK'
  BY DEF ContributionInv, ContributionTypeOK, Fund, ledgerState
<1>2. ReservesBacked'
  BY SumsStay DEF ContributionInv, ContributionTypeOK, ReservesBacked, Fund
<1>3. SupplyBurned'
  BY SumsStay DEF ContributionInv, SupplyBurned, Fund, tokenVars
<1> QED BY <1>1, <1>2, <1>3 DEF ContributionInv, EventsExecuted, Purchased, Fund, ledgerState

LEMMA RecordContributionStep ==
  ASSUME ContributionInv, NEW r \in Revenues, NEW gross \in Named, NEW costs \in Costs,
         RecordContribution(r, gross, costs)
  PROVE  ContributionInv'
<1> DEFINE budget == Budget(gross, costs)
           made == [budget |-> budget, executed |-> FALSE]
<1>1. gross \in Nat /\ budget \in 0 .. gross
  BY BudgetBounded, ContributionAssumption
<1>2. /\ contributions[r] = NoReceipt /\ usdg >= reserved + gross
      /\ contributions' = [contributions EXCEPT ![r] = made]
      /\ reserved' = reserved + budget /\ usdg' = usdg - (gross - budget)
      /\ UNCHANGED <<event, ledgerState, tokenVars>>
  BY DEF RecordContribution, Funded
<1> HIDE DEF budget
<1>3. made \in [budget : Nat, executed : BOOLEAN] /\ made # NoReceipt
      /\ made.budget = budget /\ made.executed = FALSE
  <2>1. made \in [budget : Nat, executed : BOOLEAN]
    BY <1>1
  <2> QED BY <2>1, RecordsAreReceipts
<1> HIDE DEF made
<1>4. usdg \in Nat /\ reserved \in Nat /\ reserved = SumFunction([s \in Revenues |-> Owed(s)])
  BY DEF ContributionInv, ContributionTypeOK, ReservesBacked
<1>5. ContributionTypeOK'
  BY <1>1, <1>2, <1>3, <1>4 DEF ContributionInv, ContributionTypeOK, ledgerState
<1>6. /\ \A s \in Revenues \ {r} : contributions'[s] = contributions[s]
      /\ contributions'[r] = made
  BY <1>2 DEF ContributionInv, ContributionTypeOK
<1>7. Owed(r) = 0 /\ Owed(r)' = budget
  BY <1>2, <1>3, <1>6 DEF Owed
<1>8. SumFunction([s \in Revenues |-> Owed(s)])' = reserved + budget
  <2>1. SumFunction([s \in Revenues |-> Owed(s)])' =
          (SumFunction([s \in Revenues |-> Owed(s)]) - Owed(r)) + Owed(r)'
    BY <1>5, <1>6, OwedChanges DEF ContributionInv
  <2> QED BY <1>1, <1>4, <1>7, <2>1
<1>9. ReservesBacked'
  <2>1. usdg' >= reserved'
    BY <1>1, <1>2, <1>4
  <2> QED BY <1>2, <1>8, <2>1 DEF ReservesBacked
<1>10. SupplyBurned'
  BY <1>2, SumsStay DEF ContributionInv, SupplyBurned, tokenVars
<1>11. EventsExecuted'
  BY <1>2, <1>3, <1>6 DEF ContributionInv, EventsExecuted
<1>12. Purchased'
  BY <1>2 DEF ContributionInv, Purchased, ledgerState
<1> QED BY <1>5, <1>9, <1>10, <1>11, <1>12 DEF ContributionInv

LEMMA BuyAndBurnStep ==
  ASSUME ContributionInv, TokenTypeOK, NEW r \in Revenues, NEW bought \in Bought, BuyAndBurn(r, bought)
  PROVE  ContributionInv'
<1> DEFINE budget == contributions[r].budget
           done == [contributions[r] EXCEPT !.executed = TRUE]
           bill == [spent |-> budget, burned |-> bought, final |-> FALSE]
<1>1. /\ contributions[r] \in [budget : Nat, executed : BOOLEAN] /\ contributions[r] # NoReceipt
      /\ contributions[r].executed = FALSE /\ usdg >= budget /\ budget \in Nat /\ bought \in Nat
  <2>1. contributions[r] # NoReceipt /\ ~contributions[r].executed /\ usdg >= contributions[r].budget
    BY DEF BuyAndBurn
  <2>2. contributions[r] \in [budget : Nat, executed : BOOLEAN]
    BY <2>1, SummandsTyped DEF ContributionInv
  <2>3. contributions[r].executed \in BOOLEAN /\ budget \in Nat /\ bought \in Nat
    BY <2>2, ContributionAssumption
  <2> QED BY <2>1, <2>2, <2>3
<1>2. /\ contributions' = [contributions EXCEPT ![r].executed = TRUE]
      /\ reserved' = reserved - budget /\ usdg' = usdg - budget
      /\ event' = [event EXCEPT ![r] = bill]
      /\ supply' = supply - bought /\ UNCHANGED ledgerState
  BY DEF BuyAndBurn, BuyAndBurnIPX
<1>3. /\ done \in [budget : Nat, executed : BOOLEAN] /\ done # NoReceipt
      /\ done.budget = budget /\ done.executed = TRUE
  BY <1>1, ContributionAssumption
<1>4. /\ bill \in [spent : Nat, burned : Nat, final : BOOLEAN] /\ bill # NoReceipt
      /\ bill.spent = budget /\ bill.burned = bought /\ bill.final = FALSE
  <2>1. bill \in [spent : Nat, burned : Nat, final : BOOLEAN]
    BY <1>1
  <2> QED BY <2>1, RecordsAreReceipts
<1>5. /\ \A s \in Revenues \ {r} : contributions'[s] = contributions[s] /\ event'[s] = event[s]
      /\ contributions'[r] = done /\ event'[r] = bill
      /\ contributions' = [contributions EXCEPT ![r] = done]
  BY <1>2 DEF ContributionInv, ContributionTypeOK
<1>6. event[r] = NoReceipt
  BY <1>1 DEF ContributionInv, EventsExecuted
<1> HIDE DEF done, bill
<1>7. Owed(r) = budget /\ Owed(r)' = 0 /\ Burned(r) = 0 /\ Burned(r)' = bought
  BY <1>1, <1>3, <1>4, <1>5, <1>6 DEF Owed, Burned
<1> HIDE DEF budget
<1>8. usdg \in Nat /\ reserved \in Nat /\ reserved = SumFunction([s \in Revenues |-> Owed(s)])
      /\ usdg >= reserved /\ supply \in Int
      /\ Allocation + Liquidity - supply = SumFunction([s \in Revenues |-> Burned(s)])
      /\ Allocation \in Nat /\ Liquidity \in Nat
  BY TokenAssumption DEF ContributionInv, ContributionTypeOK, ReservesBacked, SupplyBurned, TokenTypeOK
<1>9. budget <= reserved
  <2>1. contributions' \in [Revenues -> [budget : Nat, executed : BOOLEAN] \cup {NoReceipt}]
    BY <1>3, <1>5 DEF ContributionInv, ContributionTypeOK
  <2> DEFINE F == [s \in Revenues |-> Owed(s)]
  <2>2. F \in [Revenues -> Nat] /\ F[r] = budget
    BY <1>7, SummandsTyped DEF ContributionInv
  <2> HIDE DEF F
  <2>3. F[r] <= SumFunction(F)
    BY <2>2, ContributionAssumption, TotalChanges
  <2> QED BY <1>8, <2>2, <2>3 DEF F
<1>10. ContributionTypeOK'
  <2>1. usdg' \in Nat /\ reserved' \in Nat
    BY <1>1, <1>2, <1>8, <1>9
  <2>2. /\ contributions' \in [Revenues -> [budget : Nat, executed : BOOLEAN] \cup {NoReceipt}]
        /\ event' \in [Revenues -> [spent : Nat, burned : Nat, final : BOOLEAN] \cup {NoReceipt}]
    BY <1>2, <1>3, <1>4, <1>5 DEF ContributionInv, ContributionTypeOK
  <2> QED BY <1>2, <2>1, <2>2 DEF ContributionInv, ContributionTypeOK, ledgerState
<1>11. ReservesBacked'
  <2>1. SumFunction([s \in Revenues |-> Owed(s)])' =
          (SumFunction([s \in Revenues |-> Owed(s)]) - Owed(r)) + Owed(r)'
    BY <1>5, <1>10, OwedChanges DEF ContributionInv
  <2>2. SumFunction([s \in Revenues |-> Owed(s)])' = reserved' /\ usdg' >= reserved'
    BY <1>1, <1>2, <1>7, <1>8, <1>9, <2>1
  <2> QED BY <2>2 DEF ReservesBacked
<1>12. SupplyBurned'
  <2>1. SumFunction([s \in Revenues |-> Burned(s)])' =
          (SumFunction([s \in Revenues |-> Burned(s)]) - Burned(r)) + Burned(r)'
    BY <1>5, <1>10, BurnedChanges DEF ContributionInv
  <2>2. Allocation + Liquidity - supply' = SumFunction([s \in Revenues |-> Burned(s)])'
    BY <1>1, <1>2, <1>7, <1>8, <2>1
  <2> QED BY <2>2 DEF SupplyBurned
<1>13. EventsExecuted'
  BY <1>3, <1>4, <1>5 DEF ContributionInv, EventsExecuted
<1>14. Purchased'
  BY <1>2, <1>5, <1>6 DEF ContributionInv, Purchased, ledgerState
<1> QED BY <1>10, <1>11, <1>12, <1>13, <1>14 DEF ContributionInv

LEMMA FinalizeStep ==
  ASSUME ContributionInv, NEW r \in Revenues, Finalize(r) PROVE ContributionInv'
<1> DEFINE bill == [event[r] EXCEPT !.final = TRUE]
<1>1. /\ event[r] # NoReceipt /\ event' = [event EXCEPT ![r].final = TRUE]
      /\ UNCHANGED <<usdg, reserved, contributions, ledgerState, tokenVars>>
  BY DEF Finalize, Pending
<1>2. event[r] \in [spent : Nat, burned : Nat, final : BOOLEAN]
  BY <1>1, SummandsTyped DEF ContributionInv
<1>3. /\ bill \in [spent : Nat, burned : Nat, final : BOOLEAN] /\ bill # NoReceipt
      /\ bill.spent = event[r].spent /\ bill.burned = event[r].burned /\ bill.final
  BY <1>2, ContributionAssumption
<1>4. event' = [event EXCEPT ![r] = bill]
  BY <1>1 DEF ContributionInv, ContributionTypeOK
<1>5. event'[r] = bill /\ \A s \in Revenues \ {r} : event'[s] = event[s]
  BY <1>1 DEF ContributionInv, ContributionTypeOK
<1> HIDE DEF bill
<1>6. ContributionTypeOK'
  BY <1>1, <1>3, <1>4 DEF ContributionInv, ContributionTypeOK, ledgerState
<1>7. ReservesBacked'
  BY <1>1, SumsStay DEF ContributionInv, ReservesBacked
<1>8. SupplyBurned'
  <2>1. SumFunction([s \in Revenues |-> Burned(s)])' =
          (SumFunction([s \in Revenues |-> Burned(s)]) - Burned(r)) + Burned(r)'
        /\ SumFunction([s \in Revenues |-> Burned(s)]) \in Nat /\ Burned(r) \in Nat
    BY <1>5, <1>6, BurnedChanges DEF ContributionInv
  <2>2. Burned(r)' = Burned(r)
    BY <1>1, <1>3, <1>5 DEF Burned
  <2>3. SumFunction([s \in Revenues |-> Burned(s)])' = SumFunction([s \in Revenues |-> Burned(s)])
    BY <2>1, <2>2
  <2> QED BY <1>1, <2>3 DEF ContributionInv, SupplyBurned, tokenVars
<1>9. EventsExecuted'
  BY <1>1, <1>3, <1>5 DEF ContributionInv, EventsExecuted
<1>10. Purchased'
  <2> SUFFICES ASSUME NEW s \in Revenues, stage[s] \in {"purchase", "burn"}
               PROVE  /\ event'[s] # NoReceipt /\ event'[s].final /\ event'[s].spent = accounted[s]
                      /\ proven[s] = [spent |-> event'[s].spent, burned |-> event'[s].burned]
    BY <1>1 DEF Purchased, ledgerState
  <2>1. /\ event[s] # NoReceipt /\ event[s].final /\ event[s].spent = accounted[s]
        /\ proven[s] = [spent |-> event[s].spent, burned |-> event[s].burned]
    BY DEF ContributionInv, Purchased
  <2>2. CASE s = r
    BY <1>3, <1>5, <2>1, <2>2
  <2>3. CASE s # r
    BY <1>5, <2>1, <2>3
  <2> QED BY <2>2, <2>3
<1> QED BY <1>6, <1>7, <1>8, <1>9, <1>10 DEF ContributionInv

LEMMA ReorganizeStep ==
  ASSUME ContributionInv, TokenTypeOK, NEW r \in Revenues, Reorganize(r) PROVE ContributionInv'
<1> DEFINE undone == [contributions[r] EXCEPT !.executed = FALSE]
           spent == event[r].spent
           burned == event[r].burned
<1>1. /\ event[r] # NoReceipt /\ ~event[r].final
      /\ event' = [event EXCEPT ![r] = NoReceipt]
      /\ contributions' = [contributions EXCEPT ![r].executed = FALSE]
      /\ reserved' = reserved + spent /\ usdg' = usdg + spent
      /\ supply' = supply + burned /\ UNCHANGED ledgerState
  BY DEF Reorganize, Pending
<1>2. /\ contributions[r] # NoReceipt /\ contributions[r].executed /\ spent = contributions[r].budget
  BY <1>1 DEF ContributionInv, EventsExecuted
<1>3. spent \in Nat /\ burned \in Nat /\ contributions[r] \in [budget : Nat, executed : BOOLEAN]
  BY <1>1, <1>2, SummandsTyped DEF ContributionInv
<1>4. /\ undone \in [budget : Nat, executed : BOOLEAN] /\ undone # NoReceipt
      /\ undone.budget = spent /\ undone.executed = FALSE
  BY <1>2, <1>3, ContributionAssumption
<1>5. /\ \A s \in Revenues \ {r} : contributions'[s] = contributions[s] /\ event'[s] = event[s]
      /\ contributions'[r] = undone /\ event'[r] = NoReceipt
      /\ contributions' = [contributions EXCEPT ![r] = undone]
  BY <1>1 DEF ContributionInv, ContributionTypeOK
<1> HIDE DEF undone
<1>6. Owed(r) = 0 /\ Owed(r)' = spent /\ Burned(r) = burned /\ Burned(r)' = 0
  BY <1>1, <1>2, <1>4, <1>5 DEF Owed, Burned
<1> HIDE DEF spent, burned
<1>7. usdg \in Nat /\ reserved \in Nat /\ reserved = SumFunction([s \in Revenues |-> Owed(s)])
      /\ usdg >= reserved /\ supply \in Int
      /\ Allocation + Liquidity - supply = SumFunction([s \in Revenues |-> Burned(s)])
      /\ Allocation \in Nat /\ Liquidity \in Nat
  BY TokenAssumption DEF ContributionInv, ContributionTypeOK, ReservesBacked, SupplyBurned, TokenTypeOK
<1>8. ContributionTypeOK'
  <2>1. usdg' \in Nat /\ reserved' \in Nat
    BY <1>1, <1>3, <1>7
  <2>2. /\ contributions' \in [Revenues -> [budget : Nat, executed : BOOLEAN] \cup {NoReceipt}]
        /\ event' \in [Revenues -> [spent : Nat, burned : Nat, final : BOOLEAN] \cup {NoReceipt}]
    BY <1>1, <1>4, <1>5 DEF ContributionInv, ContributionTypeOK
  <2> QED BY <1>1, <2>1, <2>2 DEF ContributionInv, ContributionTypeOK, ledgerState
<1>9. ReservesBacked'
  <2>1. SumFunction([s \in Revenues |-> Owed(s)])' =
          (SumFunction([s \in Revenues |-> Owed(s)]) - Owed(r)) + Owed(r)'
    BY <1>5, <1>8, OwedChanges DEF ContributionInv
  <2>2. SumFunction([s \in Revenues |-> Owed(s)])' = reserved' /\ usdg' >= reserved'
    BY <1>1, <1>3, <1>6, <1>7, <2>1
  <2> QED BY <2>2 DEF ReservesBacked
<1>10. SupplyBurned'
  <2>1. SumFunction([s \in Revenues |-> Burned(s)])' =
          (SumFunction([s \in Revenues |-> Burned(s)]) - Burned(r)) + Burned(r)'
    BY <1>5, <1>8, BurnedChanges DEF ContributionInv
  <2>2. Allocation + Liquidity - supply' = SumFunction([s \in Revenues |-> Burned(s)])'
    BY <1>1, <1>3, <1>6, <1>7, <2>1
  <2> QED BY <2>2 DEF SupplyBurned
<1>11. EventsExecuted'
  BY <1>4, <1>5 DEF ContributionInv, EventsExecuted
<1>12. Purchased'
  <2>1. stage[r] \notin {"purchase", "burn"}
    BY <1>1 DEF ContributionInv, Purchased
  <2> QED BY <1>1, <1>5, <2>1 DEF ContributionInv, Purchased, ledgerState
<1> QED BY <1>8, <1>9, <1>10, <1>11, <1>12 DEF ContributionInv

\* The ledger appends while the chain stands still.
LEMMA OffChainStays ==
  ASSUME ContributionInv, OffChain, ContributionTypeOK', Purchased'
  PROVE  ContributionInv'
<1>1. UNCHANGED <<usdg, reserved, contributions, event, balance, supply>>
  BY DEF OffChain, vaultVars, tokenVars
<1>2. ReservesBacked' /\ SupplyBurned'
  BY <1>1, SumsStay DEF ContributionInv, ReservesBacked, SupplyBurned
<1> QED BY <1>1, <1>2 DEF ContributionInv, EventsExecuted

LEMMA RevenueStep ==
  ASSUME ContributionInv, NEW r \in Revenues, Revenue(r) PROVE ContributionInv'
<1>1. ContributionTypeOK'
  BY StagesAre DEF ContributionInv, ContributionTypeOK, Revenue, Append, OffChain, vaultVars
<1>2. Purchased'
  BY DEF ContributionInv, ContributionTypeOK, Purchased, Revenue, Append, OffChain, vaultVars
<1> QED BY <1>1, <1>2, OffChainStays DEF Revenue

LEMMA AccountStep ==
  ASSUME ContributionInv, NEW r \in Revenues, NEW costs \in Costs, Account(r, costs)
  PROVE  ContributionInv'
<1>1. Budget(Gross[r], costs) \in Nat
  BY BudgetBounded, ContributionAssumption
<1>2. ContributionTypeOK'
  BY <1>1, StagesAre DEF ContributionInv, ContributionTypeOK, Account, Append, OffChain, vaultVars
<1>3. Purchased'
  BY DEF ContributionInv, ContributionTypeOK, Purchased, Account, Append, OffChain, vaultVars
<1> QED BY <1>2, <1>3, OffChainStays DEF Account

LEMMA BurnStep ==
  ASSUME ContributionInv, NEW r \in Revenues, Burn(r) PROVE ContributionInv'
<1> DEFINE seen == [spent |-> event[r].spent, burned |-> event[r].burned]
<1>1. /\ event[r] # NoReceipt /\ event[r].final /\ event[r].spent = accounted[r]
      /\ stage' = [stage EXCEPT ![r] = "purchase"] \/ stage' = [stage EXCEPT ![r] = "burn"]
      /\ proven' = [proven EXCEPT ![r] = seen]
      /\ UNCHANGED <<accounted, usdg, reserved, contributions, event>> /\ OffChain
  BY DEF Burn, Proves, Append, OffChain, vaultVars
<1>2. event[r] \in [spent : Nat, burned : Nat, final : BOOLEAN]
  BY <1>1, SummandsTyped DEF ContributionInv
<1>3. seen \in [spent : Nat, burned : Nat]
  BY <1>2
<1>4. ContributionTypeOK'
  BY <1>1, <1>3, StagesAre DEF ContributionInv, ContributionTypeOK
<1>5. Purchased'
  <2> SUFFICES ASSUME NEW s \in Revenues, stage'[s] \in {"purchase", "burn"}
               PROVE  /\ event[s] # NoReceipt /\ event[s].final /\ event[s].spent = accounted[s]
                      /\ proven'[s] = [spent |-> event[s].spent, burned |-> event[s].burned]
    BY <1>1 DEF Purchased
  <2>1. CASE s = r
    BY <1>1, <2>1 DEF ContributionInv, ContributionTypeOK
  <2>2. CASE s # r
    BY <1>1, <2>2 DEF ContributionInv, ContributionTypeOK, Purchased
  <2> QED BY <2>1, <2>2
<1> QED BY <1>1, <1>4, <1>5, OffChainStays

LEMMA ContributionStep ==
  ASSUME ContributionInv, TokenTypeOK, ContributionNext PROVE ContributionInv'
  BY FundStep, RecordContributionStep, BuyAndBurnStep, FinalizeStep, ReorganizeStep, RevenueStep,
     AccountStep, BurnStep DEF ContributionNext

LEMMA ContributionUnmoved ==
  ASSUME ContributionInv, UNCHANGED <<contributionVars, supply>> PROVE ContributionInv'
<1>1. UNCHANGED <<usdg, reserved, contributions, event, stage, accounted, proven, supply>>
  BY DEF contributionVars, vaultVars, ledgerState
<1>2. ReservesBacked' /\ SupplyBurned'
  BY <1>1, SumsStay DEF ContributionInv, ReservesBacked, SupplyBurned
<1>3. ContributionTypeOK'
  BY <1>1 DEF ContributionInv, ContributionTypeOK
<1> QED BY <1>1, <1>2, <1>3 DEF ContributionInv, EventsExecuted, Purchased

LEMMA ContributionStart == TokenInit /\ ContributionInit => ContributionInv
<1> SUFFICES ASSUME TokenInit, ContributionInit PROVE ContributionInv
  OBVIOUS
<1>1. ContributionTypeOK
  BY StagesAre DEF ContributionInit, ContributionTypeOK
<1>2. /\ [r \in Revenues |-> Owed(r)] = [r \in Revenues |-> 0]
      /\ [r \in Revenues |-> Burned(r)] = [r \in Revenues |-> 0]
  BY DEF ContributionInit, Owed, Burned
<1>3. /\ SumFunction([r \in Revenues |-> Owed(r)]) = 0
      /\ SumFunction([r \in Revenues |-> Burned(r)]) = 0
  BY <1>2, TotalZero, ContributionAssumption
<1>4. ReservesBacked /\ SupplyBurned
  BY <1>3, TokenAssumption DEF TokenInit, ContributionInit, ReservesBacked, SupplyBurned
<1> QED BY <1>1, <1>4 DEF ContributionInit, ContributionInv, EventsExecuted, Purchased

\* What the ledger claims burned is part of what the events burned.
LEMMA BurnsFollow == ContributionInv => BurnsAreReal
<1> SUFFICES ASSUME ContributionInv PROVE BurnsAreReal
  OBVIOUS
<1>1. ASSUME NEW r \in Revenues, stage[r] \in {"purchase", "burn"}
      PROVE  /\ contributions[r] # NoReceipt /\ contributions[r].executed
             /\ contributions[r].budget = accounted[r] /\ proven[r].spent = accounted[r]
  <2>1. /\ event[r] # NoReceipt /\ event[r].spent = accounted[r]
        /\ proven[r] = [spent |-> event[r].spent, burned |-> event[r].burned]
    BY <1>1 DEF ContributionInv, Purchased
  <2>2. proven[r].spent = event[r].spent
    BY <2>1
  <2>3. /\ contributions[r] # NoReceipt /\ contributions[r].executed
        /\ event[r].spent = contributions[r].budget
    BY <2>1 DEF ContributionInv, EventsExecuted
  <2> QED BY <2>1, <2>2, <2>3
<1> DEFINE F == [r \in Revenues |-> Claimed(r)]
           G == [r \in Revenues |-> Burned(r)]
<1>2. \A r \in Revenues : Claimed(r) \in Nat /\ Burned(r) \in Nat /\ Claimed(r) <= Burned(r)
  <2> SUFFICES ASSUME NEW r \in Revenues
               PROVE  Claimed(r) \in Nat /\ Burned(r) \in Nat /\ Claimed(r) <= Burned(r)
    OBVIOUS
  <2>1. Burned(r) \in Nat
    BY SummandsTyped DEF ContributionInv, Burned
  <2>2. ASSUME stage[r] = "burn" PROVE Claimed(r) = Burned(r)
    <3>1. /\ event[r] # NoReceipt
          /\ proven[r] = [spent |-> event[r].spent, burned |-> event[r].burned]
      BY <2>2 DEF ContributionInv, Purchased
    <3>2. proven[r].burned = event[r].burned
      BY <3>1
    <3> QED BY <2>2, <3>1, <3>2 DEF Claimed, Burned
  <2> QED BY <2>1, <2>2 DEF Claimed
<1>3. F \in [Revenues -> Nat] /\ G \in [Revenues -> Nat] /\ \A r \in Revenues : F[r] <= G[r]
  BY <1>2
<1> HIDE DEF F, G
<1>4. SumFunction(F) <= SumFunction(G)
  BY <1>3, TotalOrdered, ContributionAssumption
<1>5. SumFunction(F) <= Allocation + Liquidity - supply
  BY <1>4 DEF ContributionInv, SupplyBurned, G
<1> QED BY <1>1, <1>5 DEF BurnsAreReal, F

--------------------------------------------------------------------------------
(* The cohort *)

LEMMA PromisedTyped ==
  /\ Share \in Nat /\ Allocation % Limit \in Nat
  /\ \A n : Promised(n) \in Nat
  BY TokenAssumption, GenesisAssumption DEF Share, Promised

LEMMA UnsetIsNoReceipt == \A x \in Receipt : x # Unset
  BY GenesisAssumption DEF Receipt, Payload

\* The admitted have receipts.
LEMMA AdmittedTyped ==
  ASSUME GenesisTypeOK
  PROVE  /\ \A w \in Admitted : w \in Wallets /\ cohort[w] \in Receipt /\ cohort[w].ordinal \in 1..Limit
         /\ \A w \in Wallets : w \in Admitted <=> cohort[w] # Unset
  BY DEF GenesisTypeOK, Admitted, Receipt

\* Nothing of the genesis moves but, perhaps, the balances of others.
LEMMA GenesisUnmoved ==
  ASSUME GenesisInv, UNCHANGED genesisVars, TokenTypeOK',
         \A a \in Wallets \cup {Distributor} : balance'[a] = balance[a]
  PROVE  GenesisInv'
<1>1. UNCHANGED <<clock, admission, cohort, cohortRoot, claimed>>
  BY DEF genesisVars
<1>2. Admitted' = Admitted /\ Leaves' = Leaves
  BY <1>1 DEF Admitted, Leaves, Leaf
<1>3. GenesisTypeOK' /\ AdmissionsBuilt'
  BY <1>1 DEF GenesisInv, GenesisTypeOK, AdmissionsBuilt
<1>4. CohortInv'
  BY <1>1, <1>2 DEF GenesisInv, CohortInv, OrdinalsDiffer, CohortSound
<1>5. RootInv'
  BY <1>1, <1>2 DEF GenesisInv, RootInv
<1>6. EntitlementsCovered'
  BY <1>1 DEF GenesisInv, EntitlementsCovered, Outstanding, Open
<1> QED BY <1>3, <1>4, <1>5, <1>6 DEF GenesisInv

\* A handler goes on or the clock ticks: cohort, root and balances stay.
LEMMA HandlerMoves ==
  ASSUME GenesisInv, UNCHANGED <<cohort, cohortRoot, claimed, balance, supply>>,
         GenesisTypeOK', AdmissionsBuilt'
  PROVE  GenesisInv'
<1>1. Admitted' = Admitted /\ Leaves' = Leaves
  BY DEF Admitted, Leaves, Leaf
<1>2. CohortInv'
  BY <1>1 DEF GenesisInv, CohortInv, OrdinalsDiffer, CohortSound
<1>3. RootInv' /\ TokenTypeOK'
  BY <1>1 DEF GenesisInv, RootInv, TokenTypeOK
<1>4. EntitlementsCovered'
  BY DEF GenesisInv, EntitlementsCovered, Outstanding, Open
<1> QED BY <1>2, <1>3, <1>4 DEF GenesisInv

LEMMA HandlerStep ==
  ASSUME GenesisInv, NEW c \in Admissions,
         (\E w \in Wallets : Build(c, w)) \/ Recheck(c) \/ Abandon(c)
  PROVE  GenesisInv'
<1>1. UNCHANGED <<clock, cohort, cohortRoot, claimed, balance, supply>>
  BY DEF Build, Recheck, Abandon, ServiceOnly
<1>2. clock \in 0..MaxTime
        /\ admission \in [Admissions -> [at : {"idle", "verify", "append"}, payload : Payload \cup {Unset}]]
  BY DEF GenesisInv, GenesisTypeOK
<1>3. PICK k \in [at : {"idle", "verify", "append"}, payload : Payload \cup {Unset}] :
        /\ admission' = [admission EXCEPT ![c] = k]
        /\ k.at # "idle" => k.payload \in Payload
  <2>1. ASSUME NEW w \in Wallets, Build(c, w)
        PROVE  \E k \in [at : {"idle", "verify", "append"}, payload : Payload \cup {Unset}] :
                 /\ admission' = [admission EXCEPT ![c] = k]
                 /\ k.at # "idle" => k.payload \in Payload
    <3> DEFINE p == [wallet |-> w, window |-> clock]
    <3>1. p \in Payload
      BY <1>2 DEF Payload
    <3>2. admission' = [admission EXCEPT ![c] = [at |-> "verify", payload |-> p]]
      BY <2>1 DEF Build
    <3> HIDE DEF p
    <3> DEFINE k == [at |-> "verify", payload |-> p]
    <3>3. k \in [at : {"idle", "verify", "append"}, payload : Payload \cup {Unset}]
          /\ k.payload = p
      BY <3>1
    <3> HIDE DEF k
    <3> QED BY <3>1, <3>2, <3>3 DEF k
  <2>2. NoCall \in [at : {"idle", "verify", "append"}, payload : Payload \cup {Unset}]
        /\ NoCall.at = "idle"
    BY DEF NoCall
  <2>3. CASE Drop(c)
    BY <2>2, <2>3 DEF Drop
  <2>4. CASE Recheck(c) /\ ~Drop(c)
    <3> DEFINE k == [admission[c] EXCEPT !.at = "append"]
    <3>1. admission[c].at = "verify" /\ admission' = [admission EXCEPT ![c].at = "append"]
      BY <2>4 DEF Recheck
    <3>2. admission[c].payload \in Payload
      BY <3>1 DEF GenesisInv, AdmissionsBuilt
    <3>3. k \in [at : {"idle", "verify", "append"}, payload : Payload \cup {Unset}]
          /\ k.payload = admission[c].payload
      BY <1>2
    <3>4. admission' = [admission EXCEPT ![c] = k]
      BY <1>2, <3>1
    <3> QED BY <3>2, <3>3, <3>4
  <2> QED BY <2>1, <2>3, <2>4 DEF Abandon
<1>4. GenesisTypeOK'
  BY <1>1, <1>2, <1>3 DEF GenesisInv, GenesisTypeOK
<1>5. AdmissionsBuilt'
  BY <1>2, <1>3 DEF GenesisInv, AdmissionsBuilt
<1> QED BY <1>1, <1>4, <1>5, HandlerMoves

LEMMA TickStep ==
  ASSUME GenesisInv, Tick PROVE GenesisInv'
<1>1. GenesisTypeOK' /\ AdmissionsBuilt'
  BY GenesisAssumption DEF GenesisInv, GenesisTypeOK, AdmissionsBuilt, Tick
<1> QED BY <1>1, HandlerMoves DEF Tick

\* An admission takes the next ordinal, of a wallet that had none, in its window.
LEMMA AdmitStep ==
  ASSUME GenesisInv, NEW c \in Admissions, Admit(c) PROVE GenesisInv'
<1> DEFINE p == admission[c].payload
           w == p.wallet
           n == Cardinality(Admitted)
<1>1. /\ UNCHANGED <<cohortRoot, claimed, balance, supply>>
      /\ admission' = [admission EXCEPT ![c] = NoCall]
      /\ clock' \in {clock, clock + 1} /\ clock' \in 0..MaxTime
  BY GenesisAssumption DEF Admit, Drop, GenesisInv, GenesisTypeOK
<1>2. /\ admission \in [Admissions -> [at : {"idle", "verify", "append"}, payload : Payload \cup {Unset}]]
      /\ NoCall \in [at : {"idle", "verify", "append"}, payload : Payload \cup {Unset}]
      /\ NoCall.at = "idle"
  BY DEF GenesisInv, GenesisTypeOK, NoCall
<1>3. AdmissionsBuilt'
  BY <1>1, <1>2 DEF GenesisInv, AdmissionsBuilt
<1>4. CASE ~Admissible(c)
  <2>1. UNCHANGED cohort
    BY <1>4 DEF Admit
  <2>2. GenesisTypeOK'
    BY <1>1, <1>2, <2>1 DEF GenesisInv, GenesisTypeOK
  <2> QED BY <1>1, <1>3, <2>1, <2>2, HandlerMoves
<1>5. CASE Admissible(c)
  <2>1. p \in Payload /\ w \in Wallets
    BY DEF Admit, GenesisInv, AdmissionsBuilt, Payload
  <2>2. /\ cohort[w] = Unset /\ n + 1 <= Limit
        /\ clock < ClosesAt /\ p.window = clock
    BY <1>5 DEF Admissible, AdmissibleLate, NextOrdinal, StillCurrent, Current
  <2>3. n \in Nat /\ clock \in 0..MaxTime /\ Limit \in Nat
    BY FS_CardinalityType, GenesisAssumption DEF GenesisInv, GenesisTypeOK, CohortInv
  <2> DEFINE new == [payload |-> p, ordinal |-> n + 1, acceptedAt |-> clock']
  <2>4. new \in Receipt /\ new # Unset
    <3>1. new \in Receipt
      BY <1>1, <2>1, <2>2, <2>3 DEF Receipt
    <3> QED BY <3>1, UnsetIsNoReceipt
  <2>5. new.payload = p /\ new.ordinal = n + 1 /\ new.acceptedAt = clock'
    OBVIOUS
  <2>6. cohort' = [cohort EXCEPT ![w] = new]
    BY <1>5 DEF Admit, NextOrdinal
  <2> HIDE DEF new, p, n, w
  <2>7. \A v \in Wallets : cohort'[v] = IF v = w THEN new ELSE cohort[v]
    BY <2>6 DEF GenesisInv, GenesisTypeOK
  <2>8. Admitted' = Admitted \cup {w} /\ w \notin Admitted
    BY <2>1, <2>2, <2>4, <2>7 DEF Admitted
  <2>9. GenesisTypeOK'
    BY <1>1, <1>2, <2>4, <2>6 DEF GenesisInv, GenesisTypeOK
  <2>10. IsFiniteSet(Admitted) /\ {cohort[v].ordinal : v \in Admitted} = 1..n
    BY DEF GenesisInv, CohortInv, CohortSound, n
  <2>11. IsFiniteSet(Admitted') /\ Cardinality(Admitted') = n + 1
    BY <2>8, <2>10, FS_AddElement DEF n
  <2>12. \A v \in Admitted : cohort'[v] = cohort[v] /\ cohort[v].ordinal \in 1..n /\ v \in Wallets
    BY <2>7, <2>8, <2>10 DEF Admitted
  <2>13. OrdinalsDiffer'
    <3> SUFFICES ASSUME NEW u \in Admitted', NEW v \in Admitted', cohort'[u].ordinal = cohort'[v].ordinal
                 PROVE  u = v
      BY DEF OrdinalsDiffer
    <3>1. cohort'[w].ordinal = n + 1
      BY <2>1, <2>5, <2>7
    <3>2. \A t \in Admitted : cohort'[t].ordinal # n + 1
      BY <2>3, <2>12
    <3>3. u \in Admitted /\ v \in Admitted => u = v
      BY <2>12 DEF GenesisInv, CohortInv, OrdinalsDiffer
    <3> QED BY <2>8, <3>1, <3>2, <3>3
  <2>14. {cohort'[v].ordinal : v \in Admitted'} = 1..(n + 1)
    <3>1. {cohort'[v].ordinal : v \in Admitted'} = {cohort[v].ordinal : v \in Admitted} \cup {n + 1}
      BY <2>1, <2>5, <2>7, <2>8, <2>12
    <3>2. (1..n) \cup {n + 1} = 1..(n + 1)
      BY <2>3
    <3> QED BY <2>10, <3>1, <3>2
  <2>15. \A v \in Admitted' :
           /\ cohort'[v].payload.wallet = v
           /\ cohort'[v].payload.window < ClosesAt
           /\ cohort'[v].acceptedAt \in {cohort'[v].payload.window, cohort'[v].payload.window + 1}
    <3>1. \A v \in Admitted :
            /\ cohort[v].payload.wallet = v
            /\ cohort[v].payload.window < ClosesAt
            /\ cohort[v].acceptedAt \in {cohort[v].payload.window, cohort[v].payload.window + 1}
      BY DEF GenesisInv, CohortInv, CohortSound
    <3>2. cohort'[w] = new /\ p.wallet = w
      BY <2>1, <2>7 DEF w
    <3> QED BY <1>1, <2>2, <2>5, <2>8, <2>12, <3>1, <3>2
  <2>16. CohortInv'
    BY <2>11, <2>13, <2>14, <2>15 DEF CohortInv, CohortSound
  <2>17. cohortRoot = Unset
    BY <2>2, <2>3 DEF GenesisInv, RootInv, n
  <2>18. RootInv' /\ EntitlementsCovered' /\ TokenTypeOK'
    BY <1>1, <2>17 DEF GenesisInv, RootInv, EntitlementsCovered, Outstanding, Open, TokenTypeOK
  <2> QED BY <1>3, <2>9, <2>16, <2>18 DEF GenesisInv
<1> QED BY <1>4, <1>5

--------------------------------------------------------------------------------
(* The seal and the claims *)

\* The leaf of a wallet names it; there are as many as admitted wallets.
LEMMA LeavesAre ==
  ASSUME GenesisTypeOK, CohortInv
  PROVE  /\ IsFiniteSet(Leaves) /\ Cardinality(Leaves) = Cardinality(Admitted)
         /\ \A leaf \in Leaves :
              /\ leaf[2] \in Admitted /\ leaf = Leaf(leaf[2])
              /\ leaf[1] = cohort[leaf[2]].ordinal /\ leaf[3] = Promised(leaf[1]) /\ leaf[3] \in Nat
         /\ \A w \in Admitted : Leaf(w) \in Leaves
<1>1. \A w \in Admitted :
        /\ Leaf(w) \in Leaves /\ Leaf(w)[2] = w /\ Leaf(w)[1] = cohort[w].ordinal
        /\ Leaf(w)[3] = Promised(cohort[w].ordinal)
  BY DEF Leaves, Leaf
<1>2. \A leaf \in Leaves : \E w \in Admitted : leaf = Leaf(w)
  BY DEF Leaves
<1> DEFINE f == [w \in Admitted |-> Leaf(w)]
<1>3. f \in [Admitted -> Leaves] /\ \A w \in Admitted : f[w] = Leaf(w)
  BY <1>1
<1> HIDE DEF f
<1>4. \A v, w \in Admitted : f[v] = f[w] => v = w
  BY <1>1, <1>3
<1>5. \A leaf \in Leaves : \E w \in Admitted : f[w] = leaf
  BY <1>2, <1>3
<1>6. f \in Bijection(Admitted, Leaves)
  BY <1>3, <1>4, <1>5 DEF Bijection, Injection, Surjection, IsInjective
<1>7. ExistsBijection(Admitted, Leaves)
  BY <1>6 DEF ExistsBijection
<1>8. IsFiniteSet(Leaves) /\ Cardinality(Leaves) = Cardinality(Admitted)
  BY <1>7, FS_Bijection DEF CohortInv
<1> QED BY <1>1, <1>2, <1>8, PromisedTyped

\* The entitlements of a complete cohort add up to the allocation.
LEMMA EntitlementsAddUp ==
  ASSUME GenesisTypeOK, CohortInv, Cardinality(Admitted) = Limit
  PROVE  SumFunction([leaf \in Leaves |-> leaf[3]]) = Allocation
<1> DEFINE F == [leaf \in Leaves |-> leaf[3]]
<1>1. Limit \in Nat /\ Limit >= 1 /\ Allocation \in Nat
  BY GenesisAssumption, TokenAssumption
<1>2. PICK last \in Admitted : cohort[last].ordinal = Limit
  BY <1>1 DEF CohortInv, CohortSound
<1> DEFINE top == Leaf(last)
           rest == Leaves \ {top}
<1>3. top \in Leaves /\ F \in [Leaves -> Nat] /\ \A leaf \in Leaves : F[leaf] = leaf[3]
  BY LeavesAre
<1>4. F[top] = Share + (Allocation % Limit)
  <2>1. top[2] = last
    BY DEF Leaf
  <2> QED BY <1>2, <1>3, <2>1, LeavesAre DEF Promised
<1>5. \A leaf \in rest : F[leaf] = Share
  <2> SUFFICES ASSUME NEW leaf \in rest PROVE F[leaf] = Share
    OBVIOUS
  <2>1. leaf[2] \in Admitted /\ leaf[1] = cohort[leaf[2]].ordinal /\ leaf[3] = Promised(leaf[1])
        /\ leaf = Leaf(leaf[2])
    BY LeavesAre
  <2>2. leaf[2] # last
    BY <2>1
  <2>3. leaf[1] # Limit
    BY <1>2, <2>1, <2>2 DEF CohortInv, OrdinalsDiffer
  <2>4. Promised(leaf[1]) = Share
    BY <2>3, PromisedTyped DEF Promised
  <2> QED BY <1>3, <2>1, <2>4
<1>6. IsFiniteSet(Leaves) /\ IsFiniteSet(rest) /\ Cardinality(rest) = Limit - 1
  <2>1. IsFiniteSet(Leaves) /\ Cardinality(Leaves) = Limit
    BY LeavesAre
  <2> QED BY <1>3, <2>1, FS_RemoveElement
<1> HIDE DEF F, top, rest
<1>7. SumFunctionOnSet(F, Leaves) = F[top] + SumFunctionOnSet(F, rest)
  BY <1>3, <1>6, SumSplits DEF rest
<1>8. SumFunctionOnSet(F, rest) = Share * (Limit - 1)
  BY <1>5, <1>6, SumIsProduct, PromisedTyped
<1>9. SumFunction(F) = SumFunctionOnSet(F, Leaves)
  BY DEF SumFunction, F
<1>10. Share + Share * (Limit - 1) = Share * Limit
  BY <1>1, PromisedTyped
<1>11. Share * Limit + (Allocation % Limit) = Allocation
  BY <1>1 DEF Share
<1>12. Share * (Limit - 1) \in Int /\ Share * Limit \in Int
  BY <1>1, PromisedTyped
<1>13. SumFunction(F) = Allocation
  BY <1>1, <1>4, <1>7, <1>8, <1>9, <1>10, <1>11, <1>12, PromisedTyped
<1> QED BY <1>13 DEF F

LEMMA SealStep ==
  ASSUME GenesisInv, Seal PROVE GenesisInv'
<1>1. /\ cohortRoot = Unset /\ Cardinality(Admitted) = Limit /\ balance[Distributor] >= Allocation
      /\ cohortRoot' = Leaves
      /\ UNCHANGED <<clock, admission, cohort, claimed, balance, supply>>
  BY DEF Seal
<1>2. Admitted' = Admitted /\ Leaves' = Leaves
  BY <1>1 DEF Admitted, Leaves, Leaf
<1>3. claimed = {} /\ \A w \in Wallets : balance[w] = 0
  BY <1>1 DEF GenesisInv, RootInv
<1>4. GenesisTypeOK' /\ TokenTypeOK' /\ AdmissionsBuilt'
  BY <1>1 DEF GenesisInv, GenesisTypeOK, TokenTypeOK, AdmissionsBuilt
<1>5. CohortInv'
  BY <1>1, <1>2 DEF GenesisInv, CohortInv, OrdinalsDiffer, CohortSound
<1>6. RootInv'
  BY <1>1, <1>2, <1>3 DEF RootInv
<1>7. Outstanding' = Allocation
  <2>1. Open' = Leaves
    BY <1>1, <1>3 DEF Open
  <2>2. SumFunction([leaf \in Leaves |-> leaf[3]]) = Allocation
    BY <1>1, EntitlementsAddUp DEF GenesisInv
  <2> QED BY <2>1, <2>2 DEF Outstanding
<1>8. EntitlementsCovered'
  <2>1. /\ balance'[Distributor] >= Outstanding'
        /\ \A w \in Wallets : balance'[w] =
             IF \E x \in claimed' : x[2] = w THEN Promised(cohort'[w].ordinal) ELSE 0
    BY <1>1, <1>3, <1>7
  <2> QED BY <2>1 DEF EntitlementsCovered
<1> QED BY <1>4, <1>5, <1>6, <1>8 DEF GenesisInv

LEMMA ClaimStep ==
  ASSUME GenesisInv, NEW w \in Wallets, NEW ordinal \in 1..Limit, NEW callHash,
         Claim(w, ordinal, callHash)
  PROVE  GenesisInv'
<1> DEFINE due == Entitlement(ordinal)
           leaf == <<ordinal, w, due, callHash>>
<1>1. /\ cohortRoot # Unset /\ \A x \in claimed : x[1] # ordinal /\ x[2] # w
      /\ leaf \in cohortRoot /\ claimed' = claimed \cup {<<ordinal, w>>}
      /\ balance[Distributor] >= due
      /\ balance' = [balance EXCEPT ![Distributor] = @ - due, ![w] = @ + due]
      /\ UNCHANGED <<clock, admission, cohort, cohortRoot, supply>>
  BY DEF Claim, Claimable, Unclaimed, Transfer
<1>2. cohortRoot = Leaves /\ GenesisTypeOK /\ CohortInv
  BY <1>1 DEF GenesisInv, RootInv
<1>3. /\ leaf[1] = ordinal /\ leaf[2] = w /\ leaf[3] = due
      /\ w \in Admitted /\ ordinal = cohort[w].ordinal
      /\ due = Promised(ordinal) /\ due \in Nat
      /\ leaf = Leaf(w)
  BY <1>1, <1>2, LeavesAre
<1>4. Admitted' = Admitted /\ Leaves' = Leaves
  BY <1>1 DEF Admitted, Leaves, Leaf
<1> HIDE DEF leaf
<1>5. leaf \in Open /\ Open' = Open \ {leaf}
  <2>1. <<ordinal, w>> \notin claimed
    BY <1>1
  <2>2. leaf \in Open
    BY <1>1, <1>3, <2>1 DEF Open
  <2>3. \A other \in cohortRoot : <<other[1], other[2]>> = <<ordinal, w>> => other = leaf
    BY <1>2, <1>3, LeavesAre
  <2>4. Open' = {other \in Open : <<other[1], other[2]>> # <<ordinal, w>>}
    BY <1>1 DEF Open
  <2>5. \A other \in Open : <<other[1], other[2]>> # <<ordinal, w>> <=> other # leaf
    BY <1>3, <2>3 DEF Open
  <2> QED BY <2>2, <2>4, <2>5
<1>6. Outstanding = due + Outstanding' /\ Outstanding' \in Nat
  <2> DEFINE F == [l \in Open |-> l[3]]
             G == [l \in Open \ {leaf} |-> l[3]]
  <2>1. IsFiniteSet(Open) /\ \A l \in Open : l[3] \in Nat
    <3>1. Open \in SUBSET Leaves
      BY <1>2 DEF Open
    <3> QED BY <1>2, <3>1, LeavesAre, FS_Subset
  <2>2. SumFunctionOnSet(F, Open) = F[leaf] + SumFunctionOnSet(F, Open \ {leaf})
    BY <1>5, <2>1, SumSplits
  <2>3. IsFiniteSet(Open \ {leaf})
    BY <2>1, FS_Subset
  <2>4. SumFunctionOnSet(F, Open \ {leaf}) = SumFunctionOnSet(G, Open \ {leaf})
    BY <2>3, SumAgrees
  <2>5. SumFunctionOnSet(G, Open \ {leaf}) \in Nat
    BY <2>1, <2>3, SumTyped
  <2>6. Outstanding = SumFunctionOnSet(F, Open) /\ F[leaf] = due
    BY <1>3, <1>5 DEF Outstanding, SumFunction
  <2>7. Outstanding' = SumFunctionOnSet(G, Open \ {leaf})
    BY <1>5 DEF Outstanding, SumFunction
  <2> QED BY <2>2, <2>4, <2>5, <2>6, <2>7
<1> HIDE DEF due
<1>7. /\ balance \in [Accounts -> Nat] /\ Distributor # w /\ Distributor \in Accounts /\ w \in Accounts
  BY TokenAssumption DEF GenesisInv, TokenTypeOK, Accounts
<1>8. /\ balance' \in [Accounts -> Nat]
      /\ balance'[Distributor] = balance[Distributor] - due /\ balance'[w] = balance[w] + due
      /\ \A v \in Wallets \ {w} : balance'[v] = balance[v]
  <2>1. balance[Distributor] - due \in Nat /\ balance[w] + due \in Nat
    BY <1>1, <1>3, <1>7
  <2> DEFINE less == [balance EXCEPT ![Distributor] = @ - due]
  <2>2. less \in [Accounts -> Nat] /\ \A a \in Accounts :
          less[a] = IF a = Distributor THEN balance[Distributor] - due ELSE balance[a]
    BY <1>7, <2>1
  <2>3. balance' = [less EXCEPT ![w] = @ + due] /\ less[w] + due \in Nat
    BY <1>1, <1>7, <2>1, <2>2
  <2> HIDE DEF less
  <2>4. balance' \in [Accounts -> Nat] /\ \A a \in Accounts :
          balance'[a] = IF a = w THEN less[w] + due ELSE less[a]
    BY <1>7, <2>2, <2>3
  <2>5. \A v \in Wallets : v \in Accounts /\ v # Distributor
    BY TokenAssumption DEF Accounts
  <2> QED BY <1>7, <2>2, <2>4, <2>5
<1>9. balance[Distributor] >= Outstanding
      /\ \A v \in Wallets : balance[v] = IF \E x \in claimed : x[2] = v THEN Promised(cohort[v].ordinal) ELSE 0
  BY <1>1 DEF GenesisInv, EntitlementsCovered
<1>10. balance'[Distributor] >= Outstanding'
  <2>1. balance[Distributor] \in Nat
    BY <1>7
  <2> QED BY <1>3, <1>6, <1>8, <1>9, <2>1
<1>11. \A v \in Wallets : balance'[v] =
         IF \E x \in claimed' : x[2] = v THEN Promised(cohort[v].ordinal) ELSE 0
  <2> SUFFICES ASSUME NEW v \in Wallets
               PROVE  balance'[v] = IF \E x \in claimed' : x[2] = v THEN Promised(cohort[v].ordinal) ELSE 0
    OBVIOUS
  <2>1. CASE v = w
    <3>1. balance[w] = 0
      BY <1>1, <1>9
    <3>2. due = Promised(cohort[w].ordinal)
      BY <1>3
    <3>3. balance'[w] = due
      BY <1>3, <1>8, <3>1
    <3>4. \E x \in claimed' : x[2] = w
      <4>1. <<ordinal, w>> \in claimed' /\ <<ordinal, w>>[2] = w
        BY <1>1
      <4> QED BY <4>1
    <3> QED BY <2>1, <3>2, <3>3, <3>4
  <2>2. CASE v # w
    <3>1. (\E x \in claimed' : x[2] = v) <=> (\E x \in claimed : x[2] = v)
      BY <1>1, <2>2
    <3> QED BY <1>8, <1>9, <2>2, <3>1
  <2> QED BY <2>1, <2>2
<1>12. EntitlementsCovered'
  BY <1>1, <1>10, <1>11 DEF EntitlementsCovered
<1>13. GenesisTypeOK' /\ TokenTypeOK' /\ AdmissionsBuilt'
  BY <1>1, <1>8 DEF GenesisInv, GenesisTypeOK, TokenTypeOK, AdmissionsBuilt
<1>14. CohortInv'
  BY <1>1, <1>4 DEF GenesisInv, CohortInv, OrdinalsDiffer, CohortSound
<1>15. RootInv'
  BY <1>1, <1>3, <1>4 DEF GenesisInv, RootInv
<1> QED BY <1>12, <1>13, <1>14, <1>15 DEF GenesisInv

\* What is covered can be claimed: contract and service compute one share, and
\* no other leaf has this one's ordinal or wallet.
LEMMA CoveredIsFunded == GenesisInv => EntitlementsFunded
<1> SUFFICES ASSUME GenesisInv, cohortRoot # Unset PROVE EntitlementsFunded
  BY DEF EntitlementsFunded
<1>1. cohortRoot = Leaves /\ GenesisTypeOK /\ CohortInv
  BY DEF GenesisInv, RootInv
<1>2. ASSUME NEW leaf \in Open PROVE Claimable(leaf[2], leaf[1], leaf[4])
  <2>1. /\ leaf \in Leaves /\ <<leaf[1], leaf[2]>> \notin claimed
        /\ leaf[2] \in Admitted /\ leaf[1] = cohort[leaf[2]].ordinal
        /\ leaf[3] = Promised(leaf[1]) /\ leaf = Leaf(leaf[2])
    BY <1>1, LeavesAre DEF Open
  <2>2. leaf = <<leaf[1], leaf[2], leaf[3], leaf[4]>>
    BY <2>1 DEF Leaf
  <2>3. Entitlement(leaf[1]) = leaf[3]
    BY <2>1 DEF Entitlement, Promised
  <2>4. ASSUME NEW x \in claimed, x[1] = leaf[1] \/ x[2] = leaf[2] PROVE FALSE
    <3>1. x[2] \in Admitted /\ x[1] = cohort[x[2]].ordinal /\ x = <<x[1], x[2]>>
      BY <1>1 DEF GenesisInv, RootInv, GenesisTypeOK
    <3>2. x[1] = leaf[1] /\ x[2] = leaf[2]
      BY <1>1, <2>1, <2>4, <3>1 DEF CohortInv, OrdinalsDiffer
    <3> QED BY <2>1, <3>1, <3>2
  <2>5. Unclaimed(leaf[2], leaf[1])
    BY <2>4 DEF Unclaimed
  <2> QED BY <1>1, <2>1, <2>2, <2>3, <2>5 DEF Claimable
<1> QED BY <1>2 DEF GenesisInv, EntitlementsCovered, EntitlementsFunded, Outstanding, Open

LEMMA GenesisStep ==
  ASSUME GenesisInv, GenesisNext PROVE GenesisInv'
  BY HandlerStep, TickStep, AdmitStep, SealStep, ClaimStep DEF GenesisNext

\* The vault touches neither the distributor nor a wallet.
LEMMA ContributionSpares ==
  ASSUME TokenTypeOK, ContributionInv, ContributionNext
  PROVE  /\ TokenTypeOK'
         /\ \A a \in Wallets \cup {Distributor} : balance'[a] = balance[a]
<1>1. /\ Pool \in Accounts /\ Wallets \cup {Distributor} \subseteq Accounts
      /\ Pool \notin Wallets \cup {Distributor}
  BY TokenAssumption DEF Accounts
<1>2. CASE UNCHANGED tokenVars
  BY <1>2 DEF TokenTypeOK, tokenVars
<1>3. ASSUME NEW r \in Revenues, NEW bought \in Bought, BuyAndBurn(r, bought)
      PROVE  /\ TokenTypeOK'
             /\ \A a \in Wallets \cup {Distributor} : balance'[a] = balance[a]
  <2>1. /\ balance[Pool] >= bought /\ balance' = [balance EXCEPT ![Pool] = @ - bought]
        /\ supply' = supply - bought /\ bought \in Nat
    BY <1>3, ContributionAssumption DEF BuyAndBurn, BuyAndBurnIPX
  <2>2. balance \in [Accounts -> Nat] /\ supply \in Int
    BY DEF TokenTypeOK
  <2>3. balance[Pool] - bought \in Nat
    BY <1>1, <2>1, <2>2
  <2> QED BY <1>1, <2>1, <2>2, <2>3 DEF TokenTypeOK
<1>4. ASSUME NEW r \in Revenues, Reorganize(r)
      PROVE  /\ TokenTypeOK'
             /\ \A a \in Wallets \cup {Distributor} : balance'[a] = balance[a]
  <2> DEFINE burned == event[r].burned
  <2>1. /\ balance' = [balance EXCEPT ![Pool] = @ + burned] /\ supply' = supply + burned
        /\ event[r] # NoReceipt
    BY <1>4 DEF Reorganize, Pending
  <2>2. burned \in Nat
    BY <2>1, SummandsTyped DEF ContributionInv
  <2> HIDE DEF burned
  <2>3. balance \in [Accounts -> Nat] /\ supply \in Int
    BY DEF TokenTypeOK
  <2>4. balance[Pool] + burned \in Nat
    BY <1>1, <2>2, <2>3
  <2> QED BY <1>1, <2>1, <2>2, <2>3, <2>4 DEF TokenTypeOK
<1>5. UNCHANGED tokenVars \/ \E r \in Revenues : Reorganize(r) \/ \E bought \in Bought : BuyAndBurn(r, bought)
  BY DEF ContributionNext, Fund, Finalize, Revenue, Burn, RecordContribution, Account, OffChain
<1> QED BY <1>2, <1>3, <1>4, <1>5

--------------------------------------------------------------------------------
(* The launch *)

LEMMA GenesisStart == TokenInit /\ GenesisInit => GenesisInv
<1> SUFFICES ASSUME TokenInit, GenesisInit PROVE GenesisInv
  OBVIOUS
<1>1. Admitted = {}
  BY DEF Admitted, GenesisInit
<1>2. TokenTypeOK /\ \A w \in Wallets : balance[w] = 0
  <2>1. \A w \in Wallets : w \in Accounts /\ w # Distributor /\ w # Pool
    BY TokenAssumption DEF Accounts
  <2> QED BY <2>1, TokenAssumption DEF TokenInit, TokenTypeOK
<1>3. CohortInv
  <2>1. IsFiniteSet(Admitted) /\ Cardinality(Admitted) = 0
    BY <1>1, FS_EmptySet
  <2>2. {cohort[w].ordinal : w \in Admitted} = 1..Cardinality(Admitted)
    BY <1>1, <2>1
  <2> QED BY <1>1, <2>1, <2>2 DEF CohortInv, CohortSound, OrdinalsDiffer
<1>4. GenesisTypeOK /\ AdmissionsBuilt
  BY GenesisAssumption DEF GenesisTypeOK, AdmissionsBuilt, GenesisInit, NoCall
<1> QED BY <1>2, <1>3, <1>4 DEF GenesisInv, RootInv, EntitlementsCovered, GenesisInit

\* LaunchInv is inductive: each half moves under its own steps and only watches
\* the token under the other's.
LEMMA LaunchInvariant == Spec => []LaunchInv
<1>1. Init => LaunchInv
  BY GenesisStart, ContributionStart DEF Init, LaunchInv
<1>2. LaunchInv /\ [Next]_launchVars => LaunchInv'
  <2> SUFFICES ASSUME LaunchInv, [Next]_launchVars PROVE LaunchInv'
    OBVIOUS
  <2>1. GenesisInv /\ ContributionInv /\ TokenTypeOK
    BY DEF LaunchInv, GenesisInv
  <2>2. CASE GenesisNext /\ UNCHANGED contributionVars
    <3>1. UNCHANGED supply
      BY <2>2 DEF GenesisNext, Recheck, Admit, Abandon, Build, Tick, Seal, Claim, Transfer, ServiceOnly
    <3> QED BY <2>1, <2>2, <3>1, GenesisStep, ContributionUnmoved DEF LaunchInv
  <2>3. CASE ContributionNext /\ UNCHANGED genesisVars
    BY <2>1, <2>3, ContributionStep, ContributionSpares, GenesisUnmoved DEF LaunchInv
  <2>4. CASE UNCHANGED launchVars
    BY <2>1, <2>4, ContributionUnmoved, GenesisUnmoved
       DEF LaunchInv, launchVars, tokenVars, TokenTypeOK
  <2> QED BY <2>2, <2>3, <2>4 DEF Next
<1> QED BY <1>1, <1>2, PTL DEF Spec

\* Handlers, cohort, vault, ledger and token keep their types; no balance and no
\* reserve goes below zero.
THEOREM LaunchTypes == Spec => [](GenesisTypeOK /\ ContributionTypeOK /\ TokenTypeOK)
<1>1. LaunchInv => GenesisTypeOK /\ ContributionTypeOK /\ TokenTypeOK
  BY DEF LaunchInv, GenesisInv, ContributionInv
<1> QED BY <1>1, LaunchInvariant, PTL

\* However many call() handlers overlap and whatever holds them up, the cohort is
\* a gapless order of distinct wallets, each admitted for the open window it signed
\* for.
THEOREM CohortIsSound == Spec => []CohortSound
<1>1. LaunchInv => CohortSound
  BY DEF LaunchInv, GenesisInv, CohortInv
<1> QED BY <1>1, LaunchInvariant, PTL

\* Every entitlement of the sealed cohort that is not yet claimed is funded and
\* will be taken by the contract, and nobody has been paid another sum than his
\* receipt's.
THEOREM EntitlementsStayFunded == Spec => []EntitlementsFunded
<1>1. LaunchInv => EntitlementsFunded
  BY CoveredIsFunded DEF LaunchInv
<1> QED BY <1>1, LaunchInvariant, PTL

\* What the vault has reserved is there, and is what its contributions may spend.
THEOREM ReservesStayBacked == Spec => []ReservesBacked
<1>1. LaunchInv => ReservesBacked
  BY DEF LaunchInv, ContributionInv
<1> QED BY <1>1, LaunchInvariant, PTL

\* The ledger's purchases and burns happened, and sum to no more than was burned.
THEOREM BurnsStayReal == Spec => []BurnsAreReal
<1>1. LaunchInv => BurnsAreReal
  BY BurnsFollow DEF LaunchInv
<1> QED BY <1>1, LaunchInvariant, PTL
================================================================================
