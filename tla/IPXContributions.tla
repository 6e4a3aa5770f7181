-------------------------- MODULE IPXContributions --------------------------
(***************************************************************************)
(* The flywheel behind the launch: USDG revenue enters the contribution    *)
(* vault (contracts/src/IPXContributionVault.sol), a part is reserved to   *)
(* buy and burn IPX, the rest leaves at once; off chain the ledger         *)
(* (ipxRevenueLedger.ts) appends SERVICE, REVENUE, CONTRIBUTION, PURCHASE  *)
(* and BURN receipts and admits the last two only on a finalized event.    *)
(* A block that is not final can be dropped, with its purchase.            *)
(***************************************************************************)
EXTENDS IPXToken

CONSTANTS
  Revenues,   \* settled USDG revenues, by receipt hash
  Gross,      \* [Revenues -> amount settled]
  Named,      \* gross amounts an accountant may name to the vault
  Costs,      \* what an accountant may attribute to a revenue
  BurnBps,    \* burnBps, of Scale
  Scale,      \* 10000
  Bought,     \* what the venue may return for a purchase
  MaxUsdg,    \* bound of the USDG that waits in the vault
  NoReceipt   \* no contribution, no event, no cost

ASSUME ContributionAssumption ==
  /\ IsFiniteSet(Revenues) /\ Gross \in [Revenues -> Nat \ {0}]
  /\ Named \subseteq Nat \ {0} /\ Costs \subseteq Nat
  /\ Scale \in Nat \ {0} /\ BurnBps \in 1..Scale
  /\ Bought \subseteq Nat \ {0} /\ MaxUsdg \in Nat
  /\ NoReceipt \notin Nat \cup [budget : Nat, executed : BOOLEAN]
                   \cup [spent : Nat, burned : Nat, final : BOOLEAN]

VARIABLES
  usdg,          \* the vault's USDG balance
  reserved,      \* reserved: what purchases may still spend
  contributions, \* contributions: [budget, executed] by revenue hash
  event,         \* IPXPurchasedAndBurned by revenue: [spent, burned, final]
  stage,         \* ledger: the last receipt kind of the revenue's chain
  accounted,     \* ledger: budget of the CONTRIBUTION receipt
  proven         \* ledger: [spent, burned] of the PURCHASE and BURN receipts

vaultVars   == <<usdg, reserved, contributions, event>>
ledgerState == <<stage, accounted, proven>>
contributionVars == <<vaultVars, ledgerState>>

Stages == <<"none", "service", "revenue", "contribution", "purchase", "burn">>

ContributionTypeOK ==
  /\ usdg \in Nat /\ reserved \in Nat
  /\ contributions \in [Revenues -> [budget : Nat, executed : BOOLEAN] \cup {NoReceipt}]
  /\ event \in [Revenues -> [spent : Nat, burned : Nat, final : BOOLEAN] \cup {NoReceipt}]
  /\ stage \in [Revenues -> {Stages[n] : n \in 1..6}]
  /\ accounted \in [Revenues -> Nat \cup {NoReceipt}]
  /\ proven \in [Revenues -> [spent : Nat, burned : Nat] \cup {NoReceipt}]

ContributionInit ==
  /\ usdg = 0 /\ reserved = 0
  /\ contributions = [r \in Revenues |-> NoReceipt]
  /\ event = [r \in Revenues |-> NoReceipt]
  /\ stage = [r \in Revenues |-> "none"]
  /\ accounted = [r \in Revenues |-> NoReceipt]
  /\ proven = [r \in Revenues |-> NoReceipt]

\* contribution() of the ledger and recordContribution() of the vault: a loss
\* reserves nothing, and the share of the rest is rounded down.
Budget(gross, costs) ==
  IF gross > costs THEN ((gross - costs) * BurnBps) \div Scale ELSE 0
-----------------------------------------------------------------------------
\* USDG arrives in the vault, in whatever portions and for whatever revenue.
Fund ==
  /\ usdg < MaxUsdg
  /\ usdg' = usdg + 1
  /\ UNCHANGED <<reserved, contributions, event, ledgerState, tokenVars>>

\* recordContribution(): of the gross amount the accountant names, which the vault
\* cannot compare with a receipt; it must be there beside what is reserved. The
\* budget is reserved and everything else paid out.
\* (Variant: the balance is not compared with what is reserved beside the revenue.)
FundedAlone(gross) == usdg >= gross
Funded(gross) == usdg >= reserved + gross
RecordContribution(r, gross, costs) ==
  /\ contributions[r] = NoReceipt /\ Funded(gross)
  /\ LET budget == Budget(gross, costs) IN
       /\ contributions' = [contributions EXCEPT ![r] = [budget |-> budget, executed |-> FALSE]]
       /\ reserved' = reserved + budget
       /\ usdg' = usdg - (gross - budget)
  /\ UNCHANGED <<event, ledgerState, tokenVars>>

\* buyAndBurn(): the venue takes exactly the budget and returns some IPX, which
\* is burned; anything else reverts.
BuyAndBurn(r, bought) ==
  /\ contributions[r] # NoReceipt
  /\ contributions[r].budget > 0 /\ ~contributions[r].executed
  /\ usdg >= contributions[r].budget
  /\ contributions' = [contributions EXCEPT ![r].executed = TRUE]
  /\ reserved' = reserved - contributions[r].budget
  /\ usdg' = usdg - contributions[r].budget
  /\ event' = [event EXCEPT ![r] =
       [spent |-> contributions[r].budget, burned |-> bought, final |-> FALSE]]
  /\ BuyAndBurnIPX(bought)
  /\ UNCHANGED ledgerState

Pending(r) == event[r] # NoReceipt /\ ~event[r].final

\* The block of the purchase becomes final,
Finalize(r) ==
  /\ Pending(r)
  /\ event' = [event EXCEPT ![r].final = TRUE]
  /\ UNCHANGED <<usdg, reserved, contributions, ledgerState, tokenVars>>

\* or is dropped before, and its transaction with it.
Reorganize(r) ==
  /\ Pending(r)
  /\ event' = [event EXCEPT ![r] = NoReceipt]
  /\ contributions' = [contributions EXCEPT ![r].executed = FALSE]
  /\ reserved' = reserved + event[r].spent
  /\ usdg' = usdg + event[r].spent
  /\ balance' = [balance EXCEPT ![Pool] = @ + event[r].burned]
  /\ supply' = supply + event[r].burned
  /\ UNCHANGED ledgerState
-----------------------------------------------------------------------------
\* append() of one kind after its parent; a retry after a crash finds the prior
\* receipt under its dedupe key and goes on from there.
Append(r, parent, kind) ==
  /\ stage[r] = parent
  /\ stage' = [stage EXCEPT ![r] = kind]
OffChain == UNCHANGED <<vaultVars, tokenVars>>

\* revenue(): two receipts, in two statements, of one finalized settlement.
Revenue(r) ==
  /\ Append(r, "none", "service") \/ Append(r, "service", "revenue")
  /\ UNCHANGED <<accounted, proven>> /\ OffChain

\* account(): the first reviewed costs stand; others conflict.
Account(r, costs) ==
  /\ Append(r, "revenue", "contribution")
  /\ accounted' = [accounted EXCEPT ![r] = Budget(Gross[r], costs)]
  /\ UNCHANGED proven /\ OffChain

\* What burn() demands of the transaction, each time it is called: the vault's
\* event for this revenue, final, and spending what the ledger accounted.
\* (Variant: the block need not be final.)
ProvesUnfinished(r) == event[r] # NoReceipt /\ event[r].spent = accounted[r]
Proves(r) ==
  /\ event[r] # NoReceipt /\ event[r].final
  /\ event[r].spent = accounted[r]
Burn(r) ==
  /\ stage[r] \in {"contribution", "purchase"} /\ accounted[r] > 0 /\ Proves(r)
  /\ Append(r, "contribution", "purchase") \/ Append(r, "purchase", "burn")
  /\ proven' = [proven EXCEPT ![r] = [spent |-> event[r].spent, burned |-> event[r].burned]]
  /\ UNCHANGED accounted /\ OffChain

ContributionNext ==
  \/ Fund
  \/ \E r \in Revenues :
    \/ Finalize(r) \/ Reorganize(r) \/ Revenue(r) \/ Burn(r)
    \/ \E costs \in Costs :
         Account(r, costs) \/ \E gross \in Named : RecordContribution(r, gross, costs)
    \/ \E bought \in Bought : BuyAndBurn(r, bought)
-----------------------------------------------------------------------------
\* The USDG reserved for purchases is in the vault, whatever order revenues,
\* losses, contributions, purchases and dropped blocks come in, and is exactly
\* what the contributions not yet executed may spend: none can be starved.
Owed(r) ==
  IF contributions[r] # NoReceipt /\ ~contributions[r].executed
  THEN contributions[r].budget ELSE 0
ReservesBacked ==
  /\ usdg >= reserved
  /\ reserved = SumFunction([r \in Revenues |-> Owed(r)])

\* A PURCHASE or BURN receipt is never left without its purchase: the vault has
\* executed this contribution, for the budget the ledger accounted, and the
\* ledger never claims more burned than has left the supply.
Claimed(r) == IF stage[r] = "burn" THEN proven[r].burned ELSE 0
BurnsAreReal ==
  /\ \A r \in Revenues : stage[r] \in {"purchase", "burn"} =>
       /\ contributions[r] # NoReceipt /\ contributions[r].executed
       /\ contributions[r].budget = accounted[r]
       /\ proven[r].spent = accounted[r]
  /\ SumFunction([r \in Revenues |-> Claimed(r)]) <= Allocation + Liquidity - supply
=============================================================================
