------------------------------ MODULE IPXToken ------------------------------
(***************************************************************************)
(* The IPX token as the launch contracts use it (contracts/src/IPX.sol): a *)
(* fixed supply minted at birth to its allocation, transferred and burned. *)
(* A transfer or burn beyond a balance reverts, so it is no step at all.   *)
(* Of the six buckets two take part in the launch: the genesis calls'      *)
(* distributor and the liquidity the vault buys from.                      *)
(***************************************************************************)
EXTENDS Naturals, FiniteSets, Functions

CONSTANTS
  Wallets,      \* economic wallets of the cohort
  Distributor,  \* IPXGenesisCalls
  Pool,         \* the venue's liquidity
  Vault,        \* IPXContributionVault
  Allocation,   \* allocationAmount[GenesisCalls]
  Liquidity     \* allocationAmount[Liquidity]

ASSUME TokenAssumption ==
  /\ Distributor # Pool /\ Vault \notin {Distributor, Pool}
  /\ Wallets \cap {Distributor, Pool, Vault} = {}
  /\ Allocation \in Nat /\ Liquidity \in Nat

VARIABLES
  balance,      \* balanceOf
  supply        \* totalSupply

tokenVars == <<balance, supply>>
Accounts  == Wallets \cup {Distributor, Pool, Vault}

TokenInit ==
  /\ balance = [a \in Accounts |->
       CASE a = Distributor -> Allocation [] a = Pool -> Liquidity [] OTHER -> 0]
  /\ supply = Allocation + Liquidity

Transfer(from, to, amount) ==
  /\ balance[from] >= amount
  /\ balance' = [balance EXCEPT ![from] = @ - amount, ![to] = @ + amount]
  /\ UNCHANGED supply

\* A purchase out of the pool whose proceeds are burned in the same call.
BuyAndBurnIPX(amount) ==
  /\ balance[Pool] >= amount
  /\ balance' = [balance EXCEPT ![Pool] = @ - amount]
  /\ supply' = supply - amount
=============================================================================
