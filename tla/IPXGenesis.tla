----------------------------- MODULE IPXGenesis -----------------------------
(***************************************************************************)
(* The genesis cohort: signed calls admitted by the service                *)
(* (ipxGenesisService.ts) one per wallet and in order while the campaign   *)
(* is open, the complete cohort sealed on chain, and every entitlement     *)
(* claimed from the distributor (contracts/src/IPXGenesisCalls.sol).       *)
(* A Merkle root is the set of its leaves, a payload hash its payload.     *)
(* Every tick of the clock opens the next pulse window, so that a payload  *)
(* built in one window is another payload in the next.                     *)
(***************************************************************************)
EXTENDS IPXToken

CONSTANTS
  Limit,      \* LIMIT: 4663 calls of 4663 wallets
  Admissions, \* concurrent call() handlers
  ClosesAt,   \* closes_at of the campaign
  MaxTime,    \* bound of the clock
  Unset       \* no call, no root

ASSUME GenesisAssumption ==
  /\ Limit \in Nat \ {0} /\ Allocation >= Limit
  /\ ClosesAt \in Nat /\ MaxTime \in Nat
  /\ Unset \notin [payload : [wallet : Wallets, window : 0..MaxTime],
                   ordinal : 1..Limit, acceptedAt : 0..MaxTime]

VARIABLES
  clock,      \* time, in pulse windows
  admission,  \* each call() in flight: its place and the payload it built
  cohort,     \* ipx_genesis_calls_v2: [wallet -> accepted receipt or Unset]
  cohortRoot, \* the sealed set of leaves, or Unset
  claimed     \* claimedOrdinal, claimedWallet: the leaves paid out

genesisVars == <<clock, admission, cohort, cohortRoot, claimed>>

Payload == [wallet : Wallets, window : 0..MaxTime]
Receipt == [payload : Payload, ordinal : 1..Limit, acceptedAt : 0..MaxTime]
NoCall  == [at |-> "idle", payload |-> Unset]

GenesisTypeOK ==
  /\ clock \in 0..MaxTime
  /\ admission \in [Admissions -> [at : {"idle", "verify", "append"}, payload : Payload \cup {Unset}]]
  /\ cohort \in [Wallets -> Receipt \cup {Unset}]
  /\ claimed \subseteq (1..Limit) \X Wallets

GenesisInit ==
  /\ clock = 0
  /\ admission = [c \in Admissions |-> NoCall]
  /\ cohort = [w \in Wallets |-> Unset]
  /\ cohortRoot = Unset
  /\ claimed = {}

\* entitlement() of the service, what a receipt promises: the last takes the rest.
Share == Allocation \div Limit
Promised(ordinal) == Share + (IF ordinal = Limit THEN Allocation % Limit ELSE 0)

Admitted == {w \in Wallets : cohort[w] # Unset}
\* payload() of this instant equals what was built: same window, still open.
Current(payload) == clock < ClosesAt /\ payload.window = clock
StillCurrent(c) == Current(admission[c].payload)
Drop(c) == admission' = [admission EXCEPT ![c] = NoCall]
ServiceOnly == UNCHANGED <<clock, cohortRoot, claimed, balance, supply>>

\* call(): the payload is built while the campaign is open,
Build(c, w) ==
  /\ admission[c].at = "idle" /\ clock < ClosesAt
  /\ admission' = [admission EXCEPT
       ![c] = [at |-> "verify", payload |-> [wallet |-> w, window |-> clock]]]
  /\ UNCHANGED cohort /\ ServiceOnly

\* signature and deployment are verified, which takes time, and it is rebuilt,
Recheck(c) ==
  /\ admission[c].at = "verify"
  /\ IF StillCurrent(c)
     THEN admission' = [admission EXCEPT ![c].at = "append"]
     ELSE Drop(c)
  /\ UNCHANGED cohort /\ ServiceOnly

\* and appended under the cohort's advisory lock: a wallet that has called gets
\* its receipt back or an error, a full cohort an error, and what the lock held
\* up beyond its window is not admitted. The clock is read once to be compared and
\* again to stamp the receipt, and may have turned between the two.
NextOrdinal == Cardinality(Admitted) + 1
\* (The first half alone would leave out the last look at the clock.)
AdmissibleLate(c) == cohort[admission[c].payload.wallet] = Unset /\ NextOrdinal <= Limit
Admissible(c) == AdmissibleLate(c) /\ StillCurrent(c)
Admit(c) ==
  /\ admission[c].at = "append"
  /\ clock' \in {clock, clock + 1} /\ clock' <= MaxTime
  /\ IF Admissible(c)
     THEN cohort' = [cohort EXCEPT ![admission[c].payload.wallet] =
            [payload |-> admission[c].payload, ordinal |-> NextOrdinal, acceptedAt |-> clock']]
     ELSE UNCHANGED cohort
  /\ Drop(c) /\ UNCHANGED <<cohortRoot, claimed, balance, supply>>

\* The handler dies, or its client goes.
Abandon(c) ==
  /\ admission[c].at # "idle" /\ Drop(c)
  /\ UNCHANGED cohort /\ ServiceOnly

Tick ==
  /\ clock < MaxTime /\ clock' = clock + 1
  /\ UNCHANGED <<admission, cohort, cohortRoot, claimed, balance, supply>>
-----------------------------------------------------------------------------
Leaf(w) == <<cohort[w].ordinal, w, Promised(cohort[w].ordinal), cohort[w].payload>>
\* buildEntitlementTree(): only of a complete cohort.
Leaves == {Leaf(w) : w \in Admitted}

\* seal(), once, and only when the whole allocation is there.
Seal ==
  /\ cohortRoot = Unset /\ Cardinality(Admitted) = Limit
  /\ balance[Distributor] >= Allocation
  /\ cohortRoot' = Leaves
  /\ UNCHANGED <<clock, admission, cohort, claimed, balance, supply>>

\* entitlement() of the contract, which does not hear of the service's.
\* (Variant: everyone's share has the remainder.)
EntitlementWithRest(ordinal) == Share + (Allocation % Limit)
Entitlement(ordinal) == Share + (IF ordinal = Limit THEN Allocation % Limit ELSE 0)

\* claim(): by anyone, for any ordinal, with any call hash it can prove; the
\* leaf to be proved is made of what the contract would pay.
Unclaimed(w, ordinal) == \A x \in claimed : x[1] # ordinal /\ x[2] # w
Claimable(w, ordinal, callHash) ==
  /\ Unclaimed(w, ordinal)
  /\ <<ordinal, w, Entitlement(ordinal), callHash>> \in cohortRoot
Claim(w, ordinal, callHash) ==
  /\ cohortRoot # Unset /\ Claimable(w, ordinal, callHash)
  /\ claimed' = claimed \cup {<<ordinal, w>>}
  /\ Transfer(Distributor, w, Entitlement(ordinal))
  /\ UNCHANGED <<clock, admission, cohort, cohortRoot>>

GenesisNext ==
  \/ \E c \in Admissions :
       Recheck(c) \/ Admit(c) \/ Abandon(c) \/ \E w \in Wallets : Build(c, w)
  \/ Tick \/ Seal
  \/ \E w \in Wallets, ordinal \in 1..Limit, p \in Payload : Claim(w, ordinal, p)
-----------------------------------------------------------------------------
\* The cohort is a dense, gapless order of distinct wallets, each admitted for
\* the open window it signed for, whatever held its handler up: its receipt is
\* stamped in that window or, the clock being read again, as the next one opens.
CohortSound ==
  /\ {cohort[w].ordinal : w \in Admitted} = 1..Cardinality(Admitted)
  /\ \A w \in Admitted :
       /\ cohort[w].payload.wallet = w
       /\ cohort[w].payload.window < ClosesAt
       /\ cohort[w].acceptedAt \in {cohort[w].payload.window, cohort[w].payload.window + 1}

\* Whoever is in the sealed cohort can be paid what its receipt promised: an
\* entitlement not yet claimed is one the contract will take, in whatever order
\* the others are claimed, the distributor holds what all of them come to, and
\* nobody has been paid another sum than his receipt's, or twice.
EntitlementsFunded ==
  cohortRoot # Unset =>
    LET open == {leaf \in cohortRoot : <<leaf[1], leaf[2]>> \notin claimed}
    IN  /\ balance[Distributor] >= SumFunction([leaf \in open |-> leaf[3]])
        /\ \A leaf \in open : Claimable(leaf[2], leaf[1], leaf[4])
        /\ \A w \in Wallets : balance[w] =
             IF \E x \in claimed : x[2] = w THEN Promised(cohort[w].ordinal) ELSE 0
=============================================================================
