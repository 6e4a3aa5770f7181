-------------------------- MODULE ReceiptRegistry --------------------------
(***************************************************************************)
(* What the receipt spine promises to those who post proofs and            *)
(* evaluations, without handlers, tables or races: every item is recorded  *)
(* at most once and for ever, of two rivals at most one, an answer is the  *)
(* recorded receipt, and a refusal means that a rival is recorded.         *)
(* (docs/phase3-execution-proof.md:54, docs/phase4-evaluation-             *)
(* projections.md:10.)  ReceiptSpine implements it (ImplementsRegistry).   *)
(***************************************************************************)
CONSTANTS
  Items, Receipts,
  Rivals,   \* pairs of items that must not both be recorded
  None

VARIABLES
  recorded,  \* recorded[i]: the receipt of item i, or None
  answered,  \* the [item, receipt] pairs given to anyone
  refused    \* the items anyone was refused

registryVars == <<recorded, answered, refused>>

RegistryInit ==
  /\ recorded = [i \in Items |-> None]
  /\ answered = {}
  /\ refused = {}

Held(i) == \E j \in Items : <<i, j>> \in Rivals /\ recorded[j] # None

\* The first write of an item; its author may or may not learn of it.
Record(i, receipt) ==
  /\ recorded[i] = None /\ ~Held(i)
  /\ recorded' = [recorded EXCEPT ![i] = receipt]
  /\ \/ answered' = answered \cup {[item |-> i, receipt |-> receipt]}
     \/ UNCHANGED answered
  /\ UNCHANGED refused

\* Every later caller is given the receipt of the first write.
Repeat(i) ==
  /\ recorded[i] # None
  /\ answered' = answered \cup {[item |-> i, receipt |-> recorded[i]]}
  /\ UNCHANGED <<recorded, refused>>

\* A refusal has its reason in the registry.
Refuse(i) ==
  /\ Held(i)
  /\ refused' = refused \cup {i}
  /\ UNCHANGED <<recorded, answered>>

RegistryNext ==
  \E i \in Items : Repeat(i) \/ Refuse(i) \/ \E receipt \in Receipts : Record(i, receipt)

RegistrySpec == RegistryInit /\ [][RegistryNext]_registryVars
-----------------------------------------------------------------------------
\* No two rivals are recorded, what was answered is what is recorded, and
\* what was refused is not.
RegistryConsistent ==
  /\ \A i, j \in Items :
       <<i, j>> \in Rivals /\ recorded[i] # None => recorded[j] = None
  /\ \A a \in answered : a.receipt = recorded[a.item]
  /\ \A i \in refused : recorded[i] = None
=============================================================================
