----------------------------- MODULE JudgmentSale -----------------------------
(***************************************************************************)
(* What the sale of judgments promises to those who buy them, without      *)
(* calls, copies or a journal: a key has one price, told to all who ask;   *)
(* it is charged at most once, with a payment that was charged for nothing *)
(* else; the judgment is delivered at that price, against a transfer that  *)
(* has paid for no other; and revenue is booked for what was delivered.    *)
(* (docs/phases2-3-validation.md:49.)                                      *)
(* JudgmentPurchase implements it (ImplementsSale).                        *)
(***************************************************************************)
EXTENDS Naturals

CONSTANTS Keys, Payments, Transfers, TransferOf, Terms, None

VARIABLES
  price,      \* the terms a key was quoted, or None
  told,       \* the terms anyone was told for a key
  charged,    \* how often a key was charged with a payment
  moved,      \* the transfers made
  delivered,  \* the judgment delivered for a key, or None
  booked      \* the keys revenue is booked for

saleVars == <<price, told, charged, moved, delivered, booked>>

SaleInit ==
  /\ price = [k \in Keys |-> None]
  /\ told = [k \in Keys |-> {}]
  /\ charged = [k \in Keys |-> [p \in Payments |-> 0]]
  /\ moved = {}
  /\ delivered = [k \in Keys |-> None]
  /\ booked = {}

Quote(k) ==
  /\ price[k] = None
  /\ \E terms \in Terms : price' = [price EXCEPT ![k] = terms]
  /\ UNCHANGED <<told, charged, moved, delivered, booked>>

Tell(k) ==
  /\ price[k] # None
  /\ told' = [told EXCEPT ![k] = {price[k]}]
  /\ UNCHANGED <<price, charged, moved, delivered, booked>>

\* A priced key is charged once, and a payment once.
Charge(k, p) ==
  /\ price[k] # None
  /\ \A o \in Keys, q \in Payments : o = k \/ q = p => charged[o][q] = 0
  /\ charged' = [charged EXCEPT ![k][p] = 1]
  /\ UNCHANGED <<price, told, moved, delivered, booked>>

\* Money moves for what was charged, at any later time.
Move(t) ==
  /\ t \notin moved
  /\ \E k \in Keys, p \in Payments : charged[k][p] > 0 /\ TransferOf[p] = t
  /\ moved' = moved \cup {t}
  /\ UNCHANGED <<price, told, charged, delivered, booked>>

Deliver(k, p) ==
  /\ delivered[k] = None
  /\ charged[k][p] = 1 /\ TransferOf[p] \in moved
  /\ \A o \in Keys : delivered[o] # None => delivered[o].settlement # TransferOf[p]
  /\ delivered' = [delivered EXCEPT ![k] = [terms |-> price[k], settlement |-> TransferOf[p]]]
  /\ UNCHANGED <<price, told, charged, moved, booked>>

Book(k) ==
  /\ delivered[k] # None
  /\ booked' = booked \cup {k}
  /\ UNCHANGED <<price, told, charged, moved, delivered>>

SaleNext ==
  \/ \E k \in Keys : Quote(k) \/ Tell(k) \/ Book(k)
  \/ \E k \in Keys, p \in Payments : Charge(k, p) \/ Deliver(k, p)
  \/ \E t \in Transfers : Move(t)

SaleSpec == SaleInit /\ [][SaleNext]_saleVars
===============================================================================
