-------------------------- MODULE MCJudgmentPurchase --------------------------
(* Instances of JudgmentPurchase: two keys with payments that share an       *)
(* authorization, one key contested by two requests, one purchase.           *)
EXTENDS JudgmentPurchase, TLC

CONSTANTS k1, k2, r1, r2, p1, p2, p3, t1, t2

\* A request of its own for every key; two headers for one authorization, and another.
MCOwnKeys == r1 :> k1 @@ r2 :> k2
MCSharedTransfer == p1 :> t1 @@ p2 :> t1 @@ p3 :> t2
\* Two requests under one idempotency key, and two independent payments.
MCOneKey == r1 :> k1 @@ r2 :> k1
MCOwnTransfer == p1 :> t1 @@ p2 :> t2
\* One request and one payment.
MCOneRequest == r1 :> k1
MCOneTransfer == p1 :> t1

MCCallsAlike == Permutations(Calls)
==============================================================================
