--------------------------- MODULE MCReceiptSpine ---------------------------
(* Instances of ReceiptSpine: three proofs and three evaluations that want    *)
(* the same keys, judgments, settlements and executions.                      *)
EXTENDS ReceiptSpine, TLC

CONSTANTS s1, s2, s3, e1, e2, e3, k1, k2, j1, j2, x1, x2, t1, t2

\* s2 reuses the key of s1; s3 shares its judgment with s1, its transaction with s2.
MCKey == s1 :> k1 @@ s2 :> k1 @@ s3 :> k2
MCJudgment == s1 :> j1 @@ s2 :> j2 @@ s3 :> j1
MCSettlement == s1 :> x1 @@ s2 :> x2 @@ s3 :> x2
\* e2 reuses the key of e1 with other content; e3 judges the same execution.
MCToken == e1 :> t1 @@ e2 :> t1 @@ e3 :> t2
MCSubject == e1 :> k1 @@ e2 :> k1 @@ e3 :> k1

MCCallersAlike == Permutations(Callers)
=============================================================================
