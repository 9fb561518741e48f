---------------------------- MODULE MCIngestion ----------------------------
(* Ingestion over a small tree of blocks: r is height 0, a1 and b1 are two forks
   of height 1, a2 and c2 two children of a1. *)
EXTENDS Ingestion, TLC

CONSTANTS r, a1, b1, a2, c2

Blocks1 == {r, a1, b1, a2, c2}
Num1 == (r :> 0) @@ (a1 :> 1) @@ (b1 :> 1) @@ (a2 :> 2) @@ (c2 :> 2)
Parent1 == (r :> None) @@ (a1 :> r) @@ (b1 :> r) @@ (a2 :> a1) @@ (c2 :> a1)
Line1[b \in Blocks1] ==
  {b} \cup IF Parent1[b] = None THEN {} ELSE Line1[Parent1[b]]
=============================================================================
