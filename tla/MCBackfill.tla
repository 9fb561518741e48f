----------------------------- MODULE MCBackfill -----------------------------
(* ParallelBackfill over a small tree of blocks: r is height 0, a1 and b1 are two
   forks of height 1, a2 and b2 their children, a3 and a4 follow a2,
   b3 follows b2. *)
EXTENDS ParallelBackfill, TLC

CONSTANTS r, a1, b1, a2, b2, a3, a4, b3, w1, w2, w3

Blocks4 == {r, a1, b1, a2, b2, a3, a4, b3}
Num4 == (r :> 0) @@ (a1 :> 1) @@ (b1 :> 1) @@ (a2 :> 2) @@ (b2 :> 2) @@ (a3 :> 3)
        @@ (a4 :> 4) @@ (b3 :> 3)
Parent4 == (r :> None) @@ (a1 :> r) @@ (b1 :> r) @@ (a2 :> a1) @@ (b2 :> b1)
           @@ (a3 :> a2) @@ (a4 :> a3) @@ (b3 :> b2)
Line4[b \in Blocks4] ==
  {b} \cup IF Parent4[b] = None THEN {} ELSE Line4[Parent4[b]]

Workers2 == {w1, w2}
Workers3 == {w1, w2, w3}
=============================================================================
