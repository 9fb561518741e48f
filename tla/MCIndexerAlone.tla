--------------------------- MODULE MCIndexerAlone ---------------------------
(* IndexerAlone over the tree of MCIngestion. *)
EXTENDS IndexerAlone, TLC

CONSTANTS r, a1, b1, a2, b2, c2, a3, b3

Blocks3 == {r, a1, b1, a2, b2, c2, a3, b3}
Num3 == (r :> 0) @@ (a1 :> 1) @@ (b1 :> 1) @@ (a2 :> 2) @@ (b2 :> 2)
        @@ (c2 :> 2) @@ (a3 :> 3) @@ (b3 :> 3)
Parent3 == (r :> None) @@ (a1 :> r) @@ (b1 :> r) @@ (a2 :> a1) @@ (b2 :> b1)
           @@ (c2 :> a1) @@ (a3 :> a2) @@ (b3 :> b2)
Line3[b \in Blocks3] ==
  {b} \cup IF Parent3[b] = None THEN {} ELSE Line3[Parent3[b]]
=============================================================================
