------------------------------ MODULE MCMarket ------------------------------
(* Market over a fork of four blocks and one of two.  eth and alt trade against a dollar; alt
   only in the first block, later prices of alt come through its pool with eth.
   The blocks up to a3 share a minute, of which a3 trades in another pool than a2, so
   that a stray a3 adds to a candle of a1 below the rewind; then minutes are skipped. *)
EXTENDS Market, TLC

CONSTANTS r, a1, a2, b2, a3, a4, usd, eth, alt, pe, pd, pa

BlocksM == {r, a1, a2, b2, a3, a4}
NumM == (r :> 0) @@ (a1 :> 1) @@ (a2 :> 2) @@ (b2 :> 2) @@ (a3 :> 3) @@ (a4 :> 4)
ParentM == (r :> None) @@ (a1 :> r) @@ (a2 :> a1) @@ (b2 :> a1) @@ (a3 :> a2)
           @@ (a4 :> a3)
LineM[b \in BlocksM] == {b} \cup IF ParentM[b] = None THEN {} ELSE LineM[ParentM[b]]

Swap(p, t) == [pool |-> p, kind |-> "swap", tx |-> t, agg |-> FALSE]
Sync(p, t) == [pool |-> p, kind |-> "sync", tx |-> t, agg |-> FALSE]
Summary(p, t) == [pool |-> p, kind |-> "swap", tx |-> t, agg |-> TRUE]

Token0M == (pe :> eth) @@ (pd :> alt) @@ (pa :> alt)
Token1M == (pe :> usd) @@ (pd :> usd) @@ (pa :> eth)
DepthM == (pe :> 5) @@ (pd :> 1) @@ (pa :> 4)
MinuteM == (r :> 0) @@ (a1 :> 1) @@ (a2 :> 1) @@ (b2 :> 3) @@ (a3 :> 1)
           @@ (a4 :> 3)
EventsM ==
  (r :> <<>>)
  @@ (a1 :> <<Swap(pe, 1), Swap(pd, 2), Sync(pa, 3), Swap(pa, 3), Sync(pe, 4)>>)
  @@ (a2 :> <<Swap(pa, 1), Summary(pe, 2)>>)
  @@ (b2 :> <<Swap(pa, 0), Sync(pe, 2)>>)
  @@ (a3 :> <<Swap(pe, 1), Summary(pd, 1)>>)
  @@ (a4 :> <<Swap(pa, 0), Swap(pd, 1)>>)
=============================================================================
