---------------------------- MODULE MarketProofs ----------------------------
(***************************************************************************)
(* What the market tables keep, for any blocks, events, tokens, pools and  *)
(* limits.                                                                 *)
(***************************************************************************)
EXTENDS Market, Induction, FiniteSetTheorems

USE DEF Height

(***************************************************************************)
(* Keys and their order                                                    *)
(***************************************************************************)

LEMMA Keys ==
  /\ \A b \in Block : KeysOf(b) \subseteq Key /\ \A k \in KeysOf(b) : k[1] = b
  /\ \A k \in Key : /\ k[1] \in Block /\ k[2] \in Nat /\ k[2] <= Len(Events[k[1]])
                    /\ Len(Events[k[1]]) \in Nat
                    /\ k = <<k[1], k[2]>> /\ k \in KeysOf(k[1])
                    /\ HeightOf(k) \in Height /\ EventOf(k) \in Event
  <1>1. \A b \in Block : DOMAIN Events[b] = 1..Len(Events[b]) /\ Len(Events[b]) \in Nat
                         /\ \A i \in DOMAIN Events[b] : Events[b][i] \in Event
    BY MarketAssumption
  <1>2. \A b \in Block : KeysOf(b) \subseteq Key
    BY DEF Key
  <1>3. \A b \in Block : \A k \in KeysOf(b) : k[1] = b /\ k[2] \in DOMAIN Events[b] /\ k = <<b, k[2]>>
    BY DEF KeysOf
  <1>4. \A k \in Key : \E b \in Block : k \in KeysOf(b)
    BY DEF Key
  <1>5. ASSUME NEW k \in Key
        PROVE  /\ k[1] \in Block /\ k[2] \in Nat /\ k[2] <= Len(Events[k[1]])
               /\ Len(Events[k[1]]) \in Nat
               /\ k = <<k[1], k[2]>> /\ k \in KeysOf(k[1])
               /\ HeightOf(k) \in Height /\ EventOf(k) \in Event
    <2>1. k[1] \in Block /\ k \in KeysOf(k[1])
      BY <1>3, <1>4
    <2>2. k[2] \in DOMAIN Events[k[1]] /\ k = <<k[1], k[2]>>
      BY <1>3, <2>1
    <2> QED BY <1>1, <2>1, <2>2, TreeAssumption DEF HeightOf, EventOf
  <1> QED BY <1>2, <1>3, <1>5

(* Rows of one token, or of one pool: one block at every height, one row per key. *)
Series(rows) ==
  /\ None \notin rows
  /\ \A r \in rows : r.key \in Key
  /\ \A q, r \in rows : HeightOf(q.key) = HeightOf(r.key) => q.key[1] = r.key[1]
  /\ \A q, r \in rows : q.key = r.key => q = r

LatestOf(rows) == IF rows = {} THEN None ELSE Newest(rows)

(* A series has a newest row, and only one. *)
LEMMA NewestOfSeries ==
  ASSUME NEW rows, Series(rows), rows # {}
  PROVE  /\ Newest(rows) \in rows
         /\ \A q \in rows : ~Later(q.key, Newest(rows).key)
         /\ \A r \in rows : (\A q \in rows : ~Later(q.key, r.key)) => r = Newest(rows)
  <1>1. \A r \in rows : /\ HeightOf(r.key) \in Height
                        /\ r.key[1] \in Block /\ Len(Events[r.key[1]]) \in Nat
                        /\ r.key[2] \in Nat /\ r.key[2] <= Len(Events[r.key[1]])
                        /\ r.key = <<r.key[1], r.key[2]>>
    BY Keys DEF Series
  <1> DEFINE H == {HeightOf(r.key) : r \in rows}
  <1>2. H \in SUBSET Nat /\ H # {} /\ \A n \in H : n <= MaxHeight
    BY <1>1, TreeAssumption
  <1> HIDE DEF H
  <1>3. PICK h \in H : \A n \in H : n <= h
    BY <1>2, TreeAssumption, GreatestNatural
  <1> DEFINE top == {r \in rows : HeightOf(r.key) = h}
             P == {r.key[2] : r \in top}
  <1>4. PICK s \in rows : HeightOf(s.key) = h
    BY <1>3 DEF H
  <1>5. \A r \in top : r.key[1] = s.key[1]
    BY <1>4 DEF Series
  <1>6. P \in SUBSET Nat /\ P # {} /\ \A n \in P : n <= Len(Events[s.key[1]])
    BY <1>1, <1>4, <1>5
  <1>7. PICK n \in P : \A m \in P : m <= n
    <2> HIDE DEF P
    <2> QED BY <1>1, <1>4, <1>6, GreatestNatural
  <1>8. PICK r \in top : r.key[2] = n
    BY <1>7
  <1>9. \A q \in rows : ~Later(q.key, r.key)
    <2> SUFFICES ASSUME NEW q \in rows, Later(q.key, r.key) PROVE FALSE
      OBVIOUS
    <2>1. HeightOf(q.key) <= h /\ HeightOf(q.key) \in Nat /\ h \in Nat
      BY <1>1, <1>3 DEF H
    <2>2. HeightOf(r.key) = h
      BY <1>8
    <2>3. q \in top /\ q.key[2] > r.key[2]
      BY <2>1, <2>2 DEF Later
    <2>4. q.key[2] \in P /\ q.key[2] \in Nat
      BY <1>1, <2>3
    <2>5. r.key[2] = n /\ n \in Nat
      BY <1>1, <1>8
    <2>6. q.key[2] <= n
      <3> HIDE DEF P
      <3> QED BY <1>7, <2>4
    <2> QED BY <2>3, <2>4, <2>5, <2>6
  <1>10. Newest(rows) \in rows /\ \A q \in rows : ~Later(q.key, Newest(rows).key)
    BY <1>8, <1>9 DEF Newest
  <1>11. ASSUME NEW x \in rows, NEW y \in rows,
                \A q \in rows : ~Later(q.key, x.key), \A q \in rows : ~Later(q.key, y.key)
         PROVE  x = y
    <2>1. ~Later(x.key, y.key) /\ ~Later(y.key, x.key)
      BY <1>11
    <2>2. HeightOf(x.key) = HeightOf(y.key)
      BY <1>1, <2>1 DEF Later
    <2>3. x.key[1] = y.key[1]
      BY <2>2 DEF Series
    <2>4. x.key[2] = y.key[2]
      BY <1>1, <2>1, <2>2, <2>3 DEF Later
    <2>5. x.key = y.key
      BY <1>1, <2>3, <2>4
    <2> QED BY <2>5 DEF Series
  <1> QED BY <1>10, <1>11

LEMMA PartOfSeries ==
  ASSUME NEW rows, Series(rows), NEW part \in SUBSET rows PROVE Series(part)
  BY DEF Series

(* Clearing a height leaves the newest of the other rows. *)
LEMMA RestoredIsLatest ==
  ASSUME NEW old, Series(old), NEW h \in Height
  PROVE  Restored(LatestOf(old), old, Without(old, h), h) = LatestOf(Without(old, h))
  <1> DEFINE kept == Without(old, h)
  <1>1. Series(kept) /\ kept \subseteq old
    BY DEF Without, Series
  <1>2. old # {} => Newest(old) \in old /\ Newest(old) # None
    BY NewestOfSeries DEF Series
  <1>3. CASE \A r \in old : HeightOf(r.key) # h
    <2>1. kept = old
      BY <1>3 DEF Without
    <2>2. ~(LatestOf(old) # None /\ HeightOf(LatestOf(old).key) = h)
      BY <1>2, <1>3 DEF LatestOf
    <2> QED BY <1>3, <2>1, <2>2 DEF Restored
  <1>4. CASE \E r \in old : HeightOf(r.key) = h
    <2>1. CASE kept = {}
      BY <1>4, <2>1 DEF Restored, LatestOf
    <2>2. CASE kept # {}
      <3>1. old # {} /\ LatestOf(old) = Newest(old) /\ LatestOf(kept) = Newest(kept)
        BY <1>4, <2>2 DEF LatestOf
      <3>2. CASE HeightOf(Newest(old).key) = h
        BY <1>2, <1>4, <2>2, <3>1, <3>2 DEF Restored, Upsert
      <3>3. CASE HeightOf(Newest(old).key) # h
        <4>1. Newest(old) \in kept
          BY <1>2, <3>1, <3>3 DEF Without
        <4>2. \A q \in kept : ~Later(q.key, Newest(old).key)
          BY <1>1, <3>1, NewestOfSeries
        <4>3. Newest(old) = Newest(kept)
          BY <1>1, <2>2, <4>1, <4>2, NewestOfSeries
        <4> QED BY <1>2, <1>4, <2>2, <3>1, <3>3, <4>3 DEF Restored, Upsert
      <3> QED BY <3>2, <3>3
    <2> QED BY <2>1, <2>2
  <1> QED BY <1>3, <1>4

(* The guard of the upsert keeps the newest when a block's rows are added, also below
   rows of later blocks. *)
LEMMA UpsertIsLatest ==
  ASSUME NEW kept, NEW mine, NEW h \in Height, Series(kept \cup mine), mine # {},
         \A r \in mine : HeightOf(r.key) = h, \A r \in kept : HeightOf(r.key) # h
  PROVE  Upsert(LatestOf(kept), Newest(mine)) = LatestOf(kept \cup mine)
  <1>1. Series(kept) /\ Series(mine)
    BY PartOfSeries
  <1>2. Newest(mine) \in mine /\ \A q \in mine : ~Later(q.key, Newest(mine).key)
    BY <1>1, NewestOfSeries
  <1>3. \A r \in kept \cup mine : HeightOf(r.key) \in Height
    BY Keys DEF Series
  <1>4. LatestOf(kept \cup mine) = Newest(kept \cup mine)
    BY DEF LatestOf
  <1>5. CASE kept = {}
    BY <1>4, <1>5 DEF LatestOf, Upsert
  <1>6. CASE kept # {}
    <2> DEFINE n == Newest(kept)
    <2>1. n \in kept /\ \A q \in kept : ~Later(q.key, n.key)
      BY <1>1, <1>6, NewestOfSeries
    <2>2. LatestOf(kept) = n /\ n # None /\ HeightOf(n.key) # h
      BY <1>6, <2>1 DEF LatestOf, Series
    <2>3. \A q \in kept : HeightOf(q.key) <= HeightOf(n.key)
      BY <1>3, <2>1 DEF Later
    <2>4. CASE HeightOf(n.key) < h
      <3>1. Upsert(LatestOf(kept), Newest(mine)) = Newest(mine)
        BY <1>2, <2>2, <2>4 DEF Upsert
      <3>2. \A q \in kept \cup mine : ~Later(q.key, Newest(mine).key)
        BY <1>2, <1>3, <2>1, <2>3, <2>4 DEF Later
      <3> QED BY <1>2, <1>4, <3>1, <3>2, NewestOfSeries
    <2>5. CASE HeightOf(n.key) > h
      <3>1. Upsert(LatestOf(kept), Newest(mine)) = n
        BY <1>2, <1>3, <2>1, <2>2, <2>5 DEF Upsert
      <3>2. \A q \in kept \cup mine : ~Later(q.key, n.key)
        BY <1>3, <2>1, <2>5 DEF Later
      <3> QED BY <1>4, <2>1, <3>1, <3>2, NewestOfSeries
    <2> QED BY <1>3, <2>1, <2>2, <2>4, <2>5
  <1> QED BY <1>5, <1>6
(***************************************************************************)
(* Prices.  What is shown here of the prices of a block is shown for any   *)
(* set of prices that is told by their heights: once for all prices, and   *)
(* once for the prices with an origin.                                     *)
(***************************************************************************)

Closed(A) == A \subseteq Price /\ \A p \in A, q \in Price : q.at = p.at => q \in A
Edge == [from : Token, to : Token, depth : {Depth[p] : p \in Pool}, raw : BOOLEAN]
Way(A) == [hops : {1, 2}, depth : {Depth[p] : p \in Pool}, price : A]

LEMMA Depths == \E top \in Nat : \A p \in Pool : Depth[p] \in Nat /\ Depth[p] <= top
  <1> DEFINE D == {Depth[p] : p \in Pool}
  <1>1. D \in SUBSET Nat /\ \A p \in Pool : Depth[p] \in D
    BY MarketAssumption
  <1>2. IsFiniteSet(D)
    <2>1. Depth \in Surjection(Pool, D)
      BY MarketAssumption DEF Surjection
    <2> QED BY <2>1, MarketAssumption, FS_Surjection
  <1> HIDE DEF D
  <1> QED BY <1>1, <1>2, FiniteBound

(* A way is compared by four numbers; of ways that are there one is not beaten. *)
LEMMA BestWay ==
  ASSUME NEW W \in SUBSET Way(Price), W # {}
  PROVE  \E w \in W : \A v \in W : ~Better(v, w)
  <1>1. \A w \in W : /\ w.hops \in {1, 2} /\ w.depth \in Nat
                     /\ w.price.stale \in BOOLEAN /\ w.price.at \in Nat
                     /\ w.price.at <= MaxHeight
    BY TreeAssumption, MarketAssumption DEF Way, Price
  <1>2. PICK W1 \in SUBSET W : /\ W1 # {}
                               /\ \A w \in W1, v \in W : ~w.price.stale \/ v.price.stale
                               /\ \A w \in W1, v \in W \ W1 : v.price.stale # w.price.stale
    <2>1. CASE \A w \in W : w.price.stale
      BY <1>1, <2>1
    <2>2. CASE \E w \in W : ~w.price.stale
      <3> DEFINE Fresh == {w \in W : ~w.price.stale}
      <3>1. /\ Fresh \in SUBSET W /\ Fresh # {}
            /\ \A w \in Fresh, v \in W : ~w.price.stale \/ v.price.stale
            /\ \A w \in Fresh, v \in W \ Fresh : v.price.stale # w.price.stale
        BY <1>1, <2>2
      <3> QED BY <3>1
    <2> QED BY <2>1, <2>2
  <1>3. PICK W2 \in SUBSET W1 : /\ W2 # {}
                                /\ \A w \in W2, v \in W1 : w.hops <= v.hops
                                /\ \A w \in W2, v \in W1 \ W2 : v.hops # w.hops
    <2>1. CASE \A w \in W1 : w.hops = 2
      BY <1>1, <1>2, <2>1
    <2>2. CASE \E w \in W1 : w.hops = 1
      <3> DEFINE Near == {w \in W1 : w.hops = 1}
      <3>1. /\ Near \in SUBSET W1 /\ Near # {}
            /\ \A w \in Near, v \in W1 : w.hops <= v.hops
            /\ \A w \in Near, v \in W1 \ Near : v.hops # w.hops
        BY <1>1, <2>2
      <3> QED BY <3>1
    <2> QED BY <1>1, <1>2, <2>1, <2>2
  <1>4. PICK d \in Nat : /\ \E w \in W2 : w.depth = d
                         /\ \A v \in W2 : v.depth <= d
    <2> DEFINE D == {w.depth : w \in W2}
    <2>1. D \in SUBSET Nat /\ D # {} /\ \A w \in W2 : w.depth \in D
      BY <1>1, <1>2, <1>3
    <2>2. PICK top \in Nat : \A p \in Pool : Depth[p] <= top
      BY Depths
    <2>3. \A n \in D : n <= top
      BY <2>2, <1>2, <1>3 DEF Way
    <2>4. PICK n \in D : \A m \in D : m <= n
      <3> HIDE DEF D
      <3> QED BY <2>1, <2>3, GreatestNatural
    <2> QED BY <2>1, <2>4
  <1> DEFINE W3 == {w \in W2 : w.depth = d}
             H == {w.price.at : w \in W3}
  <1>5. H \in SUBSET Nat /\ H # {} /\ (\A n \in H : n <= MaxHeight)
        /\ \A w \in W3 : w.price.at \in H
    BY <1>1, <1>2, <1>3, <1>4
  <1>6. PICK n \in H : \A m \in H : m <= n
    <2> HIDE DEF H
    <2> QED BY <1>5, TreeAssumption, GreatestNatural
  <1>7. PICK w \in W3 : w.price.at = n
    BY <1>6
  <1>8. ASSUME NEW v \in W, Better(v, w) PROVE FALSE
    <2>1. v \in W1
      BY <1>1, <1>2, <1>3, <1>7, <1>8 DEF Better
    <2>2. v \in W2
      BY <1>1, <1>2, <1>3, <1>7, <1>8, <2>1 DEF Better
    <2>3. v \in W3
      <3>1. (v.depth <= d /\ w.depth = d /\ v.hops = w.hops) \/ v.hops > w.hops
        BY <1>1, <1>3, <1>4, <1>7, <2>2
      <3> QED BY <1>1, <1>2, <1>3, <1>4, <1>7, <1>8, <2>1, <2>2 DEF Better
    <2>4. v.price.at <= w.price.at
      BY <1>5, <1>6, <1>7, <2>3
    <2> QED BY <1>1, <1>2, <1>3, <1>4, <1>7, <1>8, <2>1, <2>2, <2>3, <2>4 DEF Better
  <1> QED BY <1>7, <1>8

LEMMA GraphPriceIn ==
  ASSUME NEW A, Closed(A), NEW ctx \in [Token -> A \cup {None}],
         NEW edges \in SUBSET Edge, NEW t \in Token
  PROVE  GraphPrice(t, ctx, edges) \in A \cup {None}
  <1> DEFINE W == Ways(t, ctx, edges)
  <1>1. W \in SUBSET Way(A)
    <2> SUFFICES ASSUME NEW w \in W PROVE w \in Way(A)
      OBVIOUS
    <2>1. ASSUME NEW a \in Token, ctx[a] # None, NEW raw \in BOOLEAN
          PROVE  [ctx[a] EXCEPT !.raw = @ \/ raw] \in A
      <3>1. ctx[a] \in A /\ ctx[a].raw \in BOOLEAN
        BY <2>1 DEF Closed, Price
      <3>2. (ctx[a].raw \/ raw) \in BOOLEAN
        BY <3>1
      <3>3. /\ [ctx[a] EXCEPT !.raw = @ \/ raw] \in Price
            /\ [ctx[a] EXCEPT !.raw = @ \/ raw].at = ctx[a].at
        BY <3>1, <3>2 DEF Closed, Price
      <3> QED BY <3>1, <3>3 DEF Closed
    <2>2. CASE \E e \in edges : /\ e.from = t /\ ctx[e.to] # None
               /\ w = [hops |-> 1, depth |-> e.depth,
                       price |-> [ctx[e.to] EXCEPT !.raw = @ \/ e.raw]]
      BY <2>1, <2>2 DEF Way, Edge
    <2>3. CASE \E e, f \in edges : /\ ctx[f.to] # None
               /\ w = [hops |-> 2, depth |-> IF e.depth < f.depth THEN e.depth ELSE f.depth,
                       price |-> [ctx[f.to] EXCEPT !.raw = @ \/ (e.raw \/ f.raw)]]
      <3>1. PICK e \in edges, f \in edges : /\ ctx[f.to] # None
               /\ w = [hops |-> 2, depth |-> IF e.depth < f.depth THEN e.depth ELSE f.depth,
                       price |-> [ctx[f.to] EXCEPT !.raw = @ \/ (e.raw \/ f.raw)]]
        BY <2>3
      <3>2. e.raw \in BOOLEAN /\ f.raw \in BOOLEAN /\ f.to \in Token
            /\ (IF e.depth < f.depth THEN e.depth ELSE f.depth) \in {Depth[p] : p \in Pool}
        BY DEF Edge
      <3>3. (e.raw \/ f.raw) \in BOOLEAN
        BY <3>2
      <3> QED BY <2>1, <3>1, <3>2, <3>3 DEF Way
    <2>4. (\E e \in edges : /\ e.from = t /\ ctx[e.to] # None
               /\ w = [hops |-> 1, depth |-> e.depth,
                       price |-> [ctx[e.to] EXCEPT !.raw = @ \/ e.raw]])
          \/ (\E e, f \in edges : /\ ctx[f.to] # None
               /\ w = [hops |-> 2, depth |-> IF e.depth < f.depth THEN e.depth ELSE f.depth,
                       price |-> [ctx[f.to] EXCEPT !.raw = @ \/ (e.raw \/ f.raw)]])
      BY DEF Ways
    <2> QED BY <2>2, <2>3, <2>4
  <1>2. Way(A) \subseteq Way(Price)
    BY DEF Closed, Way
  <1>3. CASE ctx[t] # None /\ ~ctx[t].stale
    BY <1>3 DEF GraphPrice
  <1>4. CASE ~(ctx[t] # None /\ ~ctx[t].stale) /\ W = {}
    BY <1>4 DEF GraphPrice
  <1>5. CASE ~(ctx[t] # None /\ ~ctx[t].stale) /\ W # {}
    <2>1. \E w \in W : \A v \in W : ~Better(v, w)
      <3> HIDE DEF W
      <3> QED BY <1>1, <1>2, <1>5, BestWay
    <2>2. (CHOOSE w \in W : \A v \in W : ~Better(v, w)) \in W
      <3> HIDE DEF W
      <3> QED BY <2>1
    <2>3. GraphPrice(t, ctx, edges) = (CHOOSE w \in W : \A v \in W : ~Better(v, w)).price
      BY <1>5 DEF GraphPrice
    <2> HIDE DEF W
    <2> QED BY <1>1, <2>2, <2>3 DEF Way
  <1> QED BY <1>3, <1>4, <1>5
LEMMA EdgesAreEdges ==
  ASSUME NEW reg, NEW latest, NEW traded, NEW p \in Pool
  PROVE  /\ RawRatio(p, reg) \in BOOLEAN
         /\ ActionEdges(p, latest, reg) \subseteq Edge
         /\ BridgeEdges(traded, latest) \subseteq Edge
  <1>1. \A q \in Pool, raw \in BOOLEAN : BothWays(q, raw) \subseteq Edge
    BY MarketAssumption DEF BothWays, Edge
  <1>2. RawRatio(p, reg) \in BOOLEAN
    BY DEF RawRatio
  <1>3. ActionEdges(p, latest, reg) \subseteq Edge
    BY <1>1, <1>2 DEF ActionEdges
  <1>4. BridgeEdges(traded, latest) \subseteq Edge
    BY <1>1 DEF BridgeEdges
  <1> QED BY <1>2, <1>3, <1>4

(* A block that trades a stable token gives dollar prices of its own height. *)
HasDollar(b) == \E k \in TradeActions(b) : TokensOf(EventOf(k).pool) \cap Stable # {}

LEMMA TradeKeys ==
  ASSUME NEW b \in Block
  PROVE  /\ TradeActions(b) \subseteq KeysOf(b)
         /\ \A k \in TradeActions(b) : /\ k \in Key /\ k[1] = b /\ HeightOf(k) = Num[b]
                                       /\ EventOf(k).pool \in Pool
                                       /\ TokensOf(EventOf(k).pool) \subseteq Traded(b)
                                       /\ TokensOf(EventOf(k).pool) \subseteq Token
  <1>1. TradeActions(b) \subseteq KeysOf(b)
    BY DEF TradeActions
  <1>2. \A k \in TradeActions(b) : k \in Key /\ k[1] = b
    BY <1>1, Keys
  <1>3. \A k \in TradeActions(b) : EventOf(k).pool \in Pool /\ HeightOf(k) = Num[b]
    BY <1>2, Keys DEF Event, HeightOf
  <1>4. \A k \in TradeActions(b) : TokensOf(EventOf(k).pool) \subseteq Traded(b)
    BY DEF Traded
  <1>5. \A p \in Pool : TokensOf(p) \subseteq Token
    BY MarketAssumption DEF TokensOf
  <1> QED BY <1>1, <1>2, <1>3, <1>4, <1>5

LEMMA UsdPriceIn ==
  ASSUME NEW A, Closed(A), NEW ctx \in [Token -> A \cup {None}], NEW edges \in SUBSET Edge,
         NEW reg, NEW h, NEW p \in Pool, NEW t \in TokensOf(p),
         TokensOf(p) \cap Stable # {} => Dollar(h) \in A
  PROVE  UsdPrice(t, p, h, reg, ctx, edges) \in A \cup {None}
  <1>1. t \in Token
    BY MarketAssumption DEF TokensOf
  <1>2. CASE t \in Stable
    BY <1>2 DEF UsdPrice
  <1>3. CASE t \notin Stable /\ TokensOf(p) \cap Stable # {}
    <2> DEFINE q == [Dollar(h) EXCEPT !.raw = RawRatio(p, reg)]
    <2>1. Dollar(h) \in A /\ Dollar(h) \in Price
      BY <1>3 DEF Closed
    <2>2. q \in Price /\ q.at = Dollar(h).at
      BY <2>1, EdgesAreEdges DEF Price, Dollar
    <2>3. q \in A
      BY <2>1, <2>2 DEF Closed
    <2> QED BY <1>3, <2>3 DEF UsdPrice
  <1>4. CASE t \notin Stable /\ TokensOf(p) \cap Stable = {}
    BY <1>1, <1>4, GraphPriceIn DEF UsdPrice
  <1> QED BY <1>2, <1>3, <1>4

(* What the loop over a block's events has after the first i of them. *)
Candidate(A) == [token : Token, key : Key, price : A]
LoopInv(A, b, i, acc) ==
  /\ acc \in [ctx : [Token -> A \cup {None}], found : SUBSET Candidate(A)]
  /\ \A r \in acc.found : r.key[1] = b /\ r.key[2] <= i
  /\ \A q, r \in acc.found : q.token = r.token /\ q.key = r.key => q = r

LEMMA PriceTradeKeeps ==
  ASSUME NEW A, Closed(A), NEW b \in Block, HasDollar(b) => Dollar(Num[b]) \in A,
         NEW reg, NEW latest, NEW edges \in SUBSET Edge,
         NEW n \in Nat, <<b, n + 1>> \in TradeActions(b), NEW acc, LoopInv(A, b, n, acc)
  PROVE  LoopInv(A, b, n + 1, PriceTrade(acc, <<b, n + 1>>, reg, edges, latest))
  <1> DEFINE k == <<b, n + 1>>
             p == EventOf(k).pool
             price == TradePrices(k, HeightOf(k), reg, acc.ctx, edges, latest)
             new == PriceTrade(acc, k, reg, edges, latest)
             priced == {t \in TokensOf(p) : price[t] # None}
             rows == {[token |-> t, key |-> k, price |-> price[t]] : t \in priced}
  <1>1. /\ k \in Key /\ k[1] = b /\ k[2] = n + 1 /\ HeightOf(k) = Num[b] /\ p \in Pool
        /\ TokensOf(p) \subseteq Token
    BY TradeKeys
  <1>2. TokensOf(p) \cap Stable # {} => Dollar(HeightOf(k)) \in A
    BY <1>1 DEF HasDollar
  <1>3. price \in [TokensOf(p) -> A \cup {None}]
    <2>1. edges \cup ActionEdges(p, latest, reg) \in SUBSET Edge
      BY <1>1, EdgesAreEdges
    <2>2. acc.ctx \in [Token -> A \cup {None}]
      BY DEF LoopInv
    <2>3. \A t \in TokensOf(p) :
            UsdPrice(t, p, HeightOf(k), reg, acc.ctx, edges \cup ActionEdges(p, latest, reg))
              \in A \cup {None}
      BY <1>1, <1>2, <2>1, <2>2, UsdPriceIn
    <2> QED BY <2>3 DEF TradePrices
  <1>4. new = [ctx |-> [t \in Token |-> IF t \in priced THEN price[t] ELSE acc.ctx[t]],
               found |-> acc.found \cup rows]
    BY <1>3 DEF PriceTrade, Candidates
  <1>5. rows \subseteq Candidate(A)
        /\ \A r \in rows : r.key = k /\ r.price = price[r.token]
    BY <1>1, <1>3 DEF Candidate
  <1> HIDE DEF k, p, price, priced, rows, new
  <1>6. new.ctx \in [Token -> A \cup {None}]
    BY <1>1, <1>3, <1>4 DEF LoopInv, priced
  <1>7. new.found = acc.found \cup rows
    BY <1>4
  <1>8. new.found \in SUBSET Candidate(A)
    BY <1>5, <1>7 DEF LoopInv
  <1>9. \A r \in new.found : r.key[1] = b /\ r.key[2] <= n + 1
    <2>1. \A r \in acc.found : r.key[2] \in Nat
      BY Keys DEF LoopInv, Candidate
    <2> QED BY <1>1, <1>5, <1>7, <2>1 DEF LoopInv
  <1>10. \A r \in acc.found : r.key # k
    <2>1. \A r \in acc.found : r.key[2] \in Nat /\ r.key[2] <= n
      BY Keys DEF LoopInv, Candidate
    <2> QED BY <1>1, <2>1
  <1>11. \A q, r \in new.found : q.token = r.token /\ q.key = r.key => q = r
    <2>1. \A q, r \in rows : q.token = r.token => q = r
      BY <1>5 DEF Candidate
    <2> QED BY <1>5, <1>7, <1>10, <2>1 DEF LoopInv
  <1>12. new \in [ctx : [Token -> A \cup {None}], found : SUBSET Candidate(A)]
    BY <1>4, <1>6, <1>7, <1>8
  <1> QED BY <1>9, <1>11, <1>12 DEF LoopInv, new, k

(* The loop is what its recursive definition says. *)
LEMMA LoopUnfolds ==
  ASSUME NEW b \in Block, NEW reg, NEW prices, NEW latest
  PROVE  LET edges == BridgeEdges(Traded(b), latest)
             f == PricedUpTo(b, reg, prices, latest)
         IN  f = [i \in 0..Len(Events[b]) |->
                    IF i = 0 THEN StartOfBlock(b, prices)
                    ELSE IF <<b, i>> \in TradeActions(b)
                         THEN PriceTrade(f[i - 1], <<b, i>>, reg, edges, latest)
                    ELSE f[i - 1]]
  <1> DEFINE edges == BridgeEdges(Traded(b), latest)
             step(acc, i) == IF <<b, i>> \in TradeActions(b)
                             THEN PriceTrade(acc, <<b, i>>, reg, edges, latest) ELSE acc
             start == StartOfBlock(b, prices)
             S == {n \in Nat : \E g : g = [i \in 0..n |-> IF i = 0 THEN start
                                                          ELSE step(g[i - 1], i)]}
  <1>1. 0 \in S
    <2> HIDE DEF step, start
    <2>1. [i \in 0..0 |-> start] = [i \in 0..0 |-> IF i = 0 THEN start
                                    ELSE step([j \in 0..0 |-> start][i - 1], i)]
      OBVIOUS
    <2> QED BY <2>1
  <1>2. ASSUME NEW n \in Nat, n \in S PROVE n + 1 \in S
    <2> HIDE DEF step, start
    <2>1. PICK g : g = [i \in 0..n |-> IF i = 0 THEN start ELSE step(g[i - 1], i)]
      BY <1>2
    <2> DEFINE h == [i \in 0..(n + 1) |-> IF i = n + 1 THEN step(g[n], n + 1) ELSE g[i]]
    <2>2. \A i \in 0..(n + 1) : h[i] = IF i = 0 THEN start ELSE step(h[i - 1], i)
      <3>1. ASSUME NEW i \in 0..n PROVE h[i] = IF i = 0 THEN start ELSE step(h[i - 1], i)
        <4>1. h[i] = g[i] /\ (i # 0 => h[i - 1] = g[i - 1])
          OBVIOUS
        <4>2. g[i] = IF i = 0 THEN start ELSE step(g[i - 1], i)
          BY <2>1
        <4> QED BY <4>1, <4>2
      <3>2. h[n + 1] = step(h[n], n + 1)
        OBVIOUS
      <3> QED BY <3>1, <3>2
    <2>3. h = [i \in 0..(n + 1) |-> IF i = 0 THEN start ELSE step(h[i - 1], i)]
      BY <2>2
    <2> HIDE DEF h
    <2> QED BY <2>3
  <1>3. Nat \subseteq S
    <2> HIDE DEF S
    <2> QED BY <1>1, <1>2, NaturalInduction
  <1>4. Len(Events[b]) \in Nat
    BY MarketAssumption
  <1>5. PICK g : g = [i \in 0..Len(Events[b]) |-> IF i = 0 THEN start ELSE step(g[i - 1], i)]
    BY <1>3, <1>4
  <1> QED BY <1>5 DEF PricedUpTo

LEMMA PriceBlockKeeps ==
  ASSUME NEW A, Closed(A), NEW b \in Block, HasDollar(b) => Dollar(Num[b]) \in A,
         NEW reg, NEW prices, NEW latest,
         \A t \in Token : prices[t] # None => prices[t].price \in A
  PROVE  LoopInv(A, b, Len(Events[b]), PriceBlock(b, reg, prices, latest))
  <1> DEFINE edges == BridgeEdges(Traded(b), latest)
             f == PricedUpTo(b, reg, prices, latest)
             S == {n \in Nat : n <= Len(Events[b]) => LoopInv(A, b, n, f[n])}
  <1>1. Len(Events[b]) \in Nat
    BY MarketAssumption
  <1>2. \A i \in 0..Len(Events[b]) :
          f[i] = IF i = 0 THEN StartOfBlock(b, prices)
                 ELSE IF <<b, i>> \in TradeActions(b)
                      THEN PriceTrade(f[i - 1], <<b, i>>, reg, edges, latest)
                 ELSE f[i - 1]
    <2> HIDE DEF f
    <2>1. f = [i \in 0..Len(Events[b]) |->
                 IF i = 0 THEN StartOfBlock(b, prices)
                 ELSE IF <<b, i>> \in TradeActions(b)
                      THEN PriceTrade(f[i - 1], <<b, i>>, reg, edges, latest)
                 ELSE f[i - 1]]
      BY LoopUnfolds DEF f
    <2> QED BY <2>1
  <1>3. edges \in SUBSET Edge
    <2>1. CASE Pool = {}
      BY <2>1 DEF BridgeEdges
    <2>2. CASE Pool # {}
      BY <2>2, EdgesAreEdges
    <2> QED BY <2>1, <2>2
  <1>4. 0 \in S
    <2>1. f[0] = StartOfBlock(b, prices)
      <3> HIDE DEF f, edges
      <3>1. 0 \in 0..Len(Events[b])
        BY <1>1
      <3> QED BY <1>2, <3>1
    <2>2. StartOfBlock(b, prices).found = {}
      BY DEF StartOfBlock
    <2>3. \A t \in Token : t \in Traded(b) \cap Stable => Dollar(Num[b]) \in A
      BY DEF Traded, HasDollar
    <2>4. InitialContext(b, Traded(b), prices) \in [Token -> A \cup {None}]
      BY <2>3 DEF InitialContext
    <2>5. StartOfBlock(b, prices) \in [ctx : [Token -> A \cup {None}], found : SUBSET Candidate(A)]
      BY <2>4 DEF StartOfBlock
    <2> HIDE DEF f
    <2> QED BY <2>1, <2>2, <2>5 DEF LoopInv
  <1>5. ASSUME NEW n \in Nat, n \in S PROVE n + 1 \in S
    <2> HIDE DEF f, edges
    <2> SUFFICES ASSUME n + 1 <= Len(Events[b]) PROVE LoopInv(A, b, n + 1, f[n + 1])
      OBVIOUS
    <2>1. LoopInv(A, b, n, f[n])
      BY <1>1, <1>5
    <2>2. f[n + 1] = IF <<b, n + 1>> \in TradeActions(b)
                     THEN PriceTrade(f[n], <<b, n + 1>>, reg, edges, latest)
                     ELSE f[n]
      BY <1>1, <1>2
    <2>3. CASE <<b, n + 1>> \in TradeActions(b)
      BY <1>3, <2>1, <2>2, <2>3, PriceTradeKeeps
    <2>4. CASE <<b, n + 1>> \notin TradeActions(b)
      <3>1. \A r \in f[n].found : r.key[2] \in Nat
        BY <2>1, Keys DEF LoopInv, Candidate
      <3> QED BY <2>1, <2>2, <2>4, <3>1 DEF LoopInv
    <2> QED BY <2>3, <2>4
  <1>6. Nat \subseteq S
    <2> HIDE DEF S
    <2> QED BY <1>4, <1>5, NaturalInduction
  <1> HIDE DEF f
  <1> QED BY <1>1, <1>6 DEF PriceBlock, f
(***************************************************************************)
(* The tables                                                              *)
(***************************************************************************)

TicksOf(rows, t) == {r \in rows : r.token = t}
StatesOf(rows, p) == {r \in rows : r.pool = p}

Tables == [ticks : SUBSET Tick, prices : [Token -> Tick \cup {None}],
           history : SUBSET PoolRow, latest : [Pool -> PoolRow \cup {None}]]

OneBlock(rows) == \A q, r \in rows : HeightOf(q.key) = HeightOf(r.key) => q.key[1] = r.key[1]

Sound(m) ==
  /\ m \in Tables
  /\ OneBlock(m.ticks) /\ OneBlock(m.history)
  /\ \A q, r \in m.ticks : q.token = r.token /\ q.key = r.key => q = r
  /\ \A q, r \in m.history : q.pool = r.pool /\ q.key = r.key => q = r
  /\ \A t \in Token : m.prices[t] = LatestOf(TicksOf(m.ticks, t))
  /\ \A p \in Pool : m.latest[p] = LatestOf(StatesOf(m.history, p))

LEMMA SoundSeries ==
  ASSUME NEW m, Sound(m)
  PROVE  /\ \A t \in Token : Series(TicksOf(m.ticks, t))
         /\ \A p \in Pool : Series(StatesOf(m.history, p))
  <1>1. m.ticks \subseteq Tick /\ m.history \subseteq PoolRow
        /\ None \notin m.ticks /\ None \notin m.history
    BY RowAssumption DEF Sound, Tables
  <1>2. /\ \A r \in m.ticks : r.key \in Key
        /\ \A r \in m.history : r.key \in Key
    BY <1>1 DEF Tick, PoolRow
  <1> QED BY <1>1, <1>2 DEF Sound, Series, OneBlock, TicksOf, StatesOf

LEMMA SoundIsLatest ==
  ASSUME Sound(market) PROVE LatestIsNewest
  BY DEF Sound, LatestIsNewest, LatestOf, TicksOf, StatesOf

(* Of one token, or one pool: the height is cleared and the block's rows are added. *)
LEMMA ColumnAfterStore ==
  ASSUME NEW old, NEW new, NEW h \in Height, Series(old), Series(Without(old, h) \cup new),
         \A r \in new : HeightOf(r.key) = h
  PROVE  LET row == Restored(LatestOf(old), old, Without(old, h), h)
         IN  LatestOf(Without(old, h) \cup new) = IF new = {} THEN row ELSE Upsert(row, Newest(new))
  <1>1. Restored(LatestOf(old), old, Without(old, h), h) = LatestOf(Without(old, h))
    BY RestoredIsLatest
  <1>2. CASE new = {}
    BY <1>1, <1>2
  <1>3. CASE new # {}
    <2>1. \A r \in Without(old, h) : HeightOf(r.key) # h
      BY DEF Without
    <2> QED BY <1>1, <1>3, <2>1, UpsertIsLatest
  <1> QED BY <1>2, <1>3

LEMMA NewTicksAreSound ==
  ASSUME NEW A, Closed(A), NEW b \in Block, NEW n, NEW acc, LoopInv(A, b, n, acc)
  PROVE  /\ NewTicks(acc.found) \subseteq Tick
         /\ \A r \in NewTicks(acc.found) :
              /\ r.key[1] = b /\ r.price \in A
              /\ ~r.price.stale => HeightOf(r.key) - r.price.at <= StaleAfter
         /\ \A q, r \in NewTicks(acc.found) : q.token = r.token /\ q.key = r.key => q = r
  <1>1. \A c \in acc.found : c \in Candidate(A) /\ c.key[1] = b
    BY DEF LoopInv
  <1>2. ASSUME NEW c \in acc.found
        PROVE  LET r == PriceRow(c) IN
               /\ r \in Tick /\ r.key = c.key /\ r.token = c.token /\ r.price \in A
               /\ ~r.price.stale => HeightOf(r.key) - r.price.at <= StaleAfter
    <2> DEFINE old == HeightOf(c.key) - c.price.at > StaleAfter
               price == [at |-> c.price.at, stale |-> c.price.stale \/ old, raw |-> c.price.raw]
    <2>1. /\ c = [token |-> c.token, key |-> c.key, price |-> c.price]
          /\ c.token \in Token /\ c.key \in Key /\ c.price \in A
      BY <1>1 DEF Candidate
    <2>2. c.price \in Price /\ c.price.at \in Height
          /\ c.price = [at |-> c.price.at, stale |-> c.price.stale, raw |-> c.price.raw]
      BY <2>1 DEF Closed, Price
    <2>3. PriceRow(c) = [token |-> c.token, key |-> c.key, price |-> price]
      BY <2>1, <2>2 DEF PriceRow
    <2>4. price \in Price /\ price.at = c.price.at
      <3>1. old \in BOOLEAN /\ c.price.stale \in BOOLEAN /\ c.price.raw \in BOOLEAN
        BY <2>2 DEF Price
      <3>2. (c.price.stale \/ old) \in BOOLEAN
        BY <3>1
      <3> HIDE DEF old
      <3> QED BY <2>2, <3>1, <3>2 DEF Price
    <2>5. price \in A
      BY <2>1, <2>4 DEF Closed
    <2>6. ~price.stale => HeightOf(c.key) - c.price.at <= StaleAfter
      <3>1. HeightOf(c.key) \in Int /\ c.price.at \in Int /\ StaleAfter \in Int
        BY <2>1, <2>2, Keys, TreeAssumption, MarketAssumption
      <3>2. ~price.stale => ~old
        <4> HIDE DEF old
        <4> QED OBVIOUS
      <3> QED BY <3>1, <3>2
    <2> HIDE DEF price
    <2> QED BY <2>1, <2>3, <2>4, <2>5, <2>6 DEF Tick
  <1>3. \A r \in NewTicks(acc.found) : \E c \in acc.found : r = PriceRow(c)
    BY DEF NewTicks
  <1>4. \A c, d \in acc.found : c.token = d.token /\ c.key = d.key => c = d
    BY DEF LoopInv
  <1> QED BY <1>1, <1>2, <1>3, <1>4

LEMMA SnapshotsAreSound ==
  ASSUME NEW b \in Block, NEW ctx, NEW reg
  PROVE  /\ PoolRows(b, ctx, reg) \subseteq PoolRow
         /\ \A r \in PoolRows(b, ctx, reg) : r.key[1] = b
         /\ \A q, r \in PoolRows(b, ctx, reg) : q.key = r.key => q = r
  <1>1. PoolActions(b) \subseteq KeysOf(b)
    BY DEF PoolActions, KeysOf
  <1>2. \A k \in PoolActions(b) : k \in Key /\ k[1] = b /\ EventOf(k).pool \in Pool
    BY <1>1, Keys DEF Event
  <1>3. \A k \in PoolActions(b) : /\ Snapshot(k, ctx, reg) \in PoolRow
                                  /\ Snapshot(k, ctx, reg).key = k
    BY <1>2 DEF Snapshot, PoolRow
  <1>4. \A r \in PoolRows(b, ctx, reg) : \E k \in PoolActions(b) : r = Snapshot(k, ctx, reg)
    BY DEF PoolRows
  <1> QED BY <1>2, <1>3, <1>4

(* What storing block b with the registry K makes of the tables. *)
LEMMA StoreKeeps ==
  ASSUME NEW A, Closed(A), NEW b \in Block, HasDollar(b) => Dollar(Num[b]) \in A,
         NEW K, NEW m, Sound(m), \A r \in m.ticks : r.price \in A
  PROVE  LET s == StoreMarket(m, b, K) IN
         /\ Sound(s)
         /\ \A r \in s.ticks :
              \/ r \in m.ticks /\ HeightOf(r.key) # Num[b]
              \/ /\ r.key[1] = b /\ r.price \in A
                 /\ ~r.price.stale => HeightOf(r.key) - r.price.at <= StaleAfter
         /\ \A r \in s.history : (r \in m.history /\ HeightOf(r.key) # Num[b]) \/ r.key[1] = b
         /\ Without(m.ticks, Num[b]) \subseteq s.ticks
         /\ Without(m.history, Num[b]) \subseteq s.history
  <1> DEFINE h == Num[b]
             prices == ResetPrices(m.prices, m.ticks, h)
             latest == ResetPools(m.latest, m.history, h)
             priced == PriceBlock(b, K, prices, latest)
             ticks == NewTicks(priced.found)
             rows == PoolRows(b, priced.ctx, K)
             s == StoreMarket(m, b, K)
  <1>1. s = [ticks |-> Without(m.ticks, h) \cup ticks, prices |-> PersistPrices(prices, priced.found),
             history |-> Without(m.history, h) \cup rows, latest |-> PersistPools(latest, rows)]
    BY DEF StoreMarket
  <1>2. h \in Height
    BY TreeAssumption
  <1>3. /\ \A t \in Token : Series(TicksOf(m.ticks, t))
        /\ \A p \in Pool : Series(StatesOf(m.history, p))
    BY SoundSeries
  <1>4. /\ \A t \in Token : TicksOf(Without(m.ticks, h), t) = Without(TicksOf(m.ticks, t), h)
        /\ \A p \in Pool : StatesOf(Without(m.history, h), p) = Without(StatesOf(m.history, p), h)
    BY DEF TicksOf, StatesOf, Without
  <1>5. prices = [t \in Token |-> Restored(LatestOf(TicksOf(m.ticks, t)), TicksOf(m.ticks, t),
                                           Without(TicksOf(m.ticks, t), h), h)]
    BY <1>4 DEF ResetPrices, Sound, TicksOf
  <1>6. latest = [p \in Pool |-> Restored(LatestOf(StatesOf(m.history, p)), StatesOf(m.history, p),
                                          Without(StatesOf(m.history, p), h), h)]
    BY <1>4 DEF ResetPools, Sound, StatesOf
  <1>7. \A t \in Token : prices[t] # None => prices[t].price \in A
    <2> SUFFICES ASSUME NEW t \in Token, prices[t] # None PROVE prices[t].price \in A
      OBVIOUS
    <2>1. prices[t] = LatestOf(Without(TicksOf(m.ticks, t), h))
      <3> HIDE DEF prices, h
      <3> QED BY <1>2, <1>3, <1>5, RestoredIsLatest
    <2>2. Without(TicksOf(m.ticks, t), h) # {} /\ prices[t] = Newest(Without(TicksOf(m.ticks, t), h))
      BY <2>1 DEF LatestOf
    <2>3. Series(Without(TicksOf(m.ticks, t), h))
      BY <1>3, PartOfSeries DEF Without
    <2>4. Newest(Without(TicksOf(m.ticks, t), h)) \in Without(TicksOf(m.ticks, t), h)
      BY <2>2, <2>3, NewestOfSeries
    <2>5. Without(TicksOf(m.ticks, t), h) \subseteq m.ticks
      BY DEF Without, TicksOf
    <2> HIDE DEF prices
    <2> QED BY <2>2, <2>4, <2>5
  <1>8. LoopInv(A, b, Len(Events[b]), priced)
    <2> HIDE DEF prices, latest
    <2> QED BY <1>7, PriceBlockKeeps
  <1> HIDE DEF priced, prices, latest, s
  <1>9. /\ ticks \subseteq Tick
        /\ \A r \in ticks : /\ r.key[1] = b /\ r.price \in A
                            /\ ~r.price.stale => HeightOf(r.key) - r.price.at <= StaleAfter
        /\ \A q, r \in ticks : q.token = r.token /\ q.key = r.key => q = r
    BY <1>8, NewTicksAreSound
  <1>10. /\ rows \subseteq PoolRow
         /\ \A r \in rows : r.key[1] = b
         /\ \A q, r \in rows : q.key = r.key => q = r
    BY SnapshotsAreSound
  <1> HIDE DEF ticks, rows
  <1>11. /\ m.ticks \subseteq Tick /\ m.history \subseteq PoolRow
         /\ None \notin Tick /\ None \notin PoolRow
    BY RowAssumption DEF Sound, Tables
  <1>12. \A r \in Tick \cup PoolRow : r.key \in Key
    BY DEF Tick, PoolRow
  <1>13. \A r \in ticks \cup rows : HeightOf(r.key) = h
    BY <1>9, <1>10 DEF HeightOf
  <1>14. /\ s.ticks \subseteq Tick /\ s.history \subseteq PoolRow
         /\ OneBlock(s.ticks) /\ OneBlock(s.history)
         /\ \A q, r \in s.ticks : q.token = r.token /\ q.key = r.key => q = r
         /\ \A q, r \in s.history : q.pool = r.pool /\ q.key = r.key => q = r
    <2>1. s.ticks = Without(m.ticks, h) \cup ticks /\ s.history = Without(m.history, h) \cup rows
      BY <1>1
    <2>2. \A r \in Without(m.ticks, h) \cup Without(m.history, h) : HeightOf(r.key) # h
      BY DEF Without
    <2>3. Without(m.ticks, h) \subseteq m.ticks /\ Without(m.history, h) \subseteq m.history
      BY DEF Without
    <2>4. s.ticks \subseteq Tick /\ s.history \subseteq PoolRow
      BY <1>9, <1>10, <1>11, <2>1, <2>3
    <2>5. OneBlock(s.ticks) /\ OneBlock(s.history)
      <3> HIDE DEF h
      <3> QED BY <1>9, <1>10, <1>13, <2>1, <2>2, <2>3 DEF OneBlock, Sound
    <2>6. \A q, r \in s.ticks : q.token = r.token /\ q.key = r.key => q = r
      <3> HIDE DEF h
      <3> QED BY <1>9, <1>13, <2>1, <2>2, <2>3 DEF Sound
    <2>7. \A q, r \in s.history : q.pool = r.pool /\ q.key = r.key => q = r
      <3> HIDE DEF h
      <3> QED BY <1>10, <1>13, <2>1, <2>2, <2>3 DEF Sound
    <2> QED BY <2>4, <2>5, <2>6, <2>7
  <1>15. ASSUME NEW t \in Token
         PROVE  s.prices[t] = LatestOf(TicksOf(s.ticks, t)) /\ s.prices[t] \in Tick \cup {None}
    <2> DEFINE old == TicksOf(m.ticks, t)
               new == TicksOf(ticks, t)
    <2>1. TicksOf(s.ticks, t) = Without(old, h) \cup new
      BY <1>1, <1>4 DEF TicksOf
    <2>2. Series(TicksOf(s.ticks, t))
      BY <1>11, <1>12, <1>14 DEF Series, TicksOf, OneBlock
    <2>3. s.prices[t] = IF new = {} THEN prices[t] ELSE Upsert(prices[t], Newest(new))
      BY <1>1 DEF PersistPrices, TicksOf, ticks
    <2>4. prices[t] = Restored(LatestOf(old), old, Without(old, h), h)
      BY <1>5
    <2>5. \A r \in new : HeightOf(r.key) = h
      BY <1>13 DEF TicksOf
    <2>6. s.prices[t] = LatestOf(TicksOf(s.ticks, t))
      <3>1. Series(old)
        BY <1>3
      <3> HIDE DEF old, new, h
      <3> QED BY <1>2, <2>1, <2>2, <2>3, <2>4, <2>5, <3>1, ColumnAfterStore
    <2>7. TicksOf(s.ticks, t) \subseteq Tick
      BY <1>14 DEF TicksOf
    <2> QED BY <2>2, <2>6, <2>7, NewestOfSeries DEF LatestOf
  <1>16. ASSUME NEW p \in Pool
         PROVE  s.latest[p] = LatestOf(StatesOf(s.history, p)) /\ s.latest[p] \in PoolRow \cup {None}
    <2> DEFINE old == StatesOf(m.history, p)
               new == StatesOf(rows, p)
    <2>1. StatesOf(s.history, p) = Without(old, h) \cup new
      BY <1>1, <1>4 DEF StatesOf
    <2>2. Series(StatesOf(s.history, p))
      BY <1>11, <1>12, <1>14 DEF Series, StatesOf, OneBlock
    <2>3. s.latest[p] = IF new = {} THEN latest[p] ELSE Upsert(latest[p], Newest(new))
      BY <1>1 DEF PersistPools, StatesOf, UpsertPool
    <2>4. latest[p] = Restored(LatestOf(old), old, Without(old, h), h)
      BY <1>6
    <2>5. \A r \in new : HeightOf(r.key) = h
      BY <1>13 DEF StatesOf
    <2>6. s.latest[p] = LatestOf(StatesOf(s.history, p))
      <3>1. Series(old)
        BY <1>3
      <3> HIDE DEF old, new, h
      <3> QED BY <1>2, <2>1, <2>2, <2>3, <2>4, <2>5, <3>1, ColumnAfterStore
    <2>7. StatesOf(s.history, p) \subseteq PoolRow
      BY <1>14 DEF StatesOf
    <2> QED BY <2>2, <2>6, <2>7, NewestOfSeries DEF LatestOf
  <1>17. s \in Tables
    <2>1. s.prices = PersistPrices(prices, priced.found) /\ s.latest = PersistPools(latest, rows)
      BY <1>1
    <2>2. s.prices \in [Token -> Tick \cup {None}]
      BY <1>15, <2>1 DEF PersistPrices
    <2>3. s.latest \in [Pool -> PoolRow \cup {None}]
      BY <1>16, <2>1 DEF PersistPools
    <2> QED BY <1>1, <1>14, <2>2, <2>3 DEF Tables
  <1>18. Sound(s)
    BY <1>14, <1>15, <1>16, <1>17 DEF Sound
  <1>19. /\ \A r \in s.ticks :
              \/ r \in m.ticks /\ HeightOf(r.key) # Num[b]
              \/ /\ r.key[1] = b /\ r.price \in A
                 /\ ~r.price.stale => HeightOf(r.key) - r.price.at <= StaleAfter
         /\ \A r \in s.history : (r \in m.history /\ HeightOf(r.key) # Num[b]) \/ r.key[1] = b
    BY <1>1, <1>9, <1>10 DEF Without
  <1>20. Without(m.ticks, Num[b]) \subseteq s.ticks /\ Without(m.history, Num[b]) \subseteq s.history
    BY <1>1
  <1> QED BY <1>18, <1>19, <1>20 DEF s
(* Deleting rows by height and building the latest ones anew. *)
LEMMA CutKeeps ==
  ASSUME NEW m, Sound(m), NEW h, NEW extra
  PROVE  /\ Sound(CutMarket(m, h, extra))
         /\ CutMarket(m, h, extra).ticks \subseteq m.ticks
         /\ CutMarket(m, h, extra).history \subseteq m.history
  <1> DEFINE keep(rows) == {r \in rows : HeightOf(r.key) < h \/ r.key[1] \in extra}
             s == CutMarket(m, h, extra)
  <1>1. s = [ticks |-> keep(m.ticks), history |-> keep(m.history),
             prices |-> [t \in Token |-> LatestOf(TicksOf(keep(m.ticks), t))],
             latest |-> [p \in Pool |-> LatestOf(StatesOf(keep(m.history), p))]]
    BY DEF CutMarket, LatestOf, TicksOf, StatesOf
  <1>2. keep(m.ticks) \subseteq m.ticks /\ keep(m.history) \subseteq m.history
    OBVIOUS
  <1>3. m.ticks \subseteq Tick /\ m.history \subseteq PoolRow
    BY DEF Sound, Tables
  <1>4. \A t \in Token : /\ Series(TicksOf(m.ticks, t))
                         /\ TicksOf(keep(m.ticks), t) \subseteq TicksOf(m.ticks, t)
    BY SoundSeries DEF TicksOf
  <1>5. \A p \in Pool : /\ Series(StatesOf(m.history, p))
                        /\ StatesOf(keep(m.history), p) \subseteq StatesOf(m.history, p)
    BY SoundSeries DEF StatesOf
  <1> HIDE DEF keep, s
  <1>6. \A t \in Token : LatestOf(TicksOf(keep(m.ticks), t)) \in Tick \cup {None}
    <2> SUFFICES ASSUME NEW t \in Token PROVE LatestOf(TicksOf(keep(m.ticks), t)) \in Tick \cup {None}
      OBVIOUS
    <2>1. Series(TicksOf(keep(m.ticks), t))
      BY <1>4, PartOfSeries
    <2>2. TicksOf(keep(m.ticks), t) \subseteq Tick
      BY <1>2, <1>3 DEF TicksOf
    <2> QED BY <2>1, <2>2, NewestOfSeries DEF LatestOf
  <1>7. \A p \in Pool : LatestOf(StatesOf(keep(m.history), p)) \in PoolRow \cup {None}
    <2> SUFFICES ASSUME NEW p \in Pool
                 PROVE  LatestOf(StatesOf(keep(m.history), p)) \in PoolRow \cup {None}
      OBVIOUS
    <2>1. Series(StatesOf(keep(m.history), p))
      BY <1>5, PartOfSeries
    <2>2. StatesOf(keep(m.history), p) \subseteq PoolRow
      BY <1>2, <1>3 DEF StatesOf
    <2> QED BY <2>1, <2>2, NewestOfSeries DEF LatestOf
  <1>8. s \in Tables
    BY <1>1, <1>2, <1>3, <1>6, <1>7 DEF Tables
  <1>9. OneBlock(s.ticks) /\ OneBlock(s.history)
    BY <1>1, <1>2 DEF Sound, OneBlock
  <1>10. /\ \A q, r \in s.ticks : q.token = r.token /\ q.key = r.key => q = r
         /\ \A q, r \in s.history : q.pool = r.pool /\ q.key = r.key => q = r
    BY <1>1, <1>2 DEF Sound
  <1> QED BY <1>1, <1>2, <1>8, <1>9, <1>10 DEF Sound, s

(***************************************************************************)
(* The tables of a chain stored in order                                   *)
(***************************************************************************)

(* What is known of the lines of blocks: derived by induction on the tree from
   the equation they are defined by. *)
LEMMA Lines ==
  /\ Line \in [Block -> SUBSET Block]
  /\ \A b \in Block :
       /\ Line[b] = {b} \cup IF Parent[b] = None THEN {} ELSE Line[Parent[b]]
       /\ \A n \in 0..Num[b] : \E c \in Line[b] : Num[c] = n
       /\ \A c \in Line[b] : Num[c] <= Num[b] /\ Line[c] \subseteq Line[b]
       /\ \A c, d \in Line[b] : /\ Num[c] = Num[d] => c = d
                                /\ Num[c] <= Num[d] => c \in Line[d]
  <1>1. IsTree(Block, Num, Parent, None)
    BY TreeAssumption DEF IsTree
  <1>2. IsLine(Block, Parent, None, Line)
    BY LineAssumption DEF IsLine
  <1>3. Line \in [Block -> SUBSET Block]
    BY LineAssumption
  <1>4. \A b \in Block :
          Line[b] = {b} \cup IF Parent[b] = None THEN {} ELSE Line[Parent[b]]
    BY LineAssumption
  <1>5. \A b \in Block :
       /\ \A n \in 0..Num[b] : \E c \in Line[b] : Num[c] = n
       /\ \A c \in Line[b] : Num[c] <= Num[b] /\ Line[c] \subseteq Line[b]
       /\ \A c, d \in Line[b] : /\ Num[c] = Num[d] => c = d
                                /\ Num[c] <= Num[d] => c \in Line[d]
    BY <1>1, <1>2, LineOfTree
  <1> QED BY <1>3, <1>4, <1>5

LEMMA ReplayedUnfolds ==
  ASSUME NEW K, NEW b \in Block
  PROVE  Replayed(K)[b] = IF Parent[b] = None THEN NoMarket
                          ELSE StoreMarket(Replayed(K)[Parent[b]], b, K[b])
  <1> DEFINE Low(n) == {c \in Block : Num[c] <= n}
             next(g, c) == IF Parent[c] = None THEN NoMarket
                           ELSE StoreMarket(g[Parent[c]], c, K[c])
             S == {n \in Nat : \E g : g = [c \in Low(n) |-> next(g, c)]}
  <1>1. \A c \in Block : /\ Num[c] \in Nat /\ Num[c] <= MaxHeight
                         /\ Parent[c] # None =>
                              Parent[c] \in Block /\ Num[c] = Num[Parent[c]] + 1
    BY TreeAssumption
  <1>2. 0 \in S
    <2>1. [c \in Low(0) |-> NoMarket] = [c \in Low(0) |-> next([d \in Low(0) |-> NoMarket], c)]
      BY <1>1
    <2> HIDE DEF next
    <2> QED BY <2>1
  <1>3. ASSUME NEW n \in Nat, n \in S PROVE n + 1 \in S
    <2>1. PICK g : g = [c \in Low(n) |-> next(g, c)]
      BY <1>3
    <2> DEFINE h == [c \in Low(n + 1) |-> IF c \in Low(n) THEN g[c] ELSE next(g, c)]
    <2>2. ASSUME NEW c \in Low(n + 1) PROVE h[c] = next(h, c)
      <3>1. Parent[c] # None => Parent[c] \in Low(n) /\ Parent[c] \in Low(n + 1)
        BY <1>1
      <3> HIDE DEF Low
      <3>2. Parent[c] # None => h[Parent[c]] = g[Parent[c]]
        BY <3>1
      <3> HIDE DEF h
      <3>3. next(h, c) = next(g, c)
        BY <3>2
      <3> HIDE DEF next
      <3>4. h[c] = next(g, c)
        <4>1. CASE c \in Low(n)
          <5>1. g[c] = next(g, c)
            BY <2>1, <4>1
          <5> QED BY <4>1, <5>1 DEF h
        <4>2. CASE c \notin Low(n)
          BY <4>2 DEF h
        <4> QED BY <4>1, <4>2
      <3> QED BY <3>3, <3>4
    <2>3. h = [c \in Low(n + 1) |-> next(h, c)]
      <3> HIDE DEF next, Low
      <3> QED BY <2>2
    <2> HIDE DEF h
    <2> QED BY <2>3
  <1>4. Nat \subseteq S
    <2> HIDE DEF S
    <2> QED BY <1>2, <1>3, NaturalInduction
  <1>5. MaxHeight \in S /\ Low(MaxHeight) = Block
    BY <1>1, <1>4, TreeAssumption
  <1>6. PICK g : g = [c \in Block |-> next(g, c)]
    BY <1>5
  <1>7. Replayed(K) = [c \in Block |-> IF Parent[c] = None THEN NoMarket
                                       ELSE StoreMarket(Replayed(K)[Parent[c]], c, K[c])]
    BY <1>6 DEF Replayed
  <1> HIDE DEF S, Low
  <1> QED BY <1>7

(* The heights a price may have its origin at, and what is so of the tables of a chain *)
Origins(b) == {p \in Price : \E c \in Line[b] : Num[c] = p.at /\ HasDollar(c)}

OnLine(m, b) ==
  /\ Sound(m)
  /\ \A r \in m.history : r.key[1] \in Line[b]
  /\ \A r \in m.ticks : /\ r.key[1] \in Line[b] /\ r.price \in Origins(b)
                        /\ ~r.price.stale => HeightOf(r.key) - r.price.at <= StaleAfter

LEMMA OriginsClosed == ASSUME NEW b \in Block PROVE Closed(Origins(b))
  BY DEF Closed, Origins

(* The next block of a chain, stored *)
LEMMA StoreNext ==
  ASSUME NEW b \in Block, Parent[b] # None, NEW K, NEW m, OnLine(m, Parent[b])
  PROVE  LET s == StoreMarket(m, b, K) IN
         /\ OnLine(s, b)
         /\ \A h \in Height : h <= Num[b] =>
              CutMarket(s, h, {}) = CutMarket(m, h, {})
  <1> DEFINE s == StoreMarket(m, b, K)
             A == Origins(b)
  <1>1. Parent[b] \in Block /\ Num[b] \in Nat /\ Num[Parent[b]] < Num[b]
    BY TreeAssumption
  <1>2. Line[b] = {b} \cup Line[Parent[b]] /\ b \in Line[b]
    BY LineAssumption
  <1>3. Closed(A)
    BY OriginsClosed
  <1>4. HasDollar(b) => Dollar(Num[b]) \in A
    BY <1>2, TreeAssumption DEF Origins, Dollar, Price
  <1>5. Sound(m) /\ \A r \in m.ticks : r.price \in A
    BY <1>2 DEF OnLine, Origins
  <1> HIDE DEF A, s
  <1>6. /\ Sound(s)
        /\ \A r \in s.ticks :
             \/ r \in m.ticks /\ HeightOf(r.key) # Num[b]
             \/ /\ r.key[1] = b /\ r.price \in A
                /\ ~r.price.stale => HeightOf(r.key) - r.price.at <= StaleAfter
        /\ \A r \in s.history : (r \in m.history /\ HeightOf(r.key) # Num[b]) \/ r.key[1] = b
        /\ Without(m.ticks, Num[b]) \subseteq s.ticks
        /\ Without(m.history, Num[b]) \subseteq s.history
    BY <1>3, <1>4, <1>5, StoreKeeps DEF s
  <1>7. OnLine(s, b)
    <2>1. \A r \in s.history : r.key[1] \in Line[b]
      BY <1>2, <1>6 DEF OnLine
    <2>2. ASSUME NEW r \in s.ticks
          PROVE  /\ r.key[1] \in Line[b] /\ r.price \in A
                 /\ ~r.price.stale => HeightOf(r.key) - r.price.at <= StaleAfter
      BY <1>2, <1>5, <1>6 DEF OnLine
    <2> QED BY <1>6, <2>1, <2>2 DEF OnLine, A
  <1>8. ASSUME NEW h \in Height, h <= Num[b] PROVE CutMarket(s, h, {}) = CutMarket(m, h, {})
    <2> DEFINE keep(rows) == {r \in rows : HeightOf(r.key) < h}
    <2>1. \A r \in s.ticks \cup s.history \cup m.ticks \cup m.history :
            HeightOf(r.key) \in Nat /\ (r.key[1] = b => HeightOf(r.key) = Num[b])
      BY <1>5, <1>6, Keys DEF Sound, Tables, Tick, PoolRow, HeightOf
    <2>2. h \in Int /\ Num[b] \in Int
      BY <1>1, TreeAssumption
    <2>3. keep(s.ticks) = keep(m.ticks)
      BY <1>6, <1>8, <2>1, <2>2 DEF Without
    <2>4. keep(s.history) = keep(m.history)
      BY <1>6, <1>8, <2>1, <2>2 DEF Without
    <2>5. ASSUME NEW x
          PROVE  CutMarket(x, h, {}) =
                   [ticks |-> keep(x.ticks), history |-> keep(x.history),
                    prices |-> [t \in Token |-> LatestOf(TicksOf(keep(x.ticks), t))],
                    latest |-> [p \in Pool |-> LatestOf(StatesOf(keep(x.history), p))]]
      BY DEF CutMarket, LatestOf, TicksOf, StatesOf
    <2> HIDE DEF keep
    <2> QED BY <2>3, <2>4, <2>5
  <1> QED BY <1>7, <1>8 DEF s

LEMMA ReplayedOnLine == ASSUME NEW K PROVE \A b \in Block : OnLine(Replayed(K)[b], b)
  <1> DEFINE S == {b \in Block : OnLine(Replayed(K)[b], b)}
  <1>1. ASSUME NEW b \in Block, Parent[b] = None PROVE b \in S
    <2>1. Replayed(K)[b] = NoMarket
      BY <1>1, ReplayedUnfolds
    <2>2. \A t \in Token : TicksOf({}, t) = {}
      BY DEF TicksOf
    <2>3. \A p \in Pool : StatesOf({}, p) = {}
      BY DEF StatesOf
    <2>4. Sound(NoMarket)
      BY <2>2, <2>3 DEF Sound, NoMarket, Tables, OneBlock, LatestOf
    <2> QED BY <2>1, <2>4 DEF OnLine, NoMarket
  <1>2. ASSUME NEW b \in Block, Parent[b] \in S PROVE b \in S
    <2>1. Parent[b] # None /\ OnLine(Replayed(K)[Parent[b]], Parent[b])
      BY <1>2, TreeAssumption
    <2>2. Replayed(K)[b] = StoreMarket(Replayed(K)[Parent[b]], b, K[b])
      BY <2>1, ReplayedUnfolds
    <2> QED BY <2>1, <2>2, StoreNext
  <1>3. Block \subseteq S
    <2>1. IsTree(Block, Num, Parent, None)
      BY TreeAssumption DEF IsTree
    <2> HIDE DEF S
    <2> QED BY <1>1, <1>2, <2>1, TreeInduction
  <1> QED BY <1>3

(* Cutting a chain's tables back to one of its blocks leaves that block's tables. *)
LEMMA ReplayedCut ==
  ASSUME NEW K
  PROVE  \A c \in Block : \A a \in Line[c] :
           CutMarket(Replayed(K)[c], Num[a] + 1, {}) = Replayed(K)[a]
  <1> DEFINE U == Replayed(K)
             Fits(c) == \A a \in Line[c] : CutMarket(U[c], Num[a] + 1, {}) = U[a]
             S == {c \in Block : Fits(c)}
  <1>1. \A b \in Block : OnLine(U[b], b)
    BY ReplayedOnLine
  <1> HIDE DEF U
  <1>2. ASSUME NEW c \in Block PROVE CutMarket(U[c], Num[c] + 1, {}) = U[c]
    <2> DEFINE m == U[c]
               h == Num[c] + 1
               keep(rows) == {r \in rows : HeightOf(r.key) < h}
    <2>1. OnLine(m, c) /\ m \in Tables
      BY <1>1 DEF OnLine, Sound
    <2>2. \A d \in Line[c] : Num[d] <= Num[c] /\ Num[d] \in Nat /\ Num[c] \in Nat
      BY Lines, TreeAssumption
    <2> HIDE DEF m
    <2>3. keep(m.ticks) = m.ticks /\ keep(m.history) = m.history
      BY <2>1, <2>2 DEF OnLine, HeightOf
    <2>4. CutMarket(m, h, {}) =
            [ticks |-> keep(m.ticks), history |-> keep(m.history),
             prices |-> [t \in Token |-> LatestOf(TicksOf(keep(m.ticks), t))],
             latest |-> [p \in Pool |-> LatestOf(StatesOf(keep(m.history), p))]]
      BY DEF CutMarket, LatestOf, TicksOf, StatesOf
    <2> HIDE DEF keep
    <2>5. m.prices = [t \in Token |-> LatestOf(TicksOf(m.ticks, t))]
          /\ m.latest = [p \in Pool |-> LatestOf(StatesOf(m.history, p))]
      BY <2>1 DEF OnLine, Sound, Tables
    <2>6. m = [ticks |-> m.ticks, history |-> m.history, prices |-> m.prices, latest |-> m.latest]
      BY <2>1 DEF Tables
    <2> QED BY <2>3, <2>4, <2>5, <2>6 DEF m
  <1>3. ASSUME NEW c \in Block, Parent[c] = None PROVE c \in S
    <2>1. Line[c] = {c}
      BY <1>3, LineAssumption
    <2> QED BY <1>2, <2>1
  <1>4. ASSUME NEW c \in Block, Parent[c] \in S PROVE c \in S
    <2> DEFINE p == Parent[c]
    <2>1. /\ p \in Block /\ p # None /\ Num[c] = Num[p] + 1 /\ Num[p] \in Nat /\ Num[c] \in Height
          /\ Line[c] = {c} \cup Line[p]
      BY <1>4, TreeAssumption, LineAssumption
    <2>2. U[c] = StoreMarket(U[p], c, K[c])
      BY <2>1, ReplayedUnfolds DEF U
    <2>3. ASSUME NEW a \in Line[p] PROVE CutMarket(U[c], Num[a] + 1, {}) = U[a]
      <3>1. Num[a] <= Num[p] /\ a \in Block
        BY <2>1, Lines
      <3>2. Num[a] + 1 \in Height /\ Num[a] + 1 <= Num[c]
        <4>1. Num[a] \in Nat /\ MaxHeight \in Nat
          BY <3>1, TreeAssumption
        <4> QED BY <2>1, <3>1, <4>1
      <3>3. CutMarket(U[c], Num[a] + 1, {}) = CutMarket(U[p], Num[a] + 1, {})
        BY <1>1, <2>1, <2>2, <3>2, StoreNext
      <3> QED BY <1>4, <3>3
    <2> QED BY <1>2, <2>1, <2>3
  <1>5. Block \subseteq S
    <2>1. IsTree(Block, Num, Parent, None)
      BY TreeAssumption DEF IsTree
    <2> HIDE DEF S
    <2> QED BY <1>3, <1>4, <2>1, TreeInduction
  <1> QED BY <1>5 DEF U

(* Only the registries of the blocks on the chain matter. *)
LEMMA ReplayedAgrees ==
  ASSUME NEW K, NEW L
  PROVE  \A c \in Block : (\A b \in Line[c] : K[b] = L[b]) => Replayed(K)[c] = Replayed(L)[c]
  <1> DEFINE S == {c \in Block : (\A b \in Line[c] : K[b] = L[b]) => Replayed(K)[c] = Replayed(L)[c]}
  <1>1. ASSUME NEW c \in Block, Parent[c] = None \/ Parent[c] \in S PROVE c \in S
    <2>1. /\ Replayed(K)[c] = IF Parent[c] = None THEN NoMarket
                              ELSE StoreMarket(Replayed(K)[Parent[c]], c, K[c])
          /\ Replayed(L)[c] = IF Parent[c] = None THEN NoMarket
                              ELSE StoreMarket(Replayed(L)[Parent[c]], c, L[c])
      BY ReplayedUnfolds
    <2>2. Line[c] = {c} \cup IF Parent[c] = None THEN {} ELSE Line[Parent[c]]
      BY LineAssumption
    <2> QED BY <1>1, <2>1, <2>2
  <1>2. Block \subseteq S
    <2>1. IsTree(Block, Num, Parent, None)
      BY TreeAssumption DEF IsTree
    <2> HIDE DEF S
    <2> QED BY <1>1, <2>1, TreeInduction
  <1> QED BY <1>2
(***************************************************************************)
(* The tables in every reachable state                                     *)
(***************************************************************************)

TablesInv ==
  /\ cp \in Block
  /\ reading \in Reading \cup {None}
  /\ known \subseteq Token
  /\ knownAt \in [Block -> SUBSET Token]
  /\ incident \subseteq Height /\ stuck \subseteq Height
  /\ rewinds \in 0..MaxRewinds /\ strays \in 0..MaxStrays
  /\ Sound(market)
  /\ strays = 0 => market = Replayed(knownAt)[cp]

LEMMA AnyPrice == Closed(Price) /\ \A b \in Block : Dollar(Num[b]) \in Price
  BY TreeAssumption DEF Closed, Dollar, Price

LEMMA StoreIsSound ==
  ASSUME NEW m, Sound(m), NEW b \in Block, NEW K PROVE Sound(StoreMarket(m, b, K))
  <1>1. \A r \in m.ticks : r.price \in Price
    BY DEF Sound, Tables, Tick
  <1> QED BY <1>1, AnyPrice, StoreKeeps

LEMMA InitTables == ASSUME Init PROVE TablesInv
  <1>1. Replayed(knownAt)[Root] = NoMarket
    BY ReplayedUnfolds, TreeAssumption
  <1>2. Sound(NoMarket)
    BY <1>1, ReplayedOnLine, TreeAssumption DEF OnLine
  <1> QED BY <1>1, <1>2, TreeAssumption, BoundsAssumption DEF Init, TablesInv

LEMMA CommitKeepsTables == ASSUME TablesInv, CommitBlock PROVE TablesInv'
  <1> DEFINE b == reading.block
             K == reading.known
  <1>1. b \in Block /\ K \in SUBSET Token /\ Parent[b] = cp /\ cp \in Block /\ Parent[b] # None
    BY TreeAssumption DEF TablesInv, CommitBlock, Reading
  <1>2. /\ cp' = b /\ reading' = None /\ known' = known /\ incident' = incident
        /\ stuck' = stuck
        /\ rewinds' = rewinds /\ strays' = strays
        /\ market' = StoreMarket(market, b, K) /\ knownAt' = [knownAt EXCEPT ![b] = K]
    BY DEF CommitBlock, StoredRows
  <1> HIDE DEF b, K
  <1>3. Sound(market')
    BY <1>1, <1>2, StoreIsSound DEF TablesInv
  <1>4. knownAt' \in [Block -> SUBSET Token] /\ knownAt'[b] = K
        /\ \A c \in Block \ {b} : knownAt'[c] = knownAt[c]
    BY <1>1, <1>2 DEF TablesInv
  <1>5. ASSUME strays = 0 PROVE market' = Replayed(knownAt')[cp']
    <2>1. Replayed(knownAt')[b] = StoreMarket(Replayed(knownAt')[cp], b, K)
      BY <1>1, <1>4, ReplayedUnfolds
    <2>2. \A c \in Line[cp] : c \in Block /\ c # b
      <3>1. \A c \in Line[cp] : c \in Block /\ Num[c] <= Num[cp]
        BY <1>1, Lines
      <3>2. Num[b] = Num[cp] + 1 /\ Num[cp] \in Nat
        BY <1>1, TreeAssumption
      <3> QED BY <3>1, <3>2
    <2>3. Replayed(knownAt')[cp] = Replayed(knownAt)[cp]
      <3>1. \A c \in Line[cp] : knownAt'[c] = knownAt[c]
        BY <1>4, <2>2
      <3> QED BY <1>1, <3>1, ReplayedAgrees
    <2> QED BY <1>2, <1>5, <2>1, <2>3 DEF TablesInv
  <1> QED BY <1>1, <1>2, <1>3, <1>4, <1>5 DEF TablesInv

LEMMA RewindKeepsTables == ASSUME TablesInv, NEW a \in Block, Rewind(a) PROVE TablesInv'
  <1>1. /\ cp' = a /\ reading' = reading /\ known' = known /\ knownAt' = knownAt
        /\ incident' = (Num[a] + 1)..Num[cp] /\ stuck' = stuck \cup incident
        /\ rewinds' = rewinds + 1 /\ rewinds < MaxRewinds
        /\ strays' = strays /\ market' = CutMarket(market, Num[a] + 1, {})
        /\ a \in Line[cp]
    BY DEF Rewind
  <1>2. incident' \subseteq Height /\ stuck' \subseteq Height
    BY <1>1, TreeAssumption DEF TablesInv
  <1>3. rewinds' \in 0..MaxRewinds
    BY <1>1, BoundsAssumption DEF TablesInv
  <1>4. Sound(market')
    BY <1>1, CutKeeps DEF TablesInv
  <1>5. strays = 0 => market' = Replayed(knownAt)[a]
    BY <1>1, ReplayedCut DEF TablesInv
  <1> QED BY <1>1, <1>2, <1>3, <1>4, <1>5 DEF TablesInv

LEMMA StrayKeepsTables == ASSUME TablesInv, NEW a \in Block, RewindPastCommit(a) PROVE TablesInv'
  <1>1. /\ cp' = a /\ reading' = None /\ known' = known /\ knownAt' = knownAt
        /\ incident' = (Num[a] + 1)..Num[cp] /\ stuck' = stuck \cup incident
        /\ rewinds' = rewinds + 1 /\ rewinds < MaxRewinds
        /\ strays' = strays + 1 /\ strays < MaxStrays
        /\ market' = CutMarket(StoreMarket(market, reading.block, reading.known), Num[a] + 1,
                               {reading.block})
    BY DEF RewindPastCommit
  <1>2. reading.block \in Block
    BY DEF TablesInv, RewindPastCommit, Reading
  <1>3. incident' \subseteq Height /\ stuck' \subseteq Height
    BY <1>1, TreeAssumption DEF TablesInv
  <1>4. rewinds' \in 0..MaxRewinds /\ strays' \in 0..MaxStrays /\ strays' # 0
    BY <1>1, BoundsAssumption DEF TablesInv
  <1>5. Sound(market')
    BY <1>1, <1>2, StoreIsSound, CutKeeps DEF TablesInv
  <1> QED BY <1>1, <1>3, <1>4, <1>5 DEF TablesInv

LEMMA StepKeepsTables == ASSUME TablesInv, [Next]_vars PROVE TablesInv'
  <1>1. ASSUME NEW b \in Block, BeginBlock(b) PROVE TablesInv'
    BY <1>1 DEF TablesInv, BeginBlock, Reading
  <1>2. CASE DropBlock
    BY <1>2 DEF TablesInv, DropBlock
  <1>3. CASE EndReplay
    BY <1>3 DEF TablesInv, EndReplay
  <1>4. ASSUME NEW t \in Token, ResolveDecimals(t) PROVE TablesInv'
    BY <1>4 DEF TablesInv, ResolveDecimals
  <1>5. CASE UNCHANGED vars
    BY <1>5 DEF TablesInv, vars
  <1> QED BY <1>1, <1>2, <1>3, <1>4, <1>5, CommitKeepsTables, RewindKeepsTables,
             StrayKeepsTables DEF Next

LEMMA TablesAlways == Spec => []TablesInv
  <1>1. Init => TablesInv
    BY InitTables
  <1>2. TablesInv /\ [Next]_vars => TablesInv'
    BY StepKeepsTables
  <1> QED BY <1>1, <1>2, PTL DEF Spec

(* The latest price of a token and the latest state of a pool are the newest rows of
   their histories, for any sequence of commits, rewinds and stray commits. *)
THEOREM LatestStaysNewest == Spec => []LatestIsNewest
  <1>1. TablesInv => LatestIsNewest
    BY SoundIsLatest DEF TablesInv
  <1> QED BY <1>1, TablesAlways, PTL

(* The tables are those of the stored chain stored once, block after block, with what
   was known of the tokens at each commit: rewinds leave no trace. *)
THEOREM RewindsStayInvisible == Spec => []RewindIsInvisible
  <1>1. TablesInv => RewindIsInvisible
    BY DEF TablesInv, RewindIsInvisible
  <1> QED BY <1>1, TablesAlways, PTL

(* Every price goes back to a trade against a stable token in a block of the stored
   chain, and is marked fresh only within the allowed age of that block. *)
THEOREM PricesKeepAnOrigin == Spec => []PricesHaveAnOrigin
  <1>1. TablesInv => PricesHaveAnOrigin
    <2> SUFFICES ASSUME TablesInv, strays = 0, NEW r \in market.ticks
                 PROVE  /\ r.key[1] \in Line[cp]
                        /\ ~r.price.stale => HeightOf(r.key) - r.price.at <= StaleAfter
                        /\ \E b \in Line[cp] : Num[b] = r.price.at /\ HasDollar(b)
      BY DEF PricesHaveAnOrigin, HasDollar
    <2>1. OnLine(market, cp)
      BY ReplayedOnLine DEF TablesInv
    <2> QED BY <2>1 DEF OnLine, Origins
  <1> QED BY <1>1, TablesAlways, PTL
(***************************************************************************)
(* The candles.  First, what sorting a bucket's trades gives.              *)
(***************************************************************************)

(* Trades of one block per height *)
Rows(rows) ==
  /\ rows \subseteq Key /\ IsFiniteSet(rows)
  /\ \A k, l \in rows : HeightOf(k) = HeightOf(l) => k[1] = l[1]

LEMMA PartOfRows == ASSUME NEW rows, Rows(rows), NEW part \in SUBSET rows PROVE Rows(part)
  BY FS_Subset DEF Rows

LEMMA ByPositionOrders ==
  ASSUME NEW rows, Rows(rows)
  PROVE  /\ ByPosition(rows) \in Seq(Key)
         /\ Len(ByPosition(rows)) = Cardinality(rows)
         /\ Range(ByPosition(rows)) = rows
         /\ rows # {} => ByPosition(rows) # <<>> /\ Last(ByPosition(rows)) \in rows
  <1> DEFINE below == [k \in rows |-> {l \in rows : Before(l, k)}]
             place == [k \in rows |-> Cardinality(below[k])]
             s == ByPosition(rows)
             n == Cardinality(rows)
  <1>1. \A k \in rows : /\ k = <<k[1], k[2]>> /\ k[2] \in Int
                        /\ HeightOf(k) \in Int /\ EventOf(k).tx \in Int
    BY Keys, TreeAssumption DEF Rows, Event
  <1>2. \A k, l \in rows : l \in below[k] <=> Before(l, k)
    OBVIOUS
  <1>3. below \in [rows -> SUBSET rows]
    OBVIOUS
  <1>4. /\ \A x \in rows : x \notin below[x]
        /\ \A x, y, z \in rows : x \in below[y] /\ y \in below[z] => x \in below[z]
    <2> HIDE DEF below
    <2>1. \A x \in rows : ~Before(x, x)
      BY <1>1 DEF Before
    <2>2. \A x, y, z \in rows : Before(x, y) /\ Before(y, z) => Before(x, z)
      BY <1>1 DEF Before
    <2> QED BY <1>2, <2>1, <2>2
  <1>5. IsFiniteSet(rows) /\ n \in Nat
    BY FS_CardinalityType DEF Rows
  <1>6. /\ \A x \in rows : place[x] \in 0..(n - 1)
        /\ \A x, y \in rows : place[x] = place[y] => x = y
        /\ \A i \in 0..(n - 1) : \E x \in rows : place[x] = i
    <2> HIDE DEF below
    <2>1. ASSUME NEW x \in rows, NEW y \in rows, ~Before(x, y), ~Before(y, x) PROVE x = y
      <3>1. x[2] = y[2] /\ HeightOf(x) = HeightOf(y)
        BY <1>1, <2>1 DEF Before
      <3>2. x[1] = y[1]
        BY <3>1 DEF Rows
      <3> QED BY <1>1, <3>1, <3>2
    <2>2. \A x, y \in rows : x = y \/ x \in below[y] \/ y \in below[x]
      BY <1>2, <2>1
    <2> QED BY <1>3, <1>4, <1>5, <2>2, Places
  <1>7. \A k \in rows : Cardinality({l \in rows : Before(l, k)}) = place[k]
    OBVIOUS
  <1> HIDE DEF place, below
  <1>8. s = [i \in 1..n |-> CHOOSE k \in rows : Cardinality({l \in rows : Before(l, k)}) = i - 1]
    BY DEF ByPosition
  <1> HIDE DEF s, n
  <1>9. ASSUME NEW i \in 1..n PROVE s[i] \in rows /\ place[s[i]] = i - 1
    <2>1. i - 1 \in 0..(n - 1)
      BY <1>5
    <2>2. \E k \in rows : Cardinality({l \in rows : Before(l, k)}) = i - 1
      BY <1>6, <1>7, <2>1
    <2>3. s[i] = CHOOSE k \in rows : Cardinality({l \in rows : Before(l, k)}) = i - 1
      BY <1>8
    <2>4. s[i] \in rows /\ Cardinality({l \in rows : Before(l, s[i])}) = i - 1
      BY <2>2, <2>3
    <2> QED BY <1>7, <2>4
  <1>10. ASSUME NEW k \in rows PROVE \E i \in 1..n : s[i] = k
    <2>1. place[k] + 1 \in 1..n
      BY <1>5, <1>6
    <2>2. place[s[place[k] + 1]] = place[k] /\ s[place[k] + 1] \in rows
      BY <1>5, <1>6, <1>9, <2>1
    <2> QED BY <1>6, <2>1, <2>2
  <1>11. s \in Seq(Key) /\ Len(s) = n
    <2>1. s \in [1..n -> Key]
      BY <1>8, <1>9 DEF Rows
    <2> QED BY <1>5, <2>1
  <1>12. DOMAIN s = 1..n
    BY <1>8
  <1>13. Range(s) = rows
    BY <1>9, <1>10, <1>12 DEF Range
  <1>14. rows # {} => s # <<>> /\ Last(s) \in rows
    <2> SUFFICES ASSUME rows # {} PROVE s # <<>> /\ s[n] \in rows
      BY <1>11 DEF Last
    <2>1. n \in 1..n
      BY <1>5, <1>10
    <2> QED BY <1>9, <1>11, <2>1
  <1> QED BY <1>11, <1>13, <1>14 DEF s, n

LEMMA RangeOfConcat ==
  ASSUME NEW s \in Seq(Key), NEW t \in Seq(Key)
  PROVE  s \o t \in Seq(Key) /\ Len(s \o t) = Len(s) + Len(t) /\ Range(s \o t) = Range(s) \cup Range(t)
  <1>1. s \o t \in Seq(Key) /\ Len(s \o t) = Len(s) + Len(t)
    OBVIOUS
  <1>2. \A i \in 1..Len(s) : (s \o t)[i] = s[i]
    OBVIOUS
  <1>3. \A i \in 1..Len(t) : (s \o t)[Len(s) + i] = t[i]
    OBVIOUS
  <1>4. /\ DOMAIN s = 1..Len(s) /\ DOMAIN t = 1..Len(t)
        /\ DOMAIN (s \o t) = 1..(Len(s) + Len(t)) /\ Len(s) \in Nat /\ Len(t) \in Nat
    OBVIOUS
  <1>5. \A i \in 1..(Len(s) + Len(t)) : i \in 1..Len(s) \/ i - Len(s) \in 1..Len(t)
    BY <1>4
  <1>6. ASSUME NEW x \in Range(s \o t) PROVE x \in Range(s) \cup Range(t)
    <2>1. PICK i \in 1..(Len(s) + Len(t)) : x = (s \o t)[i]
      BY <1>4 DEF Range
    <2>2. CASE i \in 1..Len(s)
      BY <1>2, <1>4, <2>1, <2>2 DEF Range
    <2>3. CASE i - Len(s) \in 1..Len(t)
      <3>1. Len(s) + (i - Len(s)) = i
        BY <1>4
      <3>2. x = t[i - Len(s)]
        BY <1>3, <2>1, <2>3, <3>1
      <3> QED BY <1>4, <2>3, <3>2 DEF Range
    <2> QED BY <1>5, <2>2, <2>3
  <1>7. ASSUME NEW x \in Range(s) PROVE x \in Range(s \o t)
    <2>1. PICK i \in 1..Len(s) : x = s[i]
      BY <1>4 DEF Range
    <2>2. i \in 1..(Len(s) + Len(t))
      BY <1>4
    <2> QED BY <1>2, <1>4, <2>1, <2>2 DEF Range
  <1>8. ASSUME NEW x \in Range(t) PROVE x \in Range(s \o t)
    <2>1. PICK i \in 1..Len(t) : x = t[i]
      BY <1>4 DEF Range
    <2>2. Len(s) + i \in 1..(Len(s) + Len(t))
      BY <1>4
    <2> QED BY <1>3, <1>4, <2>1, <2>2 DEF Range
  <1> QED BY <1>1, <1>6, <1>7, <1>8
(***************************************************************************)
(* The candles: what is so of them for any strays                          *)
(***************************************************************************)

(* The trades that may be counted in a bucket *)
Countable(bk) == InBucket(Key, bk)

WellFormed(c, bk) ==
  /\ c \in Candle
  /\ Range(c.trades) \subseteq Countable(bk)
  /\ c.trades = <<>> => c.carry \in Key

Formed(cs) ==
  /\ cs \in [Bucket -> Candle \cup {None}]
  /\ \A bk \in Bucket : cs[bk] # None => WellFormed(cs[bk], bk)

Flagged(cs, late) ==
  \A bk \in Bucket : cs[bk] # None /\ Range(cs[bk].trades) \cap late # {} => cs[bk].pending

CandlesInv ==
  /\ Rows(trades) /\ pending \subseteq trades
  /\ Formed(candles) /\ Flagged(candles, pending)

LEMMA Buckets ==
  /\ \A bk \in Bucket : bk = <<bk[1], bk[2]>> /\ bk[1] \in Pool /\ bk[2] \in MinuteRange
  /\ \A p \in Pool, n \in MinuteRange : <<p, n>> \in Bucket
  /\ \A k \in Key : BucketOf(k) \in Bucket
  /\ \A b \in Block : Minute[b] \in MinuteRange
  /\ \A n \in MinuteRange : n \in Nat /\ n <= MaxMinute /\ MaxMinute \in Nat
  <1>1. \A b \in Block : Minute[b] \in MinuteRange
    BY MarketAssumption DEF MinuteRange
  <1>2. \A n \in MinuteRange : n \in Nat /\ n <= MaxMinute /\ MaxMinute \in Nat
    BY MarketAssumption DEF MinuteRange
  <1>3. \A k \in Key : EventOf(k).pool \in Pool /\ Minute[k[1]] \in MinuteRange
    BY <1>1, Keys DEF Event
  <1> QED BY <1>1, <1>2, <1>3 DEF Bucket, BucketOf

(* The trades of a block *)
LEMMA BlockTrades ==
  ASSUME NEW b \in Block
  PROVE  /\ Rows(TradeActions(b)) /\ \A k \in TradeActions(b) : k[1] = b
         /\ \A p \in Pool :
              /\ EligibleOf(b, p) = InBucket(TradeActions(b), <<p, Minute[b]>>)
              /\ \A n \in MinuteRange \ {Minute[b]} : InBucket(TradeActions(b), <<p, n>>) = {}
  <1>1. TradeActions(b) \subseteq KeysOf(b)
    BY DEF TradeActions
  <1>2. IsFiniteSet(KeysOf(b))
    <2> DEFINE f == [i \in DOMAIN Events[b] |-> <<b, i>>]
    <2>1. DOMAIN Events[b] = 1..Len(Events[b]) /\ Len(Events[b]) \in Nat
      BY MarketAssumption
    <2>2. IsFiniteSet(DOMAIN Events[b])
      BY <2>1, FS_Interval
    <2>3. f \in Surjection(DOMAIN Events[b], KeysOf(b))
      BY DEF Surjection, KeysOf
    <2> HIDE DEF f
    <2> QED BY <2>2, <2>3, FS_Surjection
  <1>3. \A k \in KeysOf(b) : k[1] = b /\ k \in Key
    BY Keys
  <1>4. IsFiniteSet(TradeActions(b))
    BY <1>1, <1>2, FS_Subset
  <1>5. \A k \in TradeActions(b) : BucketOf(k) = <<EventOf(k).pool, Minute[b]>>
    BY <1>1, <1>3 DEF BucketOf
  <1> HIDE DEF BucketOf
  <1>6. ASSUME NEW p \in Pool
        PROVE  /\ EligibleOf(b, p) = InBucket(TradeActions(b), <<p, Minute[b]>>)
               /\ \A n \in MinuteRange \ {Minute[b]} : InBucket(TradeActions(b), <<p, n>>) = {}
    BY <1>5 DEF EligibleOf, Eligible, InBucket
  <1> QED BY <1>1, <1>3, <1>4, <1>6 DEF Rows

(* loadPreviousCandle finds the last candle before the minute, if there is one. *)
LEMMA PreviousIsLast ==
  ASSUME NEW cs, NEW p, NEW m \in MinuteRange
  PROVE  LET prev == PreviousMinute(cs, p, m) IN
         /\ prev = None => \A n \in MinuteRange : n < m => cs[<<p, n>>] = None
         /\ prev # None => /\ prev \in MinuteRange /\ prev < m /\ cs[<<p, prev>>] # None
                           /\ \A n \in MinuteRange :
                                prev < n /\ n < m => cs[<<p, n>>] = None
  <1> DEFINE before == {n \in MinuteRange : n < m /\ cs[<<p, n>>] # None}
             prev == PreviousMinute(cs, p, m)
  <1>1. CASE before = {}
    <2>1. prev = None
      BY <1>1 DEF PreviousMinute
    <2> QED BY <1>1, <2>1
  <1>2. CASE before # {}
    <2>1. before \in SUBSET Nat /\ m \in Nat /\ \A n \in before : n <= m
      BY Buckets
    <2>2. prev = CHOOSE n \in before : \A l \in before : l <= n
      BY <1>2 DEF PreviousMinute
    <2>3. prev \in before /\ \A l \in before : l <= prev
      <3> HIDE DEF before, prev
      <3>1. \E n \in before : \A l \in before : l <= n
        BY <1>2, <2>1, GreatestNatural
      <3> QED BY <2>2, <3>1
    <2>4. prev # None /\ prev \in MinuteRange /\ prev < m /\ cs[<<p, prev>>] # None
      BY <2>3, CandleAssumption
    <2>5. \A n \in MinuteRange : prev < n /\ n < m => cs[<<p, n>>] = None
      <3> SUFFICES ASSUME NEW n \in MinuteRange, prev < n, n < m, cs[<<p, n>>] # None PROVE FALSE
        OBVIOUS
      <3>1. n \in before
        OBVIOUS
      <3>2. n <= prev /\ n \in Nat /\ prev \in Nat
        BY <2>3, <2>4, <3>1, Buckets
      <3> HIDE DEF prev
      <3> QED BY <3>2
    <2> QED BY <2>4, <2>5
  <1> QED BY <1>1, <1>2

(* The candle of a bucket after persistOhlcvForBlock *)
LEMMA PersistAt ==
  ASSUME NEW cs, NEW b \in Block, NEW ts, NEW late, NEW again \in BOOLEAN,
         NEW p \in Pool, NEW n \in MinuteRange
  PROVE  LET mine == EligibleOf(b, p)
             prev == PreviousMinute(cs, p, Minute[b])
             new == PersistCandles(cs, b, ts, late, again)[<<p, n>>]
         IN  /\ mine = {} => new = cs[<<p, n>>]
             /\ mine # {} /\ n = Minute[b] /\ again => new = Rebuilt(InBucket(ts, <<p, n>>), late)
             /\ mine # {} /\ n = Minute[b] /\ ~again =>
                  new = AddTrades(cs[<<p, n>>], ByPosition(mine), b, mine \cap late # {})
             /\ mine # {} /\ n # Minute[b] /\ prev # None /\ prev < n /\ n < Minute[b] =>
                  new = GapCandle(cs[<<p, prev>>], b)
             /\ mine # {} /\ n # Minute[b] /\ ~(prev # None /\ prev < n /\ n < Minute[b]) =>
                  new = cs[<<p, n>>]
  <1> DEFINE mine == EligibleOf(b, p)
             prev == PreviousMinute(cs, p, Minute[b])
             new == PersistCandles(cs, b, ts, late, again)[<<p, n>>]
  <1>1. <<p, n>> \in Bucket /\ <<p, n>>[1] = p /\ <<p, n>>[2] = n
    BY Buckets
  <1>2. new = IF mine = {} THEN cs[<<p, n>>]
              ELSE IF n = Minute[b]
                   THEN IF again THEN Rebuilt(InBucket(ts, <<p, Minute[b]>>), late)
                        ELSE AddTrades(cs[<<p, Minute[b]>>], ByPosition(mine), b, mine \cap late # {})
              ELSE IF prev # None /\ n \in (prev + 1)..(Minute[b] - 1)
                   THEN GapCandle(cs[<<p, prev>>], b)
              ELSE cs[<<p, n>>]
    BY <1>1 DEF PersistCandles
  <1> HIDE DEF mine, new
  <1>3. prev # None => (n \in (prev + 1)..(Minute[b] - 1) <=> prev < n /\ n < Minute[b])
    <2>1. Minute[b] \in MinuteRange /\ Minute[b] \in Nat /\ n \in Nat
      BY Buckets
    <2>2. prev # None => prev \in Nat
      BY <2>1, PreviousIsLast, Buckets
    <2> HIDE DEF prev
    <2> QED BY <2>1, <2>2
  <1> HIDE DEF prev
  <1> QED BY <1>2, <1>3 DEF mine, prev, new

LEMMA EmptyRange == Range(<<>>) = {} /\ Len(<<>>) = 0 /\ <<>> \in Seq(Key)
  BY DEF Range

LEMMA NotEmptyRange == \A s \in Seq(Key) : s # <<>> => Last(s) \in Range(s) /\ Range(s) # {} /\ Last(s) \in Key
  <1> SUFFICES ASSUME NEW s \in Seq(Key), s # <<>> PROVE s[Len(s)] \in Range(s) /\ s[Len(s)] \in Key
    BY DEF Last
  <1>1. Len(s) \in 1..Len(s) /\ DOMAIN s = 1..Len(s)
    OBVIOUS
  <1> QED BY <1>1 DEF Range

LEMMA CandleIsNotNone == \A c \in Candle : c # None
  BY CandleAssumption

(* rebuildCandleForBucket *)
LEMMA RebuiltIs ==
  ASSUME NEW rows, Rows(rows), rows # {}, NEW bk, rows \subseteq Countable(bk), NEW late
  PROVE  LET c == Rebuilt(rows, late) IN
         /\ WellFormed(c, bk) /\ c # None
         /\ Range(c.trades) = rows /\ Len(c.trades) = Cardinality(rows) /\ c.trades # <<>>
         /\ \E k \in rows : k[1] = c.writer
         /\ c.pending <=> rows \cap late # {}
  <1> DEFINE s == ByPosition(rows)
             c == Rebuilt(rows, late)
  <1>1. /\ s \in Seq(Key) /\ Len(s) = Cardinality(rows) /\ Range(s) = rows
        /\ s # <<>> /\ Last(s) \in rows
    BY ByPositionOrders
  <1>2. c = [trades |-> s, carry |-> None, writer |-> Last(s)[1],
             pending |-> rows \cap late # {}]
    BY DEF Rebuilt
  <1> HIDE DEF s, c
  <1>3. Last(s)[1] \in Block
    BY <1>1, Keys DEF Rows
  <1>4. (rows \cap late # {}) \in BOOLEAN
    OBVIOUS
  <1>5. c \in Candle
    BY <1>1, <1>2, <1>3, <1>4 DEF Candle
  <1>6. c.trades = s /\ c.writer = Last(s)[1] /\ (c.pending <=> rows \cap late # {})
    BY <1>2
  <1> QED BY <1>1, <1>5, <1>6, CandleIsNotNone DEF WellFormed, c

(* buildIncrementalCandle, over the trades a block adds *)
Added(old, mine, b, late) == AddTrades(old, ByPosition(mine), b, mine \cap late # {})
CountedIn(old) == IF old = None THEN <<>> ELSE old.trades

(* The candle c holds what old held and the trades mine of block b. *)
Adds(c, old, mine, b, bk) ==
  /\ WellFormed(c, bk) /\ c # None /\ c.writer = b /\ c.trades # <<>>
  /\ Len(c.trades) = Len(CountedIn(old)) + Cardinality(mine)
  /\ \A k : k \in Range(c.trades) <=> k \in Range(CountedIn(old)) \/ k \in mine

LEMMA AddedIs ==
  ASSUME NEW bk, NEW old, old = None \/ WellFormed(old, bk),
         NEW mine, Rows(mine), mine # {}, mine \subseteq Countable(bk),
         NEW b \in Block, NEW late
  PROVE  LET c == Added(old, mine, b, late)
         IN  /\ Adds(c, old, mine, b, bk)
             /\ mine \cap late # {} => c.pending
             /\ old # None /\ Range(old.trades) # {} /\ old.pending => c.pending
  <1> DEFINE s == ByPosition(mine)
             flag == mine \cap late # {}
             c == Added(old, mine, b, late)
             had == CountedIn(old)
             more == flag \/ (old # None /\ old.trades # <<>> /\ old.pending)
  <1>1. s \in Seq(Key) /\ Len(s) = Cardinality(mine) /\ Range(s) = mine /\ s # <<>>
    BY ByPositionOrders
  <1>2. had \in Seq(Key) /\ Range(had) \subseteq Countable(bk)
    BY EmptyRange DEF WellFormed, Candle, CountedIn
  <1>3. more \in BOOLEAN
    OBVIOUS
  <1> HIDE DEF s
  <1>4. (IF old = None THEN s ELSE old.trades \o s) = had \o s
    BY <1>1 DEF CountedIn
  <1>5. c = [trades |-> had \o s, carry |-> None, writer |-> b, pending |-> more]
    BY <1>4 DEF AddTrades, Added, s
  <1>6. /\ flag => more
        /\ old # None /\ Range(old.trades) # {} /\ old.pending => more
    BY EmptyRange
  <1>7. /\ had \o s \in Seq(Key) /\ Len(had \o s) = Len(had) + Len(s)
        /\ Range(had \o s) = Range(had) \cup Range(s)
    <2> HIDE DEF had
    <2> QED BY <1>1, <1>2, RangeOfConcat
  <1>8. had \o s # <<>>
    BY <1>1, <1>7, EmptyRange
  <1> HIDE DEF had, more, c, flag
  <1>9. c \in Candle
    BY <1>3, <1>5, <1>7 DEF Candle
  <1>10. c.trades = had \o s /\ c.writer = b /\ c.pending = more
    BY <1>5
  <1>11. WellFormed(c, bk)
    BY <1>1, <1>2, <1>7, <1>8, <1>9, <1>10 DEF WellFormed
  <1> QED BY <1>1, <1>6, <1>7, <1>8, <1>9, <1>10, <1>11, CandleIsNotNone
         DEF c, had, s, flag, Added, Adds

(* buildGapCandles *)
LEMMA GapIs ==
  ASSUME NEW bk, NEW prev, WellFormed(prev, bk), NEW b \in Block, NEW to
  PROVE  LET c == GapCandle(prev, b) IN
         WellFormed(c, to) /\ c # None /\ c.writer = b /\ c.trades = <<>> /\ Range(c.trades) = {}
  <1> DEFINE c == GapCandle(prev, b)
  <1>1. Close(prev) \in Key
    BY NotEmptyRange DEF WellFormed, Candle, Close
  <1>2. c = [trades |-> <<>>, carry |-> Close(prev), writer |-> b, pending |-> prev.pending]
    BY DEF GapCandle
  <1>3. prev.pending \in BOOLEAN
    BY DEF WellFormed, Candle
  <1> HIDE DEF c
  <1>4. c \in Candle
    BY <1>1, <1>2, <1>3, EmptyRange DEF Candle
  <1>5. c.trades = <<>> /\ c.carry \in Key /\ c.writer = b
    BY <1>1, <1>2
  <1> QED BY <1>4, <1>5, EmptyRange, CandleIsNotNone DEF WellFormed, c

(* Storing a block keeps the candles well formed, and flagged for what is pending
   afterwards. *)
LEMMA PersistForms ==
  ASSUME NEW cs, Formed(cs), NEW late, Flagged(cs, late),
         NEW b \in Block, NEW ts, Rows(ts), TradeActions(b) \subseteq ts, NEW again \in BOOLEAN,
         NEW after, after \subseteq late \cup TradeActions(b)
  PROVE  LET new == PersistCandles(cs, b, ts, after, again)
         IN  Formed(new) /\ Flagged(new, after)
  <1> DEFINE new == PersistCandles(cs, b, ts, after, again)
  <1>1. ASSUME NEW p \in Pool, NEW n \in MinuteRange
        PROVE  /\ new[<<p, n>>] # None => WellFormed(new[<<p, n>>], <<p, n>>)
               /\ new[<<p, n>>] # None /\ Range(new[<<p, n>>].trades) \cap after # {} =>
                    new[<<p, n>>].pending
    <2> DEFINE bk == <<p, n>>
               mine == EligibleOf(b, p)
               prev == PreviousMinute(cs, p, Minute[b])
               c == new[bk]
    <2>0. /\ mine = {} => c = cs[bk]
          /\ mine # {} /\ n = Minute[b] /\ again => c = Rebuilt(InBucket(ts, bk), after)
          /\ mine # {} /\ n = Minute[b] /\ ~again =>
               c = AddTrades(cs[bk], ByPosition(mine), b, mine \cap after # {})
          /\ mine # {} /\ n # Minute[b] /\ prev # None /\ prev < n /\ n < Minute[b] =>
               c = GapCandle(cs[<<p, prev>>], b)
          /\ mine # {} /\ n # Minute[b] /\ ~(prev # None /\ prev < n /\ n < Minute[b]) =>
               c = cs[bk]
      BY PersistAt
    <2>1. bk \in Bucket /\ \A m \in MinuteRange : <<p, m>> \in Bucket
      BY Buckets
    <2>2. ASSUME mine # {}, n = Minute[b]
          PROVE  /\ Rows(mine) /\ mine \subseteq Countable(bk) /\ mine = InBucket(TradeActions(b), bk)
                 /\ Rows(InBucket(ts, bk)) /\ InBucket(ts, bk) \subseteq Countable(bk)
                 /\ mine \subseteq InBucket(ts, bk)
      <3>1. mine = InBucket(TradeActions(b), bk)
        BY <2>2, BlockTrades
      <3>2. Rows(TradeActions(b)) /\ TradeActions(b) \subseteq Key /\ ts \subseteq Key
        BY BlockTrades DEF Rows
      <3>3. /\ InBucket(TradeActions(b), bk) \subseteq TradeActions(b)
            /\ InBucket(TradeActions(b), bk) \subseteq InBucket(ts, bk)
            /\ InBucket(ts, bk) \subseteq ts
            /\ InBucket(ts, bk) \subseteq InBucket(Key, bk)
        BY <3>2 DEF InBucket
      <3>4. Rows(InBucket(TradeActions(b), bk)) /\ Rows(InBucket(ts, bk))
        BY <3>2, <3>3, PartOfRows
      <3> HIDE DEF mine, bk
      <3> QED BY <3>1, <3>3, <3>4 DEF Countable
    <2>3. cs[bk] # None => /\ WellFormed(cs[bk], bk)
                           /\ Range(cs[bk].trades) \cap late # {} => cs[bk].pending
      BY <2>1 DEF Formed, Flagged
    <2>4. CASE c = cs[bk] /\ (mine = {} \/ n # Minute[b])
      <3>1. InBucket(TradeActions(b), bk) = {}
        BY <2>4, BlockTrades
      <3>2. cs[bk] # None => Range(cs[bk].trades) \cap after \subseteq Range(cs[bk].trades) \cap late
        <4> SUFFICES ASSUME cs[bk] # None, NEW k \in Range(cs[bk].trades), k \in after, k \notin late
                     PROVE  FALSE
          OBVIOUS
        <4>1. k \in TradeActions(b) /\ k \in Countable(bk)
          BY <2>3 DEF WellFormed
        <4>2. k \in InBucket(TradeActions(b), bk)
          BY <4>1 DEF InBucket, Countable
        <4> QED BY <3>1, <4>2
      <3> HIDE DEF c, bk
      <3> QED BY <2>3, <2>4, <3>2 DEF c, bk
    <2>5. CASE mine # {} /\ n = Minute[b] /\ again
      <3>1. c = Rebuilt(InBucket(ts, bk), after)
        BY <2>5, <2>0
      <3> HIDE DEF c, mine, bk
      <3>2. /\ WellFormed(c, bk) /\ Range(c.trades) = InBucket(ts, bk)
            /\ c.pending <=> InBucket(ts, bk) \cap after # {}
        BY <2>2, <2>5, <3>1, RebuiltIs
      <3> QED BY <3>2 DEF c, bk
    <2>6. CASE mine # {} /\ n = Minute[b] /\ ~again
      <3>1. c = Added(cs[bk], mine, b, after)
        BY <2>6, <2>0 DEF Added
      <3> DEFINE old == cs[bk]
                 had == CountedIn(old)
      <3>0. old = None \/ WellFormed(old, bk)
        BY <2>3
      <3> HIDE DEF c, mine, bk
      <3>3. /\ WellFormed(c, bk)
            /\ \A k : k \in Range(c.trades) <=> k \in Range(had) \/ k \in mine
            /\ mine \cap after # {} => c.pending
            /\ old # None /\ Range(old.trades) # {} /\ old.pending => c.pending
        <4> HIDE DEF old
        <4>1. Rows(mine) /\ mine # {} /\ mine \subseteq Countable(bk)
          BY <2>2, <2>6
        <4>2. c = Added(old, mine, b, after)
          BY <3>1 DEF old
        <4>3. Adds(Added(old, mine, b, after), old, mine, b, bk)
          BY <3>0, <4>1, AddedIs
        <4>4. mine \cap after # {} => Added(old, mine, b, after).pending
          BY <3>0, <4>1, AddedIs
        <4>5. old # None /\ Range(old.trades) # {} /\ old.pending => Added(old, mine, b, after).pending
          BY <3>0, <4>1, AddedIs
        <4> QED BY <4>2, <4>3, <4>4, <4>5 DEF Adds
      <3>4. ASSUME NEW k \in Range(c.trades), k \in after PROVE c.pending
        <4>1. CASE k \in mine
          BY <3>3, <3>4, <4>1
        <4>2. CASE k \notin mine
          <5>1. cs[bk] # None /\ k \in Range(cs[bk].trades)
            BY <3>3, <3>4, <4>2, EmptyRange DEF CountedIn
          <5>2. k \in Countable(bk)
            BY <2>3, <5>1 DEF WellFormed
          <5>3. k \in TradeActions(b) => k \in mine
            BY <2>2, <2>6, <5>2 DEF Countable, InBucket
          <5>4. k \in late
            BY <3>4, <4>2, <5>3
          <5> QED BY <2>3, <3>3, <5>1, <5>4
        <4> QED BY <4>1, <4>2
      <3> QED BY <3>3, <3>4 DEF c, bk
    <2>7. CASE mine # {} /\ n # Minute[b] /\ prev # None /\ prev < n /\ n < Minute[b]
      <3>1. c = GapCandle(cs[<<p, prev>>], b)
        BY <2>7, <2>0
      <3>2. prev \in MinuteRange /\ cs[<<p, prev>>] # None
        BY <2>7, PreviousIsLast, Buckets
      <3> HIDE DEF c, bk, prev
      <3>3. WellFormed(cs[<<p, prev>>], <<p, prev>>)
        BY <2>1, <3>2 DEF Formed
      <3>4. WellFormed(c, bk) /\ Range(c.trades) = {}
        BY <3>1, <3>3, GapIs
      <3> QED BY <3>4 DEF c, bk
    <2>8. CASE mine # {} /\ n # Minute[b] /\ ~(prev # None /\ prev < n /\ n < Minute[b])
      <3>1. c = cs[bk]
        BY <2>8, <2>0
      <3> QED BY <2>4, <2>8, <3>1
    <2>9. mine = {} => c = cs[bk]
      BY <2>0
    <2> QED BY <2>4, <2>5, <2>6, <2>7, <2>8, <2>9
  <1>2. new = [bk \in Bucket |-> new[bk]]
    BY DEF PersistCandles
  <1> HIDE DEF new
  <1>3. \A bk \in Bucket : /\ new[bk] # None => WellFormed(new[bk], bk)
                           /\ new[bk] # None /\ Range(new[bk].trades) \cap after # {} =>
                                new[bk].pending
    BY <1>1, Buckets
  <1>4. \A bk \in Bucket : new[bk] \in Candle \cup {None}
    BY <1>3 DEF WellFormed
  <1>5. Formed(new)
    BY <1>2, <1>3, <1>4 DEF Formed
  <1>6. Flagged(new, after)
    BY <1>3 DEF Flagged
  <1> QED BY <1>5, <1>6 DEF new

(* A candle of a rebuilt range (rebuildPendingRange) *)
LEMMA RebuildAt ==
  ASSUME NEW cs, NEW p, NEW ts, NEW late, NEW m \in MinuteRange
  PROVE  LET new == RebuildRange(cs, p, ts, late)
             rows == InBucket(ts, <<p, m>>)
             prev == CloseBefore(cs, p, ts, m)
             old == cs[<<p, m>>]
         IN  new[m] = IF m \notin PendingRange(cs, p) THEN old
                      ELSE IF rows # {} THEN Rebuilt(rows, late)
                      ELSE IF prev # None THEN GapCandle(new[prev], old.writer)
                      ELSE old
  <1> DEFINE Below(n) == {l \in MinuteRange : l < n}
             prevOf(l) == CloseBefore(cs, p, ts, l)
             next(g, l) == IF l \notin PendingRange(cs, p) THEN cs[<<p, l>>]
                           ELSE IF InBucket(ts, <<p, l>>) # {} THEN Rebuilt(InBucket(ts, <<p, l>>), late)
                           ELSE IF prevOf(l) # None THEN GapCandle(g[prevOf(l)], cs[<<p, l>>].writer)
                           ELSE cs[<<p, l>>]
             S == {n \in Nat : \E g : g = [l \in Below(n) |-> next(g, l)]}
  <1>1. \A l \in MinuteRange : /\ l \in Nat /\ l <= MaxMinute /\ MaxMinute \in Nat
                               /\ prevOf(l) # None => prevOf(l) \in MinuteRange /\ prevOf(l) < l
    BY PreviousIsLast, Buckets DEF CloseBefore
  <1> HIDE DEF prevOf
  <1>2. 0 \in S
    <2> DEFINE g == [l \in Below(0) |-> None]
    <2>1. \A l \in Below(0) : FALSE
      BY <1>1
    <2> HIDE DEF next, Below
    <2>2. g = [l \in Below(0) |-> next(g, l)]
      BY <2>1
    <2> HIDE DEF g
    <2> QED BY <2>2
  <1>3. ASSUME NEW n \in Nat, n \in S PROVE n + 1 \in S
    <2>1. PICK g : g = [l \in Below(n) |-> next(g, l)]
      BY <1>3
    <2> DEFINE h == [l \in Below(n + 1) |-> IF l \in Below(n) THEN g[l] ELSE next(g, l)]
    <2>2. ASSUME NEW l \in Below(n + 1) PROVE h[l] = next(h, l)
      <3>1. prevOf(l) # None => prevOf(l) \in Below(n) /\ prevOf(l) \in Below(n + 1)
        <4>1. l \in MinuteRange /\ l \in Nat /\ l < n + 1
          BY <1>1
        <4>2. prevOf(l) # None => prevOf(l) \in MinuteRange /\ prevOf(l) \in Nat /\ prevOf(l) < l
          BY <1>1, <4>1
        <4> QED BY <4>1, <4>2
      <3> HIDE DEF Below
      <3>2. prevOf(l) # None => h[prevOf(l)] = g[prevOf(l)]
        BY <3>1
      <3> HIDE DEF h
      <3>3. next(h, l) = next(g, l)
        BY <3>2
      <3> HIDE DEF next
      <3>4. h[l] = next(g, l)
        <4>1. CASE l \in Below(n)
          <5>1. g[l] = next(g, l)
            BY <2>1, <4>1
          <5> QED BY <4>1, <5>1 DEF h
        <4>2. CASE l \notin Below(n)
          BY <4>2 DEF h
        <4> QED BY <4>1, <4>2
      <3> QED BY <3>3, <3>4
    <2>3. h = [l \in Below(n + 1) |-> next(h, l)]
      <3> HIDE DEF next, Below
      <3> QED BY <2>2
    <2> HIDE DEF h
    <2> QED BY <2>3
  <1>4. Nat \subseteq S
    <2> HIDE DEF S
    <2> QED BY <1>2, <1>3, NaturalInduction
  <1>5. MaxMinute + 1 \in S /\ Below(MaxMinute + 1) = MinuteRange
    <2>1. MaxMinute \in Nat
      BY MarketAssumption
    <2>2. MaxMinute + 1 \in S
      <3> HIDE DEF S
      <3> QED BY <1>4, <2>1
    <2>3. \A l \in MinuteRange : l < MaxMinute + 1
      BY <1>1
    <2> QED BY <2>2, <2>3
  <1>6. PICK g : g = [l \in MinuteRange |-> next(g, l)]
    BY <1>5
  <1>7. RebuildRange(cs, p, ts, late) =
          [l \in MinuteRange |-> next(RebuildRange(cs, p, ts, late), l)]
    BY <1>6 DEF RebuildRange, prevOf
  <1> HIDE DEF S, Below
  <1>8. RebuildRange(cs, p, ts, late)[m] = next(RebuildRange(cs, p, ts, late), m)
    <2> HIDE DEF next
    <2> QED BY <1>7
  <1> QED BY <1>8 DEF prevOf

(* What rebuilding a bucket can make of its candle *)
Remade(old, new, rows, bk, late) ==
  \/ new = old
  \/ old # None /\ rows # {} /\ new = Rebuilt(rows, late)
  \/ /\ old # None /\ rows = {} /\ WellFormed(new, bk) /\ new # None
     /\ new.trades = <<>> /\ new.writer = old.writer

LEMMA RebuildRemakes ==
  ASSUME NEW cs, Formed(cs), NEW ts, Rows(ts), NEW late, NEW p \in Pool, NEW n \in MinuteRange
  PROVE  Remade(cs[<<p, n>>], RebuildRange(cs, p, ts, late)[n],
                InBucket(ts, <<p, n>>), <<p, n>>, late)
  <1> DEFINE new == RebuildRange(cs, p, ts, late)
             rows(m) == InBucket(ts, <<p, m>>)
             prev(m) == CloseBefore(cs, p, ts, m)
             old(m) == cs[<<p, m>>]
             G(m) == Remade(old(m), new[m], rows(m), <<p, m>>, late)
             S == {m \in Nat : m \in MinuteRange => G(m)}
  <1>1. \A m \in MinuteRange : rows(m) \subseteq Countable(<<p, m>>) /\ Rows(rows(m))
    <2> SUFFICES ASSUME NEW m \in MinuteRange
                 PROVE  rows(m) \subseteq Countable(<<p, m>>) /\ Rows(rows(m))
      OBVIOUS
    <2>1. rows(m) \subseteq ts /\ ts \subseteq Key
      BY DEF InBucket, Rows
    <2>2. rows(m) \subseteq Countable(<<p, m>>)
      BY <2>1 DEF InBucket, Countable
    <2> HIDE DEF rows
    <2> QED BY <2>1, <2>2, PartOfRows
  <1>2. \A m \in MinuteRange :
          new[m] = IF m \notin PendingRange(cs, p) THEN old(m)
                   ELSE IF rows(m) # {} THEN Rebuilt(rows(m), late)
                   ELSE IF prev(m) # None THEN GapCandle(new[prev(m)], old(m).writer)
                   ELSE old(m)
    BY RebuildAt
  <1>3. \A m \in PendingRange(cs, p) : old(m) # None
    BY DEF PendingRange
  <1>4. \A m \in MinuteRange : old(m) # None => WellFormed(old(m), <<p, m>>) /\ old(m).writer \in Block
    BY Buckets DEF Formed, WellFormed, Candle
  <1>5. \A m \in MinuteRange : prev(m) # None => prev(m) \in MinuteRange /\ prev(m) < m /\ old(prev(m)) # None
    BY PreviousIsLast DEF CloseBefore
  <1> HIDE DEF new, rows, prev, old
  <1>6. \A m \in MinuteRange : G(m) /\ old(m) # None => WellFormed(new[m], <<p, m>>)
    <2> SUFFICES ASSUME NEW m \in MinuteRange, G(m), old(m) # None PROVE WellFormed(new[m], <<p, m>>)
      OBVIOUS
    <2>1. CASE new[m] = old(m)
      BY <1>4, <2>1
    <2>2. CASE rows(m) # {} /\ new[m] = Rebuilt(rows(m), late)
      BY <1>1, <2>2, RebuiltIs
    <2> QED BY <2>1, <2>2 DEF Remade
  <1>7. ASSUME NEW m \in Nat, \A l \in Nat : l < m => l \in S PROVE m \in S
    <2> SUFFICES ASSUME m \in MinuteRange PROVE G(m)
      OBVIOUS
    <2>1. CASE m \in PendingRange(cs, p) /\ rows(m) = {} /\ prev(m) # None
      <3>1. prev(m) \in MinuteRange /\ prev(m) \in Nat /\ prev(m) < m /\ old(prev(m)) # None
        BY <1>5, <2>1, Buckets
      <3>2. G(prev(m))
        BY <1>7, <3>1
      <3>3. WellFormed(new[prev(m)], <<p, prev(m)>>)
        BY <1>6, <3>1, <3>2
      <3>4. new[m] = GapCandle(new[prev(m)], old(m).writer)
        BY <1>2, <2>1
      <3>5. old(m) # None /\ old(m).writer \in Block
        BY <1>3, <1>4, <2>1
      <3>6. /\ WellFormed(new[m], <<p, m>>) /\ new[m] # None
            /\ new[m].trades = <<>> /\ new[m].writer = old(m).writer
        BY <3>3, <3>4, <3>5, GapIs
      <3> QED BY <2>1, <3>5, <3>6 DEF Remade
    <2>2. CASE ~(m \in PendingRange(cs, p) /\ rows(m) = {} /\ prev(m) # None)
      BY <1>2, <1>3, <2>2 DEF Remade
    <2> QED BY <2>1, <2>2
  <1>8. Nat \subseteq S
    <2> HIDE DEF S
    <2> QED BY <1>7, StrongInduction
  <1>9. n \in Nat
    BY Buckets
  <1> QED BY <1>8, <1>9 DEF old, new, rows

(* Every bucket after rebuildPendingEnrichmentCandles *)
LEMMA PendingRemakes ==
  ASSUME NEW cs, Formed(cs), NEW t, NEW ts, Rows(ts), NEW late, NEW bk \in Bucket
  PROVE  Remade(cs[bk], RebuildPending(cs, t, ts, late)[bk], InBucket(ts, bk), bk, late)
  <1>1. bk = <<bk[1], bk[2]>> /\ bk[1] \in Pool /\ bk[2] \in MinuteRange
    BY Buckets
  <1>2. RebuildPending(cs, t, ts, late)[bk] =
          IF t \in TokensOf(bk[1]) THEN RebuildRange(cs, bk[1], ts, late)[bk[2]] ELSE cs[bk]
    BY DEF RebuildPending
  <1>3. Remade(cs[bk], RebuildRange(cs, bk[1], ts, late)[bk[2]], InBucket(ts, bk), bk, late)
    BY <1>1, RebuildRemakes
  <1> QED BY <1>2, <1>3 DEF Remade

LEMMA PendingForms ==
  ASSUME NEW cs, Formed(cs), NEW late, Flagged(cs, late), NEW t, NEW ts, Rows(ts),
         NEW after \in SUBSET late
  PROVE  LET new == RebuildPending(cs, t, ts, after) IN Formed(new) /\ Flagged(new, after)
  <1> DEFINE new == RebuildPending(cs, t, ts, after)
  <1>1. new = [bk \in Bucket |-> new[bk]]
    BY DEF RebuildPending
  <1>2. \A bk \in Bucket : Remade(cs[bk], new[bk], InBucket(ts, bk), bk, after)
    BY PendingRemakes
  <1> HIDE DEF new
  <1>3. ASSUME NEW bk \in Bucket
        PROVE  /\ new[bk] # None => WellFormed(new[bk], bk)
               /\ new[bk] # None /\ Range(new[bk].trades) \cap after # {} => new[bk].pending
    <2>1. CASE new[bk] = cs[bk]
      BY <2>1 DEF Formed, Flagged
    <2>2. CASE InBucket(ts, bk) # {} /\ new[bk] = Rebuilt(InBucket(ts, bk), after)
      <3>1. InBucket(ts, bk) \subseteq ts /\ InBucket(ts, bk) \subseteq Countable(bk)
        BY DEF InBucket, Countable, Rows
      <3>2. Rows(InBucket(ts, bk))
        BY <3>1, PartOfRows
      <3> QED BY <2>2, <3>1, <3>2, RebuiltIs
    <2>3. CASE WellFormed(new[bk], bk) /\ new[bk].trades = <<>>
      BY <2>3, EmptyRange
    <2> QED BY <1>2, <2>1, <2>2, <2>3 DEF Remade
  <1>4. \A bk \in Bucket : new[bk] \in Candle \cup {None}
    BY <1>3 DEF WellFormed
  <1>5. Formed(new)
    BY <1>1, <1>3, <1>4 DEF Formed
  <1>6. Flagged(new, after)
    BY <1>3 DEF Flagged
  <1> QED BY <1>5, <1>6 DEF new

(* Deleting candles *)
LEMMA FewerForms ==
  ASSUME NEW cs, Formed(cs), NEW late, Flagged(cs, late), NEW after \in SUBSET late,
         NEW new, new = [bk \in Bucket |-> new[bk]],
         \A bk \in Bucket : new[bk] = cs[bk] \/ new[bk] = None
  PROVE  Formed(new) /\ Flagged(new, after)
  <1>1. \A bk \in Bucket : new[bk] \in Candle \cup {None}
    BY DEF Formed
  <1>2. Formed(new)
    BY <1>1 DEF Formed
  <1>3. Flagged(new, after)
    BY DEF Flagged
  <1> QED BY <1>2, <1>3

LEMMA JoinedRows ==
  ASSUME NEW old, Rows(old), NEW b \in Block, \A k \in old : HeightOf(k) # Num[b]
  PROVE  Rows(old \cup TradeActions(b))
  <1>1. Rows(TradeActions(b)) /\ \A k \in TradeActions(b) : HeightOf(k) = Num[b] /\ k[1] = b
    BY BlockTrades DEF HeightOf
  <1>2. IsFiniteSet(old \cup TradeActions(b))
    BY <1>1, FS_Union DEF Rows
  <1> QED BY <1>1, <1>2 DEF Rows

LEMMA InitCandles == ASSUME Init PROVE CandlesInv
  <1>1. Rows({})
    BY FS_EmptySet DEF Rows
  <1>2. Formed(candles) /\ Flagged(candles, pending)
    BY Buckets DEF Init, Formed, Flagged
  <1> QED BY <1>1, <1>2 DEF Init, CandlesInv

LEMMA CommitKeepsCandles == ASSUME TablesInv, CandlesInv, CommitBlock PROVE CandlesInv'
  <1> DEFINE b == reading.block
             kept == {k \in trades : HeightOf(k) # Num[b]}
             cs == ClearCandles(candles, Num[b])
             again == Reconciling(incident \cup stuck, b)
  <1>1. b \in Block
    BY DEF TablesInv, CommitBlock, Reading
  <1>2. /\ trades' = kept \cup TradeActions(b)
        /\ pending' \subseteq (pending \cap kept) \cup TradeActions(b)
        /\ (pending \cap kept) \subseteq pending' /\ pending' \subseteq trades'
        /\ candles' = PersistCandles(cs, b, trades', pending', again)
    BY DEF CommitBlock, StoredRows, UpsertTrades
  <1>3. again \in BOOLEAN
    BY DEF Reconciling
  <1>4. Rows(kept) /\ \A k \in kept : HeightOf(k) # Num[b]
    BY PartOfRows DEF CandlesInv
  <1>5. cs = [bk \in Bucket |-> cs[bk]] /\ \A bk \in Bucket : cs[bk] = candles[bk] \/ cs[bk] = None
    BY DEF ClearCandles
  <1> HIDE DEF b, kept, cs, again
  <1>6. Rows(trades')
    BY <1>1, <1>2, <1>4, JoinedRows
  <1>7. Formed(cs) /\ Flagged(cs, pending)
    BY <1>5, FewerForms DEF CandlesInv
  <1>8. Formed(candles') /\ Flagged(candles', pending')
    <2>1. TradeActions(b) \subseteq trades' /\ pending' \subseteq pending \cup TradeActions(b)
      BY <1>2
    <2> QED BY <1>1, <1>2, <1>3, <1>6, <1>7, <2>1, PersistForms
  <1> QED BY <1>2, <1>6, <1>8 DEF CandlesInv

LEMMA RewindKeepsCandles ==
  ASSUME TablesInv, CandlesInv, NEW a \in Block, Rewind(a) PROVE CandlesInv'
  <1> DEFINE h == Num[a] + 1
  <1>1. /\ trades' \subseteq trades /\ pending' \subseteq pending /\ pending' \subseteq trades'
        /\ candles' = CutCandles(candles, h, {})
    BY DEF Rewind
  <1>2. Rows(trades')
    BY <1>1, PartOfRows DEF CandlesInv
  <1>3. /\ candles' = [bk \in Bucket |-> candles'[bk]]
        /\ \A bk \in Bucket : candles'[bk] = candles[bk] \/ candles'[bk] = None
    BY <1>1 DEF CutCandles
  <1>4. Formed(candles') /\ Flagged(candles', pending')
    BY <1>1, <1>3, FewerForms DEF CandlesInv
  <1> QED BY <1>1, <1>2, <1>4 DEF CandlesInv

LEMMA StrayKeepsCandles ==
  ASSUME TablesInv, CandlesInv, NEW a \in Block, RewindPastCommit(a) PROVE CandlesInv'
  <1> DEFINE b == reading.block
             h == Num[a] + 1
             kept == {k \in trades : HeightOf(k) < h}
             cs == PersistCandles(candles, b, trades', pending', FALSE)
  <1>1. b \in Block /\ Parent[b] = cp /\ cp \in Block /\ a \in Line[cp]
    BY DEF TablesInv, RewindPastCommit, Reading
  <1>2. /\ trades' = kept \cup TradeActions(b)
        /\ pending' \subseteq (pending \cap kept) \cup TradeActions(b) /\ pending' \subseteq trades'
        /\ candles' = CutCandles(cs, h, {b})
    BY DEF RewindPastCommit, UpsertTrades
  <1>3. Rows(kept) /\ \A k \in kept : HeightOf(k) # Num[b]
    <2>1. Num[b] = Num[cp] + 1 /\ Num[a] <= Num[cp] /\ Num[a] \in Int /\ Num[cp] \in Int
      BY <1>1, Lines, TreeAssumption
    <2>2. \A k \in trades : HeightOf(k) \in Int
      BY Keys, TreeAssumption DEF CandlesInv, Rows
    <2>3. Rows(kept)
      BY PartOfRows DEF CandlesInv
    <2> HIDE DEF b
    <2> QED BY <2>1, <2>2, <2>3
  <1> HIDE DEF b, kept
  <1>4. Rows(trades')
    BY <1>1, <1>2, <1>3, JoinedRows
  <1>5. Formed(cs) /\ Flagged(cs, pending')
    <2>1. TradeActions(b) \subseteq trades' /\ pending' \subseteq pending \cup TradeActions(b)
      BY <1>2
    <2>2. FALSE \in BOOLEAN /\ Formed(candles) /\ Flagged(candles, pending)
      BY DEF CandlesInv
    <2> QED BY <1>1, <1>4, <2>1, <2>2, PersistForms
  <1> HIDE DEF cs
  <1>6. /\ candles' = [bk \in Bucket |-> candles'[bk]]
        /\ \A bk \in Bucket : candles'[bk] = cs[bk] \/ candles'[bk] = None
    BY <1>2 DEF CutCandles
  <1>7. Formed(candles') /\ Flagged(candles', pending')
    BY <1>5, <1>6, FewerForms
  <1> QED BY <1>2, <1>4, <1>7 DEF CandlesInv

LEMMA ResolveKeepsCandles ==
  ASSUME CandlesInv, NEW t \in Token, ResolveDecimals(t) PROVE CandlesInv'
  <1>1. /\ trades' = trades /\ pending' \in SUBSET pending
        /\ candles' = RebuildPending(candles, t, trades, pending')
    BY DEF ResolveDecimals, Reprice
  <1>2. Formed(candles') /\ Flagged(candles', pending')
    BY <1>1, PendingForms DEF CandlesInv
  <1> QED BY <1>1, <1>2 DEF CandlesInv

LEMMA StepKeepsCandles == ASSUME TablesInv, CandlesInv, [Next]_vars PROVE CandlesInv'
  <1>1. ASSUME NEW b \in Block, BeginBlock(b) PROVE CandlesInv'
    BY <1>1 DEF CandlesInv, BeginBlock
  <1>2. CASE DropBlock
    BY <1>2 DEF CandlesInv, DropBlock
  <1>3. CASE EndReplay
    BY <1>3 DEF CandlesInv, EndReplay
  <1>4. CASE UNCHANGED vars
    BY <1>4 DEF CandlesInv, vars
  <1> QED BY <1>1, <1>2, <1>3, <1>4, CommitKeepsCandles, RewindKeepsCandles,
             StrayKeepsCandles, ResolveKeepsCandles DEF Next

LEMMA CandlesAlways == Spec => [](TablesInv /\ CandlesInv)
  <1>1. Init => TablesInv /\ CandlesInv
    BY InitTables, InitCandles
  <1>2. TablesInv /\ CandlesInv /\ [Next]_vars => TablesInv' /\ CandlesInv'
    BY StepKeepsTables, StepKeepsCandles
  <1> QED BY <1>1, <1>2, PTL DEF Spec

(* Every table of the market holds what its columns may hold: candles that name a
   block, and carry a close when they hold no trade; pending trades that are stored. *)
THEOREM MarketIsTyped == Spec => []MarketTypeOK
  <1>1. TablesInv /\ CandlesInv => MarketTypeOK
    <2> SUFFICES ASSUME TablesInv, CandlesInv PROVE MarketTypeOK
      OBVIOUS
    <2>1. /\ market.ticks \subseteq Tick /\ market.history \subseteq PoolRow
          /\ market.prices \in [Token -> Tick \cup {None}]
          /\ market.latest \in [Pool -> PoolRow \cup {None}]
      BY DEF TablesInv, Sound, Tables
    <2>2. \A bk \in Bucket : candles[bk] # None =>
            /\ candles[bk].trades \in Seq(Key) /\ candles[bk].writer \in Block
            /\ candles[bk].trades = <<>> => candles[bk].carry \in Key
      BY DEF CandlesInv, Formed, WellFormed, Candle
    <2>3. trades \subseteq Key /\ pending \subseteq trades
      BY DEF CandlesInv, Rows
    <2> QED BY <2>1, <2>2, <2>3 DEF MarketTypeOK, TablesInv
  <1> QED BY <1>1, CandlesAlways, PTL

(* A candle is flagged pending as long as one of its trades is, whatever is rebuilt,
   rewound, committed astray or repriced in between. *)
THEOREM CandlesStayFlagged == Spec => []PendingCandlesAreFlagged
  <1>1. CandlesInv => PendingCandlesAreFlagged
    BY DEF CandlesInv, Flagged, PendingCandlesAreFlagged
  <1> QED BY <1>1, CandlesAlways, PTL
(***************************************************************************)
(* What the candles count                                                  *)
(***************************************************************************)

(* A bucket's candle counts its rows, each once, and names a block of one of them. *)
Exact(c, rows) ==
  /\ Len(CountedIn(c)) = Cardinality(rows) /\ Range(CountedIn(c)) = rows
  /\ CountedIn(c) # <<>> => \E k \in rows : k[1] = c.writer

LEMMA NothingIsExact == Exact(None, {})
  BY EmptyRange, FS_EmptySet DEF Exact, CountedIn

LEMMA RebuiltIsExact ==
  ASSUME NEW rows, Rows(rows), rows # {}, NEW bk, rows \subseteq Countable(bk), NEW late
  PROVE  Exact(Rebuilt(rows, late), rows)
  <1> DEFINE c == Rebuilt(rows, late)
  <1>1. /\ c # None /\ Range(c.trades) = rows /\ Len(c.trades) = Cardinality(rows)
        /\ \E k \in rows : k[1] = c.writer
    BY RebuiltIs
  <1> HIDE DEF c
  <1>2. CountedIn(c) = c.trades
    BY <1>1 DEF CountedIn
  <1> QED BY <1>1, <1>2 DEF Exact, c

LEMMA NoRows == ASSUME NEW c, NEW rows, Exact(c, rows), IsFiniteSet(rows), CountedIn(c) = <<>> PROVE rows = {}
  BY EmptyRange DEF Exact

LEMMA InBucketRows ==
  ASSUME NEW rows, Rows(rows), NEW bk
  PROVE  /\ InBucket(rows, bk) \subseteq rows /\ InBucket(rows, bk) \subseteq Countable(bk)
         /\ Rows(InBucket(rows, bk)) /\ IsFiniteSet(InBucket(rows, bk))
  <1>1. InBucket(rows, bk) \subseteq rows /\ InBucket(rows, bk) \subseteq Countable(bk)
    BY DEF InBucket, Countable, Rows
  <1> QED BY <1>1, PartOfRows DEF Rows

(* Storing a block that has no rows yet keeps an exact bucket exact. *)
LEMMA PersistCounts ==
  ASSUME NEW cs, Formed(cs), NEW b \in Block, NEW late, NEW again \in BOOLEAN,
         NEW ts, Rows(ts), \A k \in ts : k[1] # b,
         NEW all, all = ts \cup TradeActions(b), Rows(all),
         NEW p \in Pool, NEW n \in MinuteRange, Exact(cs[<<p, n>>], InBucket(ts, <<p, n>>))
  PROVE  Exact(PersistCandles(cs, b, all, late, again)[<<p, n>>], InBucket(all, <<p, n>>))
  <1> DEFINE bk == <<p, n>>
             mine == EligibleOf(b, p)
             prev == PreviousMinute(cs, p, Minute[b])
             c == PersistCandles(cs, b, all, late, again)[bk]
             had == InBucket(ts, bk)
             rows == InBucket(all, bk)
  <1>0. /\ mine = {} => c = cs[bk]
        /\ mine # {} /\ n = Minute[b] /\ again => c = Rebuilt(rows, late)
        /\ mine # {} /\ n = Minute[b] /\ ~again =>
             c = AddTrades(cs[bk], ByPosition(mine), b, mine \cap late # {})
        /\ mine # {} /\ n # Minute[b] /\ prev # None /\ prev < n /\ n < Minute[b] =>
             c = GapCandle(cs[<<p, prev>>], b)
        /\ mine # {} /\ n # Minute[b] /\ ~(prev # None /\ prev < n /\ n < Minute[b]) =>
             c = cs[bk]
    BY PersistAt
  <1>1. rows = had \cup InBucket(TradeActions(b), bk)
    BY DEF InBucket
  <1>2. /\ Rows(had) /\ Rows(rows) /\ rows \subseteq Countable(bk) /\ had \subseteq ts
        /\ IsFiniteSet(had)
    BY InBucketRows
  <1>3. /\ n = Minute[b] => mine = InBucket(TradeActions(b), bk)
        /\ n # Minute[b] \/ mine = {} => InBucket(TradeActions(b), bk) = {}
    BY BlockTrades
  <1>4. bk \in Bucket /\ (cs[bk] # None => WellFormed(cs[bk], bk))
    BY Buckets DEF Formed
  <1>5. Rows(TradeActions(b)) /\ \A k \in TradeActions(b) : k[1] = b
    BY BlockTrades
  <1>6. Exact(cs[bk], had)
    OBVIOUS
  <1> HIDE DEF bk, c, had, rows, prev, mine
  <1>7. CASE c = cs[bk] /\ (mine = {} \/ n # Minute[b])
    <2>1. rows = had
      BY <1>1, <1>3, <1>7
    <2>2. Exact(c, rows)
      BY <1>6, <1>7, <2>1
    <2> QED BY <2>2 DEF c, rows, bk
  <1>8. CASE mine # {} /\ n = Minute[b] /\ again
    <2>1. rows # {}
      BY <1>1, <1>3, <1>8
    <2> QED BY <1>0, <1>2, <1>8, <2>1, RebuiltIsExact DEF c, rows, bk
  <1>9. CASE mine # {} /\ n = Minute[b] /\ ~again
    <2> DEFINE old == cs[bk]
    <2>1. mine = InBucket(TradeActions(b), bk)
      BY <1>3, <1>9
    <2>2. Rows(mine) /\ mine \subseteq Countable(bk) /\ \A k \in mine : k[1] = b
      BY <1>5, <2>1, InBucketRows
    <2>3. c = Added(old, mine, b, late)
      BY <1>0, <1>9 DEF Added
    <2>4. old = None \/ WellFormed(old, bk)
      BY <1>4
    <2>5. Exact(old, had)
      BY <1>6
    <2> HIDE DEF old
    <2>14. Rows(mine) /\ mine # {} /\ mine \subseteq Countable(bk)
      BY <1>9, <2>2
    <2>6. Adds(c, old, mine, b, bk)
      <3>1. Adds(Added(old, mine, b, late), old, mine, b, bk)
        BY <2>4, <2>14, AddedIs
      <3> QED BY <2>3, <3>1
    <2>8. CountedIn(c) = c.trades
      BY <2>6 DEF CountedIn, Adds
    <2>9. had \cap mine = {} /\ rows = had \cup mine
      BY <1>1, <1>2, <2>1, <2>2
    <2>10. Cardinality(rows) = Cardinality(had) + Cardinality(mine)
      <3>1. IsFiniteSet(mine) /\ Cardinality(had) \in Nat /\ Cardinality(mine) \in Nat
        BY <1>2, <2>2, FS_CardinalityType DEF Rows
      <3>2. Cardinality(had \cup mine) = Cardinality(had) + Cardinality(mine) - Cardinality(had \cap mine)
        BY <1>2, <3>1, FS_Union
      <3>3. Cardinality(had \cap mine) = 0
        BY <2>9, FS_EmptySet
      <3> QED BY <2>9, <3>1, <3>2, <3>3
    <2>11. Range(c.trades) = rows
      BY <2>5, <2>6, <2>9 DEF Exact, Adds
    <2>12. Len(c.trades) = Cardinality(rows)
      BY <2>5, <2>6, <2>10 DEF Exact, Adds
    <2>13. \E k \in rows : k[1] = c.writer
      BY <1>9, <2>2, <2>6, <2>9 DEF Adds
    <2> QED BY <2>8, <2>11, <2>12, <2>13 DEF Exact, c, rows, bk
  <1>10. CASE mine # {} /\ n # Minute[b] /\ prev # None /\ prev < n /\ n < Minute[b]
    <2>1. prev \in MinuteRange /\ cs[<<p, prev>>] # None /\ cs[bk] = None
      BY <1>10, PreviousIsLast, Buckets DEF prev, bk
    <2>2. WellFormed(cs[<<p, prev>>], <<p, prev>>)
      BY <2>1, Buckets DEF Formed
    <2>3. c = GapCandle(cs[<<p, prev>>], b)
      BY <1>0, <1>10
    <2>4. c # None /\ c.trades = <<>>
      BY <2>2, <2>3, GapIs
    <2>5. had = {}
      BY <1>2, <1>6, <2>1, NoRows DEF CountedIn
    <2>6. rows = {}
      BY <1>1, <1>3, <1>10, <2>5
    <2>7. CountedIn(c) = <<>>
      BY <2>4 DEF CountedIn
    <2> QED BY <2>6, <2>7, EmptyRange, FS_EmptySet DEF Exact, c, rows, bk
  <1>11. c = cs[bk] /\ (mine = {} \/ n # Minute[b]) => Exact(c, rows)
    BY <1>7 DEF c, rows, bk
  <1> QED BY <1>0, <1>7, <1>8, <1>9, <1>10, <1>11 DEF c, rows, bk

(* A rewind that does not go through the middle of a bucket keeps it exact. *)
LEMMA CutCounts ==
  ASSUME NEW cs, Formed(cs), NEW ts, Rows(ts), NEW h \in Int, NEW bk \in Bucket,
         Exact(cs[bk], InBucket(ts, bk)),
         \/ \A k \in InBucket(ts, bk) : HeightOf(k) < h
         \/ \A k \in InBucket(ts, bk) : HeightOf(k) >= h
  PROVE  Exact(CutCandles(cs, h, {})[bk], InBucket({k \in ts : HeightOf(k) < h}, bk))
  <1> DEFINE had == InBucket(ts, bk)
             rows == InBucket({k \in ts : HeightOf(k) < h}, bk)
             c == CutCandles(cs, h, {})[bk]
  <1>1. c = IF cs[bk] # None /\ Num[cs[bk].writer] >= h THEN None ELSE cs[bk]
    BY DEF CutCandles
  <1>2. rows = {k \in had : HeightOf(k) < h}
    BY DEF InBucket
  <1>3. IsFiniteSet(had) /\ \A k \in had : HeightOf(k) \in Int
    BY InBucketRows, Keys, TreeAssumption DEF Rows
  <1>4. cs[bk] # None => cs[bk].writer \in Block /\ Num[cs[bk].writer] \in Int
    BY TreeAssumption DEF Formed, WellFormed, Candle
  <1>5. CASE had = {}
    <2>1. CountedIn(cs[bk]) = <<>>
      <3>1. CountedIn(cs[bk]) \in Seq(Key)
        BY EmptyRange DEF Formed, WellFormed, Candle, CountedIn
      <3> QED BY <1>5, <3>1, NotEmptyRange DEF Exact
    <2>2. rows = {} /\ CountedIn(c) = <<>>
      BY <1>1, <1>2, <1>5, <2>1 DEF CountedIn
    <2> QED BY <2>2, EmptyRange, FS_EmptySet DEF Exact
  <1>6. CASE had # {}
    <2>1. CountedIn(cs[bk]) # <<>>
      BY <1>3, <1>6, NoRows
    <2>2. cs[bk] # None
      BY <2>1 DEF CountedIn
    <2>3. PICK k \in had : k[1] = cs[bk].writer
      BY <2>1 DEF Exact
    <2>4. HeightOf(k) = Num[cs[bk].writer]
      BY <2>3 DEF HeightOf
    <2>5. CASE \A j \in had : HeightOf(j) < h
      <3>1. rows = had
        BY <1>2, <2>5
      <3>2. c = cs[bk]
        BY <1>1, <1>3, <1>4, <2>2, <2>3, <2>4, <2>5
      <3> QED BY <3>1, <3>2
    <2>6. CASE \A j \in had : HeightOf(j) >= h
      <3>1. rows = {}
        BY <1>2, <1>3, <2>6
      <3>2. c = None
        BY <1>1, <1>3, <1>4, <2>2, <2>3, <2>4, <2>6
      <3> QED BY <3>1, <3>2, NothingIsExact
    <2> QED BY <2>5, <2>6
  <1> QED BY <1>5, <1>6

(* Rebuilding keeps an exact bucket exact. *)
LEMMA RemadeCounts ==
  ASSUME NEW old, NEW new, NEW ts, Rows(ts), NEW bk, NEW late,
         Exact(old, InBucket(ts, bk)), Remade(old, new, InBucket(ts, bk), bk, late)
  PROVE  Exact(new, InBucket(ts, bk))
  <1>1. CASE new = old
    BY <1>1
  <1>2. CASE InBucket(ts, bk) # {} /\ new = Rebuilt(InBucket(ts, bk), late)
    BY <1>2, InBucketRows, RebuiltIsExact
  <1>3. CASE InBucket(ts, bk) = {} /\ new # None /\ new.trades = <<>>
    BY <1>3, EmptyRange, FS_EmptySet DEF Exact, CountedIn
  <1> QED BY <1>1, <1>2, <1>3 DEF Remade
(***************************************************************************)
(* Why the candles of a pool have no hole                                  *)
(***************************************************************************)

MinuteOf(k) == Minute[k[1]]
VenueRows(rows, p) == {k \in rows : EventOf(k).pool = p /\ Venue(k)}

(* Every candle was written by a block of the line with a trade of its pool, no earlier
   than the candle, and no later trade of the pool is in a lower block. *)
Written(cs, rows, line) ==
  \A p \in Pool, l \in MinuteRange : cs[<<p, l>>] # None =>
    /\ cs[<<p, l>>].writer \in line
    /\ \E k \in VenueRows(rows, p) : k[1] = cs[<<p, l>>].writer /\ MinuteOf(k) >= l
    /\ \A k \in VenueRows(rows, p) : MinuteOf(k) > l => Num[cs[<<p, l>>].writer] <= HeightOf(k)

(* Between a candle and a later trade every minute has a candle. *)
Filled(cs, rows) ==
  \A p \in Pool, l, m \in MinuteRange : \A k \in VenueRows(rows, p) :
    cs[<<p, l>>] # None /\ l < m /\ m < MinuteOf(k) => cs[<<p, m>>] # None

Contiguous(cs) ==
  \A p \in Pool, l, m, n \in MinuteRange :
    l < m /\ m < n /\ cs[<<p, l>>] # None /\ cs[<<p, n>>] # None => cs[<<p, m>>] # None

LEMMA MinutesGrow ==
  \A b \in Block : \A c, d \in Line[b] : Num[c] <= Num[d] => Minute[c] <= Minute[d]
  <1> DEFINE S == {b \in Block : \A c \in Line[b] : Minute[c] <= Minute[b]}
  <1>1. \A b \in Block : Line[b] \subseteq Block /\ Minute[b] \in Int
    BY Lines, Buckets
  <1>2. ASSUME NEW b \in Block, Parent[b] = None \/ Parent[b] \in S PROVE b \in S
    <2>1. CASE Parent[b] = None
      <3>1. Line[b] = {b}
        BY <2>1, LineAssumption
      <3> QED BY <1>1, <3>1
    <2>2. CASE Parent[b] # None
      <3>1. Line[b] = {b} \cup Line[Parent[b]] /\ Parent[b] \in S
        BY <1>2, <2>2, LineAssumption
      <3>2. Minute[Parent[b]] <= Minute[b]
        BY <2>2, TreeAssumption, MarketAssumption
      <3> QED BY <1>1, <3>1, <3>2
    <2> QED BY <2>1, <2>2
  <1>3. Block \subseteq S
    <2>1. IsTree(Block, Num, Parent, None)
      BY TreeAssumption DEF IsTree
    <2> HIDE DEF S
    <2> QED BY <1>2, <2>1, TreeInduction
  <1>4. ASSUME NEW b \in Block, NEW c \in Line[b], NEW d \in Line[b], Num[c] <= Num[d]
        PROVE  Minute[c] <= Minute[d]
    <2>1. c \in Line[d] /\ d \in Block
      BY <1>1, <1>4, Lines
    <2> QED BY <1>3, <2>1
  <1> QED BY <1>4

(* The minute of a trade *)
LEMMA TradeMinutes ==
  /\ \A k \in Key : MinuteOf(k) \in MinuteRange /\ MinuteOf(k) \in Nat
  /\ \A rows, p : VenueRows(rows, p) \subseteq rows
  BY Keys, Buckets DEF MinuteOf, VenueRows

LEMMA FilledIsContiguous ==
  ASSUME NEW cs, NEW rows, NEW line, rows \subseteq Key, Written(cs, rows, line), Filled(cs, rows)
  PROVE  Contiguous(cs)
  <1> SUFFICES ASSUME NEW p \in Pool, NEW l \in MinuteRange, NEW m \in MinuteRange,
                      NEW n \in MinuteRange, l < m, m < n,
                      cs[<<p, l>>] # None, cs[<<p, n>>] # None
               PROVE  cs[<<p, m>>] # None
    BY DEF Contiguous
  <1>1. PICK k \in VenueRows(rows, p) : MinuteOf(k) >= n
    BY DEF Written
  <1>2. m < MinuteOf(k)
    <2>1. MinuteOf(k) \in Nat /\ m \in Nat /\ n \in Nat
      BY TradeMinutes, Buckets
    <2> QED BY <1>1, <2>1
  <1> QED BY <1>2 DEF Filled

(* Storing the next block of a line *)
LEMMA PersistWrites ==
  ASSUME NEW cs, Formed(cs), NEW b \in Block, Parent[b] # None, NEW late, NEW again \in BOOLEAN,
         NEW ts, Rows(ts), \A k \in ts : k[1] \in Line[Parent[b]],
         NEW all, all = ts \cup TradeActions(b), Rows(all),
         Written(cs, ts, Line[Parent[b]]), Filled(cs, ts)
  PROVE  LET new == PersistCandles(cs, b, all, late, again)
         IN  Written(new, all, Line[b]) /\ Filled(new, all)
  <1> DEFINE new == PersistCandles(cs, b, all, late, again)
             M == Minute[b]
             prev(p) == PreviousMinute(cs, p, M)
             was(p, n) == cs[<<p, n>>] # None
             gap(p, n) == prev(p) # None /\ prev(p) < n /\ n < M
             old(p) == VenueRows(ts, p)
             mine(p) == EligibleOf(b, p)
             rows(p) == VenueRows(all, p)
  <1>1. /\ Line[b] = {b} \cup Line[Parent[b]] /\ Line[b] \subseteq Block /\ b \in Line[b]
        /\ \A c \in Line[b] : Num[c] <= Num[b] /\ Num[c] \in Int /\ Minute[c] <= M
        /\ Num[b] \in Int
    <2>1. Line[b] = {b} \cup Line[Parent[b]] /\ Line[b] \subseteq Block
      BY LineAssumption
    <2>2. \A c \in Line[b] : Num[c] <= Num[b] /\ Num[c] \in Int /\ Num[b] \in Int
      BY <2>1, Lines, TreeAssumption
    <2>3. \A c \in Line[b] : Minute[c] <= M
      BY <2>1, <2>2, MinutesGrow
    <2> QED BY <2>1, <2>2, <2>3
  <1>2. ASSUME NEW p \in Pool
        PROVE  /\ rows(p) = old(p) \cup mine(p)
               /\ \A k \in mine(p) : k[1] = b /\ MinuteOf(k) = M /\ HeightOf(k) = Num[b]
               /\ \A k \in old(p) : k[1] \in Line[b] /\ MinuteOf(k) <= M /\ MinuteOf(k) \in Nat
               /\ \A k \in rows(p) : MinuteOf(k) \in Nat /\ MinuteOf(k) \in MinuteRange
    <2>1. mine(p) = VenueRows(TradeActions(b), p)
      BY DEF EligibleOf, Eligible, VenueRows
    <2>2. rows(p) = old(p) \cup mine(p)
      BY <2>1 DEF VenueRows
    <2>3. \A k \in mine(p) : k[1] = b /\ MinuteOf(k) = M /\ HeightOf(k) = Num[b]
      BY <2>1, BlockTrades, TradeMinutes DEF MinuteOf, HeightOf
    <2>4. \A k \in old(p) : k[1] \in Line[b] /\ MinuteOf(k) <= M
      BY <1>1, TradeMinutes DEF MinuteOf
    <2>5. \A k \in rows(p) : MinuteOf(k) \in Nat /\ MinuteOf(k) \in MinuteRange
      BY TradeMinutes DEF Rows
    <2> QED BY <2>2, <2>3, <2>4, <2>5
  <1>3. ASSUME NEW p \in Pool, NEW n \in MinuteRange
        PROVE  /\ mine(p) = {} => new[<<p, n>>] = cs[<<p, n>>]
               /\ mine(p) # {} /\ n = M =>
                    /\ new[<<p, n>>] # None
                    /\ \E k \in rows(p) : k[1] = new[<<p, n>>].writer /\ MinuteOf(k) = M
               /\ mine(p) # {} /\ n # M /\ gap(p, n) =>
                    new[<<p, n>>] # None /\ new[<<p, n>>].writer = b
               /\ mine(p) # {} /\ n # M /\ ~gap(p, n) => new[<<p, n>>] = cs[<<p, n>>]
    <2> DEFINE c == new[<<p, n>>]
    <2>1. /\ mine(p) = {} => c = cs[<<p, n>>]
          /\ mine(p) # {} /\ n = M /\ again => c = Rebuilt(InBucket(all, <<p, n>>), late)
          /\ mine(p) # {} /\ n = M /\ ~again =>
               c = AddTrades(cs[<<p, n>>], ByPosition(mine(p)), b, mine(p) \cap late # {})
          /\ mine(p) # {} /\ n # M /\ gap(p, n) => c = GapCandle(cs[<<p, prev(p)>>], b)
          /\ mine(p) # {} /\ n # M /\ ~gap(p, n) => c = cs[<<p, n>>]
      BY PersistAt
    <2>2. ASSUME mine(p) # {}, n = M, again
          PROVE  c # None /\ \E k \in rows(p) : k[1] = c.writer /\ MinuteOf(k) = M
      <3> DEFINE mins == InBucket(all, <<p, n>>)
      <3>1. Rows(mins) /\ mins \subseteq Countable(<<p, n>>)
        BY InBucketRows
      <3>2. mine(p) = InBucket(TradeActions(b), <<p, n>>)
        BY <2>2, BlockTrades
      <3>3. mins # {}
        BY <2>2, <3>2 DEF InBucket
      <3>4. c = Rebuilt(mins, late)
        BY <2>1, <2>2
      <3>5. \A k \in mins : k \in rows(p) /\ MinuteOf(k) = M
        BY <2>2 DEF InBucket, VenueRows, BucketOf, MinuteOf
      <3> HIDE DEF mins, c, new, rows
      <3>6. c # None /\ \E k \in mins : k[1] = c.writer
        BY <3>1, <3>3, <3>4, RebuiltIs
      <3> QED BY <3>5, <3>6
    <2>3. ASSUME mine(p) # {}, n = M, ~again
          PROVE  c # None /\ \E k \in rows(p) : k[1] = c.writer /\ MinuteOf(k) = M
      <3> DEFINE was1 == cs[<<p, n>>]
                 new1 == mine(p)
      <3>1. new1 = InBucket(TradeActions(b), <<p, n>>)
        BY <2>3, BlockTrades
      <3>2. Rows(new1) /\ new1 # {} /\ new1 \subseteq Countable(<<p, n>>)
        BY <2>3, <3>1, InBucketRows, BlockTrades
      <3>3. was1 = None \/ WellFormed(was1, <<p, n>>)
        BY Buckets DEF Formed
      <3>4. c = Added(was1, new1, b, late)
        BY <2>1, <2>3 DEF Added
      <3>5. \A k \in new1 : k \in rows(p) /\ k[1] = b /\ MinuteOf(k) = M
        BY <1>2
      <3> HIDE DEF was1, new1, c, new, rows
      <3>6. Adds(Added(was1, new1, b, late), was1, new1, b, <<p, n>>)
        BY <3>2, <3>3, AddedIs
      <3>7. c # None /\ c.writer = b
        BY <3>4, <3>6 DEF Adds
      <3> QED BY <3>2, <3>5, <3>7
    <2>4. ASSUME mine(p) # {}, n # M, gap(p, n) PROVE c # None /\ c.writer = b
      <3>1. prev(p) \in MinuteRange /\ cs[<<p, prev(p)>>] # None
        BY <2>4, PreviousIsLast, Buckets
      <3>2. WellFormed(cs[<<p, prev(p)>>], <<p, prev(p)>>)
        BY <3>1, Buckets DEF Formed
      <3>3. c = GapCandle(cs[<<p, prev(p)>>], b)
        BY <2>1, <2>4
      <3> HIDE DEF c, prev
      <3> QED BY <3>2, <3>3, GapIs
    <2> QED BY <2>1, <2>2, <2>3, <2>4
  <1>4. ASSUME NEW p \in Pool, prev(p) # None
        PROVE  /\ prev(p) \in MinuteRange /\ prev(p) \in Nat /\ prev(p) < M /\ was(p, prev(p))
               /\ \A n \in MinuteRange : prev(p) < n /\ n < M => ~was(p, n)
    BY <1>4, PreviousIsLast, Buckets
  <1>5. ASSUME NEW p \in Pool, prev(p) = None, NEW n \in MinuteRange, n < M PROVE ~was(p, n)
    <2>1. M \in MinuteRange
      BY Buckets
    <2>2. prev(p) = None => \A l \in MinuteRange : l < M => cs[<<p, l>>] = None
      <3> HIDE DEF M
      <3> QED BY <2>1, PreviousIsLast
    <2> HIDE DEF M, prev
    <2> QED BY <1>5, <2>2
  <1>6. Contiguous(cs)
    BY FilledIsContiguous DEF Rows
  <1>7. M \in Nat /\ \A n \in MinuteRange : n \in Nat
    BY Buckets
  <1> HIDE DEF new, M, prev, old, mine, rows
  <1>8. ASSUME NEW p \in Pool, NEW l \in MinuteRange, was(p, l)
        PROVE  /\ cs[<<p, l>>].writer \in Line[b]
               /\ \E k \in rows(p) : k[1] = cs[<<p, l>>].writer /\ MinuteOf(k) >= l
               /\ \A k \in rows(p) : MinuteOf(k) > l => Num[cs[<<p, l>>].writer] <= HeightOf(k)
    <2> DEFINE w == cs[<<p, l>>].writer
    <2>1. /\ w \in Line[Parent[b]]
          /\ \E k \in old(p) : k[1] = w /\ MinuteOf(k) >= l
          /\ \A k \in old(p) : MinuteOf(k) > l => Num[w] <= HeightOf(k)
      BY <1>8 DEF Written, old
    <2>2. w \in Line[b] /\ Num[w] <= Num[b]
      BY <1>1, <2>1
    <2> HIDE DEF w
    <2>3. \A k \in rows(p) : MinuteOf(k) > l => Num[w] <= HeightOf(k)
      BY <1>2, <2>1, <2>2
    <2> QED BY <1>2, <2>1, <2>2, <2>3 DEF w
  (* A gap candle comes after the trades of all candles before it. *)
  <1>9. ASSUME NEW p \in Pool, NEW n \in MinuteRange, gap(p, n), NEW k \in old(p)
        PROVE  MinuteOf(k) <= n
    <2> SUFFICES ASSUME MinuteOf(k) > n PROVE FALSE
      BY <1>2, <1>7
    <2>1. was(p, prev(p)) /\ prev(p) \in MinuteRange /\ ~was(p, n)
      BY <1>4, <1>9
    <2>2. was(p, n)
      BY <1>9, <2>1 DEF Filled, old
    <2> QED BY <2>1, <2>2
  <1>10. Written(new, all, Line[b])
    <2> SUFFICES ASSUME NEW p \in Pool, NEW l \in MinuteRange, new[<<p, l>>] # None
                 PROVE  /\ new[<<p, l>>].writer \in Line[b]
                        /\ \E k \in rows(p) : k[1] = new[<<p, l>>].writer /\ MinuteOf(k) >= l
                        /\ \A k \in rows(p) : MinuteOf(k) > l =>
                             Num[new[<<p, l>>].writer] <= HeightOf(k)
      BY DEF Written, rows
    <2> DEFINE c == new[<<p, l>>]
    <2>1. CASE c = cs[<<p, l>>]
      BY <1>8, <2>1
    <2>2. CASE mine(p) # {} /\ l = M
      <3>1. PICK k \in rows(p) : k[1] = c.writer /\ MinuteOf(k) = M
        BY <1>3, <2>2
      <3>2. c.writer \in Line[b]
        BY <1>1, <1>2, <3>1
      <3>3. \A j \in rows(p) : ~(MinuteOf(j) > l)
        BY <1>2, <1>7, <2>2
      <3> HIDE DEF c
      <3> QED BY <1>7, <2>2, <3>1, <3>2, <3>3 DEF c
    <2>3. CASE mine(p) # {} /\ l # M /\ gap(p, l)
      <3>1. c.writer = b
        BY <1>3, <2>3
      <3>2. \E k \in mine(p) : k[1] = b /\ MinuteOf(k) = M
        BY <1>2, <2>3
      <3>3. \A k \in rows(p) : MinuteOf(k) > l => HeightOf(k) = Num[b]
        <4> SUFFICES ASSUME NEW k \in rows(p), MinuteOf(k) > l PROVE k \in mine(p)
          BY <1>2
        <4>1. k \notin old(p)
          BY <1>2, <1>7, <1>9, <2>3
        <4> QED BY <1>2, <4>1
      <3>4. \E k \in rows(p) : k[1] = c.writer /\ MinuteOf(k) >= l
        BY <1>2, <1>7, <2>3, <3>1, <3>2
      <3> QED BY <1>1, <3>1, <3>3, <3>4
    <2> QED BY <1>3, <2>1, <2>2, <2>3
  <1>11. ASSUME NEW p \in Pool, NEW n \in MinuteRange, was(p, n) PROVE new[<<p, n>>] # None
    BY <1>3, <1>11
  <1>12. Filled(new, all)
    <2> SUFFICES ASSUME NEW p \in Pool, NEW l \in MinuteRange, NEW m \in MinuteRange,
                        NEW k \in rows(p), new[<<p, l>>] # None, l < m, m < MinuteOf(k)
                 PROVE  new[<<p, m>>] # None
      BY DEF Filled, rows
    <2>1. l \in Nat /\ m \in Nat /\ MinuteOf(k) \in Nat /\ M \in Nat /\ MinuteOf(k) <= M
      BY <1>2, <1>7
    <2>2. CASE was(p, l) /\ k \in old(p)
      <3>1. was(p, m)
        BY <2>2 DEF Filled, old
      <3> QED BY <1>11, <3>1
    <2>3. CASE ~was(p, l) /\ k \in old(p)
      <3>1. new[<<p, l>>] # cs[<<p, l>>]
        BY <2>3
      <3>2. mine(p) # {} /\ (l = M \/ gap(p, l))
        BY <1>3, <3>1
      <3>3. l # M
        BY <2>1
      <3>4. MinuteOf(k) <= l
        BY <1>9, <2>3, <3>2, <3>3
      <3> QED BY <2>1, <3>4
    <2>4. CASE k \in mine(p)
      <3>1. MinuteOf(k) = M /\ mine(p) # {} /\ m # M /\ l # M /\ l < M /\ m < M
        BY <1>2, <2>1, <2>4
      <3>2. was(p, l) \/ gap(p, l)
        BY <1>3, <3>1
      <3>3. prev(p) # None
        BY <1>5, <3>1, <3>2
      <3>4. prev(p) \in MinuteRange /\ prev(p) \in Nat /\ was(p, prev(p))
        BY <1>4, <3>3
      <3>5. CASE prev(p) < m
        BY <1>3, <3>1, <3>3, <3>5
      <3>6. CASE m <= prev(p)
        <4>1. l < prev(p) /\ was(p, l)
          BY <2>1, <3>2, <3>4, <3>6
        <4>2. was(p, m)
          BY <1>6, <2>1, <3>4, <3>6, <4>1 DEF Contiguous
        <4> QED BY <1>11, <4>2
      <3> QED BY <2>1, <3>4, <3>5, <3>6
    <2> QED BY <1>2, <2>2, <2>3, <2>4
  <1> QED BY <1>10, <1>12 DEF new

(* A rewind along the line *)
LEMMA CutWrites ==
  ASSUME NEW cs, Formed(cs), NEW ts, Rows(ts), NEW c \in Block, NEW a \in Line[c],
         Written(cs, ts, Line[c]), Filled(cs, ts)
  PROVE  LET new == CutCandles(cs, Num[a] + 1, {})
             left == {k \in ts : HeightOf(k) < Num[a] + 1}
         IN  Written(new, left, Line[a]) /\ Filled(new, left)
  <1> DEFINE h == Num[a] + 1
             new == CutCandles(cs, h, {})
             left == {k \in ts : HeightOf(k) < h}
             was(p, n) == cs[<<p, n>>] # None
             w(p, n) == cs[<<p, n>>].writer
  <1>1. a \in Block /\ h \in Int /\ Num[a] \in Int
    BY Lines, TreeAssumption
  <1>2. ASSUME NEW p \in Pool, NEW n \in MinuteRange
        PROVE  /\ new[<<p, n>>] # None => new[<<p, n>>] = cs[<<p, n>>] /\ was(p, n) /\ ~(Num[w(p, n)] >= h)
               /\ was(p, n) /\ ~(Num[w(p, n)] >= h) => new[<<p, n>>] # None
    BY Buckets DEF CutCandles
  <1>3. ASSUME NEW p \in Pool, NEW n \in MinuteRange, was(p, n)
        PROVE  /\ Num[w(p, n)] \in Int /\ w(p, n) \in Line[c]
               /\ Num[w(p, n)] < h => w(p, n) \in Line[a]
    <2>1. w(p, n) \in Line[c]
      BY <1>3 DEF Written
    <2>2. w(p, n) \in Block /\ Num[w(p, n)] \in Int
      BY <2>1, Lines, TreeAssumption
    <2> HIDE DEF w
    <2>3. Num[w(p, n)] < h => Num[w(p, n)] <= Num[a]
      BY <1>1, <2>2
    <2> QED BY <2>1, <2>2, <2>3, Lines
  <1>4. ASSUME NEW p \in Pool
        PROVE  /\ VenueRows(left, p) = {k \in VenueRows(ts, p) : HeightOf(k) < h}
               /\ \A k \in VenueRows(ts, p) : HeightOf(k) \in Int
    BY Keys, TreeAssumption DEF VenueRows, Rows
  <1> HIDE DEF new, left, h
  <1>5. Written(new, left, Line[a])
    <2> SUFFICES ASSUME NEW p \in Pool, NEW l \in MinuteRange, new[<<p, l>>] # None
                 PROVE  /\ w(p, l) \in Line[a]
                        /\ \E k \in VenueRows(left, p) : k[1] = w(p, l) /\ MinuteOf(k) >= l
                        /\ \A k \in VenueRows(left, p) : MinuteOf(k) > l => Num[w(p, l)] <= HeightOf(k)
      BY <1>2 DEF Written
    <2>1. was(p, l) /\ Num[w(p, l)] < h /\ w(p, l) \in Line[a]
      BY <1>1, <1>2, <1>3
    <2>2. PICK k \in VenueRows(ts, p) : k[1] = w(p, l) /\ MinuteOf(k) >= l
      BY <2>1 DEF Written
    <2>3. k \in VenueRows(left, p)
      BY <1>4, <2>1, <2>2 DEF HeightOf
    <2>4. \A j \in VenueRows(ts, p) : MinuteOf(j) > l => Num[w(p, l)] <= HeightOf(j)
      BY <2>1 DEF Written
    <2> QED BY <1>4, <2>1, <2>2, <2>3, <2>4
  <1>6. Filled(new, left)
    <2> SUFFICES ASSUME NEW p \in Pool, NEW l \in MinuteRange, NEW m \in MinuteRange,
                        NEW k \in VenueRows(left, p),
                        new[<<p, l>>] # None, l < m, m < MinuteOf(k)
                 PROVE  new[<<p, m>>] # None
      BY DEF Filled
    <2>1. k \in VenueRows(ts, p) /\ HeightOf(k) < h /\ HeightOf(k) \in Int
      BY <1>4
    <2>2. was(p, m)
      BY <1>2, <2>1 DEF Filled
    <2>3. Num[w(p, m)] <= HeightOf(k)
      <3>1. MinuteOf(k) > m
        BY <2>1, TradeMinutes, Buckets DEF Rows
      <3> QED BY <2>1, <2>2, <3>1 DEF Written
    <2>4. ~(Num[w(p, m)] >= h)
      BY <1>1, <1>3, <2>1, <2>2, <2>3
    <2> QED BY <1>2, <2>2, <2>4
  <1> QED BY <1>5, <1>6 DEF new, left, h

(* Rebuilding *)
LEMMA RemadeWrites ==
  ASSUME NEW cs, NEW new, NEW ts, Rows(ts), NEW c \in Block, \A k \in ts : k[1] \in Line[c],
         Written(cs, ts, Line[c]), Filled(cs, ts), NEW late,
         \A bk \in Bucket : Remade(cs[bk], new[bk], InBucket(ts, bk), bk, late)
  PROVE  Written(new, ts, Line[c]) /\ Filled(new, ts)
  <1>1. ASSUME NEW bk \in Bucket
        PROVE  /\ new[bk] # None <=> cs[bk] # None
               /\ new[bk] # None => \/ new[bk].writer = cs[bk].writer
                                    \/ \E k \in InBucket(ts, bk) : k[1] = new[bk].writer
    <2>1. CASE cs[bk] # None /\ InBucket(ts, bk) # {} /\ new[bk] = Rebuilt(InBucket(ts, bk), late)
      BY <2>1, InBucketRows, RebuiltIs
    <2>2. Remade(cs[bk], new[bk], InBucket(ts, bk), bk, late)
      OBVIOUS
    <2> QED BY <2>1, <2>2 DEF Remade
  <1>2. ASSUME NEW p \in Pool, NEW l \in MinuteRange, new[<<p, l>>] # None
        PROVE  /\ new[<<p, l>>].writer \in Line[c]
               /\ \E k \in VenueRows(ts, p) : k[1] = new[<<p, l>>].writer /\ MinuteOf(k) >= l
               /\ \A k \in VenueRows(ts, p) : MinuteOf(k) > l =>
                    Num[new[<<p, l>>].writer] <= HeightOf(k)
    <2>0. <<p, l>> \in Bucket /\ l \in Nat
      BY Buckets
    <2>1. CASE new[<<p, l>>].writer = cs[<<p, l>>].writer
      <3>1. cs[<<p, l>>] # None
        BY <1>1, <1>2, <2>0
      <3> QED BY <2>1, <3>1 DEF Written
    <2>2. CASE \E k \in InBucket(ts, <<p, l>>) : k[1] = new[<<p, l>>].writer
      <3>1. PICK k \in InBucket(ts, <<p, l>>) : k[1] = new[<<p, l>>].writer
        BY <2>2
      <3>2. k \in VenueRows(ts, p) /\ MinuteOf(k) = l /\ k[1] \in Line[c]
        BY <3>1 DEF InBucket, VenueRows, BucketOf, MinuteOf
      <3>3. ASSUME NEW j \in VenueRows(ts, p), MinuteOf(j) > l PROVE Num[k[1]] <= HeightOf(j)
        <4>1. j[1] \in Line[c] /\ j \in Key
          BY DEF VenueRows, Rows
        <4>2. Num[j[1]] \in Int /\ Num[k[1]] \in Int
          BY <3>2, <4>1, Lines, TreeAssumption
        <4>3. Num[j[1]] <= Num[k[1]] => MinuteOf(j) <= l
          BY <3>2, <4>1, MinutesGrow DEF MinuteOf
        <4>4. MinuteOf(j) \in Nat
          BY <4>1, TradeMinutes
        <4> QED BY <2>0, <3>3, <4>2, <4>3, <4>4 DEF HeightOf
      <3> QED BY <2>0, <3>1, <3>2, <3>3
    <2> QED BY <1>1, <1>2, <2>0, <2>1, <2>2
  <1>3. Written(new, ts, Line[c])
    BY <1>2 DEF Written
  <1>4. \A p \in Pool, n \in MinuteRange : new[<<p, n>>] # None <=> cs[<<p, n>>] # None
    BY <1>1, Buckets
  <1>5. Filled(new, ts)
    BY <1>4 DEF Filled
  <1> QED BY <1>3, <1>5

(***************************************************************************)
(* What is so of the candles in every state, and what they count and cover *)
(* as long as no commit slipped into a rewind                              *)
(***************************************************************************)

TradesOf(b) == UNION {TradeActions(c) : c \in Line[b]}

CountInv ==
  /\ strays # 0 => torn = Bucket
  /\ strays = 0 => /\ trades = TradesOf(cp)
                   /\ Written(candles, trades, Line[cp]) /\ Filled(candles, trades)
  /\ \A bk \in Bucket \ torn : Exact(candles[bk], InBucket(trades, bk))

LEMMA OnTheLine ==
  ASSUME NEW b \in Block
  PROVE  \A k \in TradesOf(b) : k[1] \in Line[b] /\ HeightOf(k) <= Num[b] /\ HeightOf(k) \in Int
  <1> SUFFICES ASSUME NEW k \in TradesOf(b)
               PROVE  k[1] \in Line[b] /\ HeightOf(k) <= Num[b] /\ HeightOf(k) \in Int
    OBVIOUS
  <1>1. PICK c \in Line[b] : k \in TradeActions(c)
    BY DEF TradesOf
  <1>2. c \in Block /\ Num[c] <= Num[b] /\ Num[c] \in Int
    BY Lines, TreeAssumption
  <1>3. k[1] = c
    BY <1>1, <1>2, BlockTrades
  <1> QED BY <1>2, <1>3 DEF HeightOf

LEMMA InitCounts == ASSUME Init PROVE CountInv
  <1>1. Line[Root] = {Root} /\ TradeActions(Root) = {}
    BY LineAssumption, TreeAssumption, MarketAssumption DEF TradeActions, KeysOf
  <1>2. TradesOf(Root) = {}
    BY <1>1 DEF TradesOf
  <1>3. \A bk : InBucket({}, bk) = {}
    BY DEF InBucket
  <1>4. /\ candles = [bk \in Bucket |-> None] /\ trades = {} /\ cp = Root
        /\ strays = 0 /\ torn = {}
    BY DEF Init
  <1>5. Written(candles, trades, Line[cp]) /\ Filled(candles, trades)
    BY <1>4, Buckets DEF Written, Filled
  <1> QED BY <1>2, <1>3, <1>4, <1>5, NothingIsExact DEF CountInv

LEMMA CommitKeepsCounts ==
  ASSUME TablesInv, CandlesInv, CandlesInv', CountInv, CommitBlock PROVE CountInv'
  <1> DEFINE b == reading.block
             again == Reconciling(incident \cup stuck, b)
             kept == {k \in trades : HeightOf(k) # Num[b]}
             cs == ClearCandles(candles, Num[b])
  <1>1. b \in Block /\ Parent[b] = cp /\ cp \in Block /\ Parent[b] # None
    BY TreeAssumption DEF TablesInv, CommitBlock, Reading
  <1>2. /\ trades' = kept \cup TradeActions(b)
        /\ candles' = PersistCandles(cs, b, trades', pending', again)
        /\ cp' = b /\ strays' = strays /\ torn' = torn
    BY DEF CommitBlock, StoredRows, UpsertTrades
  <1>3. again \in BOOLEAN
    BY DEF Reconciling
  <1>4. CASE strays # 0
    BY <1>2, <1>4 DEF CountInv
  <1>5. CASE strays = 0
    <2>1. /\ trades = TradesOf(cp) /\ Written(candles, trades, Line[cp])
          /\ Filled(candles, trades)
      BY <1>5 DEF CountInv
    <2>2. Num[b] = Num[cp] + 1 /\ Num[cp] \in Int /\ Num[b] \in Int
      BY <1>1, TreeAssumption
    <2>3. \A k \in trades : k[1] \in Line[cp] /\ HeightOf(k) # Num[b] /\ k[1] # b
      BY <1>1, <2>1, <2>2, OnTheLine DEF HeightOf
    <2>4. kept = trades
      BY <2>3
    <2>5. cs = candles
      <3>1. candles = [bk \in Bucket |-> candles[bk]]
        BY DEF CandlesInv, Formed
      <3>2. ASSUME NEW bk \in Bucket, candles[bk] # None PROVE Num[candles[bk].writer] # Num[b]
        <4>1. candles[bk].writer \in Line[cp]
          BY <2>1, <3>2, Buckets DEF Written
        <4>2. Num[candles[bk].writer] <= Num[cp] /\ Num[candles[bk].writer] \in Int
          BY <1>1, <4>1, Lines, TreeAssumption
        <4> QED BY <2>2, <4>2
      <3>3. cs = [bk \in Bucket |-> candles[bk]]
        BY <3>2 DEF ClearCandles
      <3> QED BY <3>1, <3>3
    <2>6. trades' = trades \cup TradeActions(b)
      BY <1>2, <2>4
    <2>7. candles' = PersistCandles(candles, b, trades', pending', again)
      BY <1>2, <2>5
    <2>8. Rows(trades) /\ Rows(trades') /\ Formed(candles)
      BY DEF CandlesInv
    <2> HIDE DEF b, again, kept, cs
    <2>9. trades' = TradesOf(cp')
      <3>1. Line[b] = {b} \cup Line[cp]
        BY <1>1, LineAssumption
      <3> QED BY <1>2, <2>1, <2>6, <3>1 DEF TradesOf
    <2>10. Written(candles', trades', Line[cp']) /\ Filled(candles', trades')
      BY <1>1, <1>2, <1>3, <2>1, <2>3, <2>6, <2>7, <2>8, PersistWrites
    <2>11. ASSUME NEW bk \in Bucket \ torn PROVE Exact(candles'[bk], InBucket(trades', bk))
      <3>1. bk = <<bk[1], bk[2]>> /\ bk[1] \in Pool /\ bk[2] \in MinuteRange
        BY Buckets
      <3>2. Exact(candles[bk], InBucket(trades, bk))
        BY DEF CountInv
      <3> QED BY <1>1, <1>3, <2>3, <2>6, <2>7, <2>8, <3>1, <3>2, PersistCounts
    <2> QED BY <1>2, <1>5, <2>9, <2>10, <2>11 DEF CountInv
  <1> QED BY <1>4, <1>5

LEMMA RewindKeepsCounts ==
  ASSUME TablesInv, CandlesInv, CountInv, NEW a \in Block, Rewind(a) PROVE CountInv'
  <1> DEFINE h == Num[a] + 1
  <1>1. /\ trades' = {k \in trades : HeightOf(k) < h} /\ candles' = CutCandles(candles, h, {})
        /\ cp' = a /\ strays' = strays /\ torn' = torn \cup Straddling(h)
        /\ a \in Line[cp] /\ cp \in Block
    BY DEF Rewind, TablesInv
  <1>2. Rows(trades) /\ Formed(candles)
    BY DEF CandlesInv
  <1>3. h \in Int /\ Num[a] \in Int
    BY TreeAssumption
  <1>4. strays # 0 => torn' = Bucket
    BY <1>1 DEF CountInv, Straddling
  <1>5. ASSUME strays = 0
        PROVE  /\ trades' = TradesOf(a)
               /\ Written(candles', trades', Line[a]) /\ Filled(candles', trades')
    <2>1. /\ trades = TradesOf(cp) /\ Written(candles, trades, Line[cp])
          /\ Filled(candles, trades)
      BY <1>5 DEF CountInv
    <2>2. ASSUME NEW c \in Line[cp], NEW k \in TradeActions(c)
          PROVE  HeightOf(k) < h <=> c \in Line[a]
      <3>1. c \in Block /\ Num[c] \in Int /\ k[1] = c
        BY <1>1, Lines, TreeAssumption, BlockTrades
      <3>2. c \in Line[a] => Num[c] <= Num[a]
        BY Lines
      <3>3. Num[c] <= Num[a] => c \in Line[a]
        BY <1>1, Lines
      <3> QED BY <1>3, <3>1, <3>2, <3>3 DEF HeightOf
    <2>3. Line[a] \subseteq Line[cp]
      BY <1>1, Lines
    <2> HIDE DEF h
    <2>4. trades' = TradesOf(a)
      BY <1>1, <2>1, <2>2, <2>3 DEF TradesOf
    <2>5. Written(candles', trades', Line[a]) /\ Filled(candles', trades')
      BY <1>1, <1>2, <2>1, CutWrites DEF h
    <2> QED BY <2>4, <2>5
  <1>6. ASSUME NEW bk \in Bucket \ torn' PROVE Exact(candles'[bk], InBucket(trades', bk))
    <2>1. bk \notin torn /\ bk \notin Straddling(h)
      BY <1>1
    <2>2. Exact(candles[bk], InBucket(trades, bk))
      BY <2>1 DEF CountInv
    <2>3. \A k \in InBucket(trades, bk) : HeightOf(k) \in Int
      BY <1>2, InBucketRows, Keys, TreeAssumption DEF Rows
    <2>4. \/ \A k \in InBucket(trades, bk) : HeightOf(k) < h
          \/ \A k \in InBucket(trades, bk) : HeightOf(k) >= h
      <3> HIDE DEF h
      <3> QED BY <1>3, <2>1, <2>3 DEF Straddling
    <2> QED BY <1>1, <1>2, <1>3, <2>2, <2>4, CutCounts
  <1> QED BY <1>1, <1>4, <1>5, <1>6 DEF CountInv

LEMMA StrayKeepsCounts ==
  ASSUME TablesInv, NEW a \in Block, RewindPastCommit(a) PROVE CountInv'
  <1>1. torn' = Bucket /\ strays' = strays + 1 /\ strays \in Nat
    BY DEF RewindPastCommit, TablesInv
  <1> QED BY <1>1 DEF CountInv

LEMMA ResolveKeepsCounts ==
  ASSUME TablesInv, CandlesInv, CountInv, NEW t \in Token, ResolveDecimals(t) PROVE CountInv'
  <1>1. /\ trades' = trades /\ candles' = RebuildPending(candles, t, trades, pending')
        /\ cp' = cp /\ strays' = strays /\ torn' = torn
    BY DEF ResolveDecimals
  <1>2. Rows(trades) /\ Formed(candles) /\ cp \in Block
    BY DEF CandlesInv, TablesInv
  <1>3. \A bk \in Bucket : Remade(candles[bk], candles'[bk], InBucket(trades, bk), bk, pending')
    BY <1>1, <1>2, PendingRemakes
  <1>4. ASSUME strays = 0
        PROVE  Written(candles', trades, Line[cp]) /\ Filled(candles', trades)
    <2>1. /\ trades = TradesOf(cp) /\ Written(candles, trades, Line[cp])
          /\ Filled(candles, trades)
      BY <1>4 DEF CountInv
    <2>2. \A k \in trades : k[1] \in Line[cp]
      BY <1>2, <2>1, OnTheLine
    <2> QED BY <1>2, <1>3, <2>1, <2>2, RemadeWrites
  <1>5. ASSUME NEW bk \in Bucket \ torn PROVE Exact(candles'[bk], InBucket(trades, bk))
    <2>1. Exact(candles[bk], InBucket(trades, bk))
      BY DEF CountInv
    <2> QED BY <1>2, <1>3, <2>1, RemadeCounts
  <1> QED BY <1>1, <1>4, <1>5 DEF CountInv

LEMMA StepKeepsCounts ==
  ASSUME TablesInv, CandlesInv, CandlesInv', CountInv, [Next]_vars PROVE CountInv'
  <1>1. ASSUME NEW b \in Block, BeginBlock(b) PROVE CountInv'
    BY <1>1 DEF CountInv, BeginBlock
  <1>2. CASE DropBlock
    BY <1>2 DEF CountInv, DropBlock
  <1>3. CASE EndReplay
    BY <1>3 DEF CountInv, EndReplay
  <1>4. CASE UNCHANGED vars
    BY <1>4 DEF CountInv, vars
  <1> QED BY <1>1, <1>2, <1>3, <1>4, CommitKeepsCounts, RewindKeepsCounts,
             StrayKeepsCounts, ResolveKeepsCounts DEF Next

LEMMA CountsAlways == Spec => [](CandlesInv /\ CountInv)
  <1>1. Init => TablesInv /\ CandlesInv /\ CountInv
    BY InitTables, InitCandles, InitCounts
  <1>2. TablesInv /\ CandlesInv /\ CountInv /\ [Next]_vars =>
          TablesInv' /\ CandlesInv' /\ CountInv'
    BY StepKeepsTables, StepKeepsCandles, StepKeepsCounts
  <1> QED BY <1>1, <1>2, PTL DEF Spec

(* Every candle counts each venue trade of its bucket once and no other, in every bucket
   that no rewind went through the middle of: however the candle came about, by adding
   to it, ahead of time as a gap, or rebuilt after a rewind or for new decimals. *)
THEOREM CandlesCountOnce == Spec => []CandlesCountEachTradeOnce
  <1>1. CountInv => CandlesCountEachTradeOnce
    BY DEF CountInv, Exact, CountedIn, CandlesCountEachTradeOnce
  <1> QED BY <1>1, CountsAlways, PTL

(* The candles of a pool have no hole between the first and the last. *)
THEOREM CandlesStayContiguous == Spec => []CandlesAreContiguous
  <1>1. CandlesInv /\ CountInv => CandlesAreContiguous
    <2> SUFFICES ASSUME CandlesInv, CountInv, strays = 0 PROVE Contiguous(candles)
      BY DEF CandlesAreContiguous, Contiguous
    <2>1. trades \subseteq Key /\ Written(candles, trades, Line[cp]) /\ Filled(candles, trades)
      BY DEF CandlesInv, Rows, CountInv
    <2> QED BY <2>1, FilledIsContiguous
  <1> QED BY <1>1, CountsAlways, PTL
=============================================================================
