---------------------------- MODULE TradePricing ----------------------------
(***************************************************************************)
(* core/trades.js and resolveUsdPriceFromGraph (lib/cairo/fixed-point.js): *)
(* the dollar prices the trades of one block put forward.                  *)
(*                                                                         *)
(* A price keeps what the tables are judged by: the block its anchor was   *)
(* traded in (at), whether it is flagged stale, and whether a ratio of raw *)
(* amounts went into it because a token's decimals were unknown (raw).     *)
(* The numbers themselves are left out.  The search is limited to two      *)
(* pools, so the hops of a result, counted beyond the first pool, are at   *)
(* most one, which PHASE3_MAX_PRICE_TABLE_HOPS_FROM_STABLE and the low     *)
(* confidence flag let pass at their defaults: neither is modelled.        *)
(***************************************************************************)
EXTENDS MarketData

Price == [at : Height, stale : BOOLEAN, raw : BOOLEAN]
Dollar(h) == [at |-> h, stale |-> FALSE, raw |-> FALSE]

(* loadLatestPriceContext, then seedStablePrices: what is known of the tokens
   before the first trade of block b.  prices holds the rows of stark_prices. *)
InitialContext(b, traded, prices) ==
  [t \in Token |->
     IF t \in traded \cap Stable THEN Dollar(Num[b])
     ELSE IF t \in traded \cup Bridge /\ prices[t] # None
     THEN prices[t].price
     ELSE None]

(* deriveTradePrice: the ratio of raw amounts unless both decimals are known *)
RawRatio(p, known) == ~(TokensOf(p) \subseteq known)

BothWays(p, raw) ==
  {[from |-> Token0[p], to |-> Token1[p], depth |-> Depth[p], raw |-> raw],
   [from |-> Token1[p], to |-> Token0[p], depth |-> Depth[p], raw |-> raw]}

(* loadBridgeEdges and loadPoolLiquidityById: pools whose last state has a TVL *)
HasTvl(p, latest) == latest[p] # None /\ latest[p].tvl
BridgeEdges(traded, latest) ==
  UNION {BothWays(p, FALSE) :
           p \in {p \in Pool : HasTvl(p, latest) /\ TokensOf(p) \subseteq traded \cup Bridge}}

(* buildActionEdges: the trade's own pool, at the trade's own rate *)
ActionEdges(p, latest, known) ==
  IF HasTvl(p, latest) THEN BothWays(p, RawRatio(p, known)) ELSE {}

(* buildAdjacency and the breadth-first search: every way from t over one or two
   sufficiently deep pools to a token with a price. *)
Ways(t, ctx, edges) ==
  LET deep == {e \in edges : e.depth >= MinDepth}
      one == {e \in deep : e.from = t /\ ctx[e.to] # None}
      two == {w \in deep \X deep : /\ w[1].from = t /\ w[2].from = w[1].to
                                  /\ w[2].to # t /\ ctx[w[2].to] # None}
      least(m, n) == IF m < n THEN m ELSE n
      way(hops, depth, raw, anchor) ==
        [hops |-> hops, depth |-> depth,
         price |-> [ctx[anchor] EXCEPT !.raw = @ \/ raw]]
  IN  {way(1, e.depth, e.raw, e.to) : e \in one}
      \cup {way(2, least(w[1].depth, w[2].depth), w[1].raw \/ w[2].raw, w[2].to) : w \in two}

(* compareResolvedPaths: fresh anchors first, then fewer hops, deeper, newer. *)
Better(w, v) ==
  \/ ~w.price.stale /\ v.price.stale
  \/ /\ w.price.stale = v.price.stale
     /\ \/ w.hops < v.hops
        \/ w.hops = v.hops /\ w.depth > v.depth
        \/ w.hops = v.hops /\ w.depth = v.depth /\ w.price.at > v.price.at

(* resolveUsdPriceFromGraph: a fresh price of the token itself ends the search. *)
GraphPrice(t, ctx, edges) ==
  LET W == Ways(t, ctx, edges) IN
  IF ctx[t] # None /\ ~ctx[t].stale THEN ctx[t]
  ELSE IF W = {} THEN None
  ELSE (CHOOSE w \in W : \A v \in W : ~Better(v, w)).price

(* resolveUsdPriceForToken: a stable token, the other side of a stable token at
   the trade's ratio, or the graph. *)
UsdPrice(t, p, h, known, ctx, edges) ==
  IF t \in Stable THEN Dollar(h)
  ELSE IF TokensOf(p) \cap Stable # {} THEN [Dollar(h) EXCEPT !.raw = RawRatio(p, known)]
  ELSE GraphPrice(t, ctx, edges)

(* deriveTrade: the dollar prices of a trade's two tokens *)
TradePrices(k, h, known, ctx, edges, latest) ==
  LET p == EventOf(k).pool IN
  [t \in TokensOf(p) |->
     UsdPrice(t, p, h, known, ctx, edges \cup ActionEdges(p, latest, known))]

(* buildPriceCandidates, and the end of the loop of persistTradesForBlock: later
   trades of the block see the prices of the candidates. *)
Candidates(acc, k, price) ==
  LET priced == {t \in DOMAIN price : price[t] # None} IN
  [ctx |-> [t \in Token |-> IF t \in priced THEN price[t] ELSE acc.ctx[t]],
   found |-> acc.found \cup {[token |-> t, key |-> k, price |-> price[t]] : t \in priced}]

(* The tokens a block trades: collectTradeTokenAddresses *)
Traded(b) == UNION {TokensOf(EventOf(k).pool) : k \in TradeActions(b)}

(* The prices before the first trade; without a trade none are looked up. *)
StartOfBlock(b, prices) ==
  [ctx |-> IF TradeActions(b) = {} THEN [t \in Token |-> None]
           ELSE InitialContext(b, Traded(b), prices),
   found |-> {}]

PriceTrade(acc, k, known, edges, latest) ==
  Candidates(acc, k, TradePrices(k, HeightOf(k), known, acc.ctx, edges, latest))

(* The loop of persistTradesForBlock: what is known after the first i events. *)
PricedUpTo(b, known, prices, latest) ==
  LET edges == BridgeEdges(Traded(b), latest)
      upTo[i \in 0..Len(Events[b])] ==
        IF i = 0 THEN StartOfBlock(b, prices)
        ELSE IF <<b, i>> \in TradeActions(b)
             THEN PriceTrade(upTo[i - 1], <<b, i>>, known, edges, latest)
        ELSE upTo[i - 1]
  IN  upTo

(* persistTradesForBlock: the context after the block's trades, which the pool
   states use next, and the candidates for the price tables.  Without a trade the
   context is empty. *)
PriceBlock(b, known, prices, latest) ==
  PricedUpTo(b, known, prices, latest)[Len(Events[b])]

(* resolveTokenDecimals of both tokens: pending_enrichment of a trade *)
Pending(k, known) == RawRatio(EventOf(k).pool, known)

(* bulkUpsertTrades: one row per transaction and event *)
UpsertTrades(rows, new) == rows \cup new

(* repricePendingEnrichmentTrades: the pending trades of a resolved token's pools are
   derived again, from the prices of now; only their own rows are written. *)
Reprice(pending, t, known) ==
  {k \in pending : t \notin TokensOf(EventOf(k).pool) \/ Pending(k, known)}
=============================================================================
