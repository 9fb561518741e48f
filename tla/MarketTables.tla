---------------------------- MODULE MarketTables ----------------------------
(***************************************************************************)
(* core/prices.js and core/pool-state.js: the price ticks and the latest   *)
(* price of every token, the pool state history and the latest state of    *)
(* every pool.  Each operator is one function of the code, from the old    *)
(* rows to the new ones.  Both tables follow one pattern: history rows are *)
(* keyed by the event, the latest row is upserted under an order guard,    *)
(* and storing a height again first restores what was latest before it.    *)
(***************************************************************************)
EXTENDS TradePricing

Tick == [token : Token, key : Key, price : Price]
PoolRow == [pool : Pool, key : Key, tvl : BOOLEAN]

ASSUME RowAssumption == None \notin Price \cup Tick \cup PoolRow

Newest(rows) == CHOOSE r \in rows : \A q \in rows : ~Later(q.key, r.key)

\* Mutant of Upsert: the newest write wins.
UpsertAny(row, r) == r

(* The guard of ON CONFLICT DO UPDATE in upsertLatestPrice *)
Upsert(row, r) ==
  IF \/ row = None
     \/ HeightOf(row.key) < HeightOf(r.key)
     \/ HeightOf(row.key) = HeightOf(r.key) /\ (row.key[1] # r.key[1] \/ row.key[2] <= r.key[2])
  THEN r ELSE row

(* upsertPoolLatest has the same guard. *)
UpsertPool(row, r) == Upsert(row, r)

(* What resetLatestPricesForBlock and resetPoolStateForBlock leave of a latest
   row: with a row at height h to forget, the newest row that remains. *)
Restored(row, old, kept, h) ==
  LET affected == \/ row # None /\ HeightOf(row.key) = h
                  \/ \E r \in old : HeightOf(r.key) = h
      below == IF row # None /\ HeightOf(row.key) = h THEN None ELSE row
  IN  IF ~affected THEN row
      ELSE IF kept = {} THEN None
      ELSE Upsert(below, Newest(kept))

Without(rows, h) == {r \in rows : HeightOf(r.key) # h}

(* resetLatestPricesForBlock *)
ResetPrices(prices, ticks, h) ==
  LET of(rows, t) == {r \in rows : r.token = t} IN
  [t \in Token |-> Restored(prices[t], of(ticks, t), of(Without(ticks, h), t), h)]

(* resetPoolStateForBlock *)
ResetPools(latest, history, h) ==
  LET of(rows, p) == {r \in rows : r.pool = p} IN
  [p \in Pool |-> Restored(latest[p], of(history, p), of(Without(history, h), p), h)]

\* Mutant of PriceRow: the age of the anchor is not looked at.
PriceRowAgeless(c) == c

(* normalizeCandidates: a price whose anchor is too old is flagged stale. *)
PriceRow(c) ==
  [c EXCEPT !.price.stale = @ \/ HeightOf(c.key) - c.price.at > StaleAfter]

(* insertPriceTick for every candidate of a venue trade *)
NewTicks(found) == {PriceRow(c) : c \in {c \in found : Venue(c.key)}}

(* persistPriceDataForBlock: the newest tick of a token becomes its latest price. *)
PersistPrices(prices, found) ==
  [t \in Token |->
     LET mine == {c \in NewTicks(found) : c.token = t} IN
     IF mine = {} THEN prices[t] ELSE Upsert(prices[t], Newest(mine))]

(* loadPoolStateActions: syncs, and the swaps that carry their pool's state *)
PoolActions(b) == {<<b, i>> : i \in {i \in DOMAIN Events[b] :
                     Events[b][i].kind = "sync" \/ Events[b][i].pool \in Clmm}}

(* derivePoolSnapshot and deriveTvlUsd: only a sync can have a TVL, if both tokens
   have decimals and a price in the block's context. *)
Snapshot(k, ctx, known) ==
  [pool |-> EventOf(k).pool, key |-> k,
   tvl |-> /\ EventOf(k).kind = "sync"
           /\ TokensOf(EventOf(k).pool) \subseteq known
           /\ \A t \in TokensOf(EventOf(k).pool) : ctx[t] # None]

PoolRows(b, ctx, known) == {Snapshot(k, ctx, known) : k \in PoolActions(b)}

(* persistPoolStateForBlock *)
PersistPools(latest, rows) ==
  [p \in Pool |->
     LET mine == {r \in rows : r.pool = p} IN
     IF mine = {} THEN latest[p] ELSE UpsertPool(latest[p], Newest(mine))]

(***************************************************************************)
(* The four tables after processAcceptedBlock stored block b: what is left *)
(* of the height is cleared, then trades, pool states and prices follow.   *)
(***************************************************************************)
StoreMarket(m, b, known) ==
  LET h == Num[b]
      prices == ResetPrices(m.prices, m.ticks, h)
      latest == ResetPools(m.latest, m.history, h)
      priced == PriceBlock(b, known, prices, latest)
      rows == PoolRows(b, priced.ctx, known)
  IN  [ticks |-> Without(m.ticks, h) \cup NewTicks(priced.found),
       prices |-> PersistPrices(prices, priced.found),
       history |-> Without(m.history, h) \cup rows,
       latest |-> PersistPools(latest, rows)]

\* Mutant of CutMarket: the latest rows are kept.
CutMarketHistory(m, h, extra) ==
  [m EXCEPT !.ticks = {r \in @ : HeightOf(r.key) < h \/ r.key[1] \in extra},
            !.history = {r \in @ : HeightOf(r.key) < h \/ r.key[1] \in extra}]

(* deleteReconciliationWindow and restoreLatestMaterializedState: the rows from
   height h on are deleted, the latest rows are built anew from what remains.
   extra is the block of a commit that the deletes did not see. *)
CutMarket(m, h, extra) ==
  LET keep(rows) == {r \in rows : HeightOf(r.key) < h \/ r.key[1] \in extra}
      newest(rows) == IF rows = {} THEN None ELSE Newest(rows)
  IN  [ticks |-> keep(m.ticks),
       history |-> keep(m.history),
       prices |-> [t \in Token |-> newest({r \in keep(m.ticks) : r.token = t})],
       latest |-> [p \in Pool |-> newest({r \in keep(m.history) : r.pool = p})]]

NoMarket == [ticks |-> {}, prices |-> [t \in Token |-> None],
             history |-> {}, latest |-> [p \in Pool |-> None]]
=============================================================================
