------------------------------- MODULE Market -------------------------------
(***************************************************************************)
(* The market state of the stored chain.  The block indexer and the replay *)
(* of the finality promoter store blocks (processAcceptedBlock), the       *)
(* promoter rewinds them (reconcileFromAnchor), and the metadata syncer    *)
(* resolves the decimals of tokens (processQueueItem), which reprices      *)
(* trades and rebuilds candles.  Each of them is one transaction, except   *)
(* that a commit reads the token registry some time before it ends.        *)
(***************************************************************************)
EXTENDS MarketTables, Candles

CONSTANTS Unresolved,  \* tokens whose decimals are missing at the start
          MaxRewinds,  \* bound on the rewinds
          MaxStrays    \* bound on the commits that slip into a rewind

ASSUME BoundsAssumption ==
  Unresolved \subseteq Token /\ MaxRewinds \in Nat /\ MaxStrays \in Nat

Reading == [block : Block, known : SUBSET Token]

ASSUME ReadingAssumption == None \notin Reading

VARIABLES
  cp,        \* the block at the L2 checkpoint
  reading,   \* the commit in flight: its block and the registry it has read
  market,    \* stark_price_ticks, stark_prices, stark_pool_state_history, _latest
  trades,    \* stark_trades
  pending,   \* the trades whose pending_enrichment is TRUE
  candles,   \* stark_ohlcv_1m
  known,     \* tokens with decimals in tokens / stark_token_metadata
  incident,  \* the heights of the incident with status REPLAYING
  stuck,     \* those of incidents left REPLAYING by a promoter that died
  knownAt,   \* history: the registry a stored block was priced with
  torn,      \* history: buckets with trades on both sides of a rewind
  rewinds, strays

vars == <<cp, reading, market, trades, pending, candles, known, incident,
          stuck, knownAt, torn, rewinds, strays>>

MarketTypeOK ==
  /\ cp \in Block
  /\ reading \in Reading \cup {None}
  /\ market.ticks \subseteq Tick /\ market.history \subseteq PoolRow
  /\ market.prices \in [Token -> Tick \cup {None}]
  /\ market.latest \in [Pool -> PoolRow \cup {None}]
  /\ trades \subseteq Key /\ pending \subseteq trades
  /\ \A bk \in Bucket : candles[bk] # None =>
       /\ candles[bk].trades \in Seq(Key) /\ candles[bk].writer \in Block
       /\ candles[bk].trades = <<>> => candles[bk].carry \in Key
  /\ known \subseteq Token
  /\ incident \subseteq Height /\ stuck \subseteq Height
  /\ rewinds \in 0..MaxRewinds /\ strays \in 0..MaxStrays

Init ==
  /\ cp = Root
  /\ reading = None
  /\ market = NoMarket
  /\ trades = {} /\ pending = {}
  /\ candles = [bk \in Bucket |-> None]
  /\ known = Token \ Unresolved
  /\ incident = {} /\ stuck = {}
  /\ knownAt = [b \in Block |-> {}]
  /\ torn = {}
  /\ rewinds = 0 /\ strays = 0

(* The transaction of a block begins and reads the token registry
   (loadTokenRegistryByAddress). *)
BeginBlock(b) ==
  /\ reading = None
  /\ Parent[b] = cp
  /\ reading' = [block |-> b, known |-> known]
  /\ UNCHANGED <<cp, market, trades, pending, candles, known, incident,
                 stuck, knownAt, torn, rewinds, strays>>

(* clearBlockDerivedRows, persistTradesForBlock, persistPoolStateForBlock,
   persistPriceDataForBlock and persistOhlcvForBlock, as far as they write tables *)
StoredRows(b, K) ==
  LET new == TradeActions(b)
      kept == {k \in trades : HeightOf(k) # Num[b]}
  IN  /\ market' = StoreMarket(market, b, K)
      /\ trades' = UpsertTrades(kept, new)
      /\ pending' = (pending \cap kept) \cup {k \in new : Pending(k, K)}
      /\ candles' = PersistCandles(ClearCandles(candles, Num[b]), b, trades', pending',
                                   Reconciling(incident \cup stuck, b))
      /\ knownAt' = [knownAt EXCEPT ![b] = K]

(* processAcceptedBlock commits; assertSequentialProgress has compared the parent. *)
CommitBlock ==
  /\ reading # None
  /\ Parent[reading.block] = cp
  /\ StoredRows(reading.block, reading.known)
  /\ cp' = reading.block
  /\ reading' = None
  /\ UNCHANGED <<known, incident, stuck, torn, rewinds, strays>>

(* The commit rolls back: an error, a crash, or a checkpoint that moved. *)
DropBlock ==
  /\ reading # None
  /\ reading' = None
  /\ UNCHANGED <<cp, market, trades, pending, candles, known, incident,
                 stuck, knownAt, torn, rewinds, strays>>

Straddling(h) ==
  {bk \in Bucket : /\ \E k \in InBucket(trades, bk) : HeightOf(k) < h
                   /\ \E k \in InBucket(trades, bk) : HeightOf(k) >= h}

(* reconcileFromAnchor up to its first commit: the rows above block a go, an
   incident up to the checkpoint is opened, and the checkpoint returns to a.  An
   incident that is still open then belongs to a promoter that died, and nobody ever
   resolves it. *)
Rewind(a) ==
  LET h == Num[a] + 1 IN
  /\ rewinds < MaxRewinds
  /\ a \in Line[cp] \ {cp}
  /\ market' = CutMarket(market, h, {})
  /\ trades' = {k \in trades : HeightOf(k) < h}
  /\ pending' = pending \cap trades'
  /\ candles' = CutCandles(candles, h, {})
  /\ incident' = h..Num[cp] /\ stuck' = stuck \cup incident
  /\ torn' = torn \cup Straddling(h)
  /\ cp' = a
  /\ rewinds' = rewinds + 1
  /\ UNCHANGED <<reading, known, knownAt, strays>>

(* A commit ends between the deletes of the rewind, which did not see its rows,
   and the restore and the checkpoint update, which come after it: the block's rows
   stay above the checkpoint.  A commit that adds to a candle the rewind deletes
   waits for the rewind and cannot slip in; one that adds to a candle the rewind
   leaves does, and takes it above the anchor.  One commit slips in at most, and
   before the first delete or after the last. *)
RewindPastCommit(a) ==
  LET h == Num[a] + 1
      b == reading.block
      bs == {bk \in Bucket : \E k \in Eligible(b) : BucketOf(k) = bk}
  IN
  /\ rewinds < MaxRewinds /\ strays < MaxStrays
  /\ reading # None /\ Parent[b] = cp
  /\ a \in Line[cp] \ {cp}
  /\ \A bk \in bs : candles[bk] # None => Num[candles[bk].writer] < h
  /\ market' = CutMarket(StoreMarket(market, b, reading.known), h, {b})
  /\ LET new == TradeActions(b)
         kept == {k \in trades : HeightOf(k) < h}
     IN  /\ trades' = UpsertTrades(kept, new)
         /\ pending' = (pending \cap kept) \cup {k \in new : Pending(k, reading.known)}
  /\ candles' = CutCandles(PersistCandles(candles, b, trades', pending', FALSE), h, {b})
  /\ incident' = h..Num[cp] /\ stuck' = stuck \cup incident
  /\ torn' = Bucket
  /\ cp' = a
  /\ reading' = None
  /\ rewinds' = rewinds + 1 /\ strays' = strays + 1
  /\ UNCHANGED <<known, knownAt>>

(* The replay ends, or the process is told to stop in the middle of it: the incident
   is RESOLVED, or FAILED after an error.  Storing the blocks is CommitBlock. *)
EndReplay ==
  /\ incident # {}
  /\ incident' = {}
  /\ UNCHANGED <<cp, reading, market, trades, pending, candles, known,
                 stuck, knownAt, torn, rewinds, strays>>

(* processQueueItem of the metadata syncer when a token's decimals become known:
   repricePendingEnrichmentTrades and rebuildPendingEnrichmentCandles.  The price
   tables are not touched. *)
ResolveDecimals(t) ==
  /\ t \notin known
  /\ known' = known \cup {t}
  /\ pending' = Reprice(pending, t, known')
  /\ candles' = RebuildPending(candles, t, trades, pending')
  /\ UNCHANGED <<cp, reading, market, trades, incident, stuck, knownAt, torn, rewinds, strays>>

Next ==
  \/ \E b \in Block : BeginBlock(b)
  \/ CommitBlock
  \/ DropBlock
  \/ \E a \in Block : Rewind(a)
  \/ \E a \in Block : RewindPastCommit(a)
  \/ EndReplay
  \/ \E t \in Token : ResolveDecimals(t)

Spec == Init /\ [][Next]_vars

(***************************************************************************)
(* Properties                                                              *)
(***************************************************************************)

(* The latest price of a token is its newest tick, and the latest state of a pool
   its newest history row: through blocks stored over a stray block of the same
   height, rewinds, and replays below rows that a rewind did not see. *)
LatestIsNewest ==
  /\ \A t \in Token :
       LET mine == {r \in market.ticks : r.token = t} IN
       market.prices[t] = IF mine = {} THEN None ELSE Newest(mine)
  /\ \A p \in Pool :
       LET mine == {r \in market.history : r.pool = p} IN
       market.latest[p] = IF mine = {} THEN None ELSE Newest(mine)

(* The tables a chain would have if its blocks had been stored once each, in order,
   block b with the registry K[b] *)
Replayed(K) ==
  LET tables[b \in Block] ==
        IF Parent[b] = None THEN NoMarket ELSE StoreMarket(tables[Parent[b]], b, K[b])
  IN  tables

(* A rewind is invisible afterwards: ticks, prices, pool history and latest states are
   those of the stored chain stored once without any detour, although every price may
   depend on all prices and pools before it. *)
RewindIsInvisible == strays = 0 => market = Replayed(knownAt)[cp]

(* Every price rests on a trade against a stable token in a block of the stored chain,
   the one its updated-at column names, and is only shown as fresh while that block is
   no more than StaleAfter blocks older: no price outlives the block it came from. *)
PricesHaveAnOrigin == strays = 0 =>
  \A r \in market.ticks :
    /\ r.key[1] \in Line[cp]
    /\ ~r.price.stale => HeightOf(r.key) - r.price.at <= StaleAfter
    /\ \E b \in Line[cp] :
         /\ Num[b] = r.price.at
         /\ \E k \in TradeActions(b) : TokensOf(EventOf(k).pool) \cap Stable # {}

(* Every candle counts each venue trade of its bucket in the stored chain exactly once
   and no other, unless a rewind went through the middle of the bucket: with
   incremental candles, gap candles written ahead, rebuilds after a rewind and rebuilds
   when decimals arrive. *)
CandlesCountEachTradeOnce ==
  \A bk \in Bucket \ torn :
    LET rows == InBucket(trades, bk)
        counted == IF candles[bk] = None THEN <<>> ELSE candles[bk].trades
    IN  Len(counted) = Cardinality(rows) /\ Range(counted) = rows

(* A pool's candles have no hole: between its first and its last candle every minute
   has one, after every rewind too. *)
CandlesAreContiguous == strays = 0 => \A p \in Pool, l, m, n \in MinuteRange :
  l < m /\ m < n /\ candles[<<p, l>>] # None /\ candles[<<p, n>>] # None
    => candles[<<p, m>>] # None

(* A candle is flagged pending as long as one of its trades is. *)
PendingCandlesAreFlagged == \A bk \in Bucket :
  candles[bk] # None /\ Range(candles[bk].trades) \cap pending # {} => candles[bk].pending
=============================================================================
