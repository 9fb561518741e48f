------------------------------ MODULE Candles ------------------------------
(***************************************************************************)
(* core/ohlcv.js: the one-minute candles.  A candle is the sequence of     *)
(* trades that were added into it: its open and close are the first and    *)
(* the last, its count and volumes the sum.  A gap candle holds no trade   *)
(* and carries the close of the candle before it.  writer is the block its *)
(* block_number column names.                                              *)
(***************************************************************************)
EXTENDS MarketData, FiniteSets, Functions

MinuteRange == 0..MaxMinute
Bucket == Pool \X MinuteRange
BucketOf(k) == <<EventOf(k).pool, Minute[k[1]]>>

Candle == [trades : Seq(Key), carry : Key \cup {None}, writer : Block, pending : BOOLEAN]

ASSUME CandleAssumption == None \notin MinuteRange /\ None \notin Candle

Last(s) == s[Len(s)]
Close(c) == IF c.trades = <<>> THEN c.carry ELSE Last(c.trades)

(* filterTradesForOhlcv: hops never exceed its limit. *)
Eligible(b) == {k \in TradeActions(b) : Venue(k)}
EligibleOf(b, p) == {k \in Eligible(b) : EventOf(k).pool = p}

(* loadPreviousCandle *)
PreviousMinute(candles, p, m) ==
  LET before == {n \in MinuteRange : n < m /\ candles[<<p, n>>] # None} IN
  IF before = {} THEN None ELSE CHOOSE n \in before : \A l \in before : l <= n

\* Mutant of GapCandle: the close is the carried one also after a candle with trades.
GapCandleCarried(prev, b) ==
  [trades |-> <<>>, carry |-> prev.carry, writer |-> b, pending |-> prev.pending]

(* buildGapCandles *)
GapCandle(prev, b) ==
  [trades |-> <<>>, carry |-> Close(prev), writer |-> b, pending |-> prev.pending]

\* Mutants of AddTrades: the candle is started over; its pending flag is forgotten.
AddTradesOver(old, new, b, pending) ==
  [trades |-> new, carry |-> None, writer |-> b, pending |-> pending]

AddTradesUnflagged(old, new, b, pending) ==
  [trades |-> IF old = None THEN new ELSE old.trades \o new,
   carry |-> None, writer |-> b, pending |-> pending]

(* buildIncrementalCandle: a missing candle, or an empty gap candle, is replaced,
   any other is appended to. *)
AddTrades(old, new, b, pending) ==
  [trades |-> IF old = None THEN new ELSE old.trades \o new,
   carry |-> None, writer |-> b,
   pending |-> pending \/ (old # None /\ old.trades # <<>> /\ old.pending)]

(* isReconciliationTriggered: the block lies in the window of an open incident. *)
Reconciling(incident, b) == Num[b] \in incident

(* ORDER BY transaction_index, source_event_index, trade_key: the blocks of the
   minute are not told apart. *)
Before(k, l) ==
  \/ EventOf(k).tx < EventOf(l).tx
  \/ EventOf(k).tx = EventOf(l).tx /\ k[2] < l[2]
  \/ EventOf(k).tx = EventOf(l).tx /\ k[2] = l[2] /\ HeightOf(k) < HeightOf(l)

(* Trades in that order: the place of one is the number of those before it. *)
ByPosition(rows) ==
  [i \in 1..Cardinality(rows) |->
     CHOOSE k \in rows : Cardinality({l \in rows : Before(l, k)}) = i - 1]

(* rebuildCandleForBucket: the candle of all stored trades of the bucket *)
Rebuilt(rows, pending) ==
  LET s == ByPosition(rows) IN
  [trades |-> s, carry |-> None, writer |-> Last(s)[1],
   pending |-> rows \cap pending # {}]

(* Trades of the bucket that count, among the rows of stark_trades *)
InBucket(trades, bucket) == {k \in trades : BucketOf(k) = bucket /\ Venue(k)}

\* Mutant of PersistCandles: no gap candles are written.
PersistCandlesGappy(candles, b, trades, pending, reconciling) ==
  [bk \in Bucket |->
     LET mine == EligibleOf(b, bk[1]) IN
     IF mine = {} \/ bk[2] # Minute[b] THEN candles[bk]
     ELSE AddTrades(candles[bk], ByPosition(mine), b, mine \cap pending # {})]

(* persistOhlcvForBlock: for every pool block b traded in, gap candles since its
   previous candle, then the candle of the minute: rebuilt from stark_trades when
   an incident covers the block (isReconciliationTriggered), else appended to. *)
PersistCandles(candles, b, trades, pending, reconciling) ==
  LET m == Minute[b]
      candle(p) ==
        LET mine == EligibleOf(b, p) IN
        IF reconciling THEN Rebuilt(InBucket(trades, <<p, m>>), pending)
        ELSE AddTrades(candles[<<p, m>>], ByPosition(mine), b, mine \cap pending # {})
      new(p, n) ==
        LET prev == PreviousMinute(candles, p, m) IN
        IF n = m THEN candle(p)
        ELSE IF prev # None /\ n \in (prev + 1)..(m - 1)
             THEN GapCandle(candles[<<p, prev>>], b)
        ELSE candles[<<p, n>>]
  IN  [bk \in Bucket |->
         IF EligibleOf(b, bk[1]) = {} THEN candles[bk] ELSE new(bk[1], bk[2])]

(* DELETE FROM stark_ohlcv_1m WHERE block_number = h, of clearBlockDerivedRows *)
ClearCandles(candles, h) ==
  [bk \in Bucket |-> IF candles[bk] # None /\ Num[candles[bk].writer] = h
                     THEN None ELSE candles[bk]]

(* deleteReconciliationWindow: a candle goes if its last writer does. *)
CutCandles(candles, h, extra) ==
  [bk \in Bucket |-> IF /\ candles[bk] # None
                        /\ Num[candles[bk].writer] >= h
                        /\ candles[bk].writer \notin extra
                     THEN None ELSE candles[bk]]

(* loadPendingEnrichmentRanges: the minutes between a pool's pending candles *)
PendingRange(candles, p) ==
  LET flagged == {m \in MinuteRange : candles[<<p, m>>] # None /\ candles[<<p, m>>].pending}
  IN  {m \in MinuteRange : /\ candles[<<p, m>>] # None
                           /\ \E i, j \in flagged : i <= m /\ m <= j}

\* The candle an empty one of the range takes its close from: the one before, unless
\* none precedes the range and nothing was traded in the range so far.
CloseBefore(candles, p, trades, m) ==
  IF \E n \in MinuteRange : /\ n < m /\ candles[<<p, n>>] # None
                            /\ \/ n \notin PendingRange(candles, p)
                               \/ InBucket(trades, <<p, n>>) # {}
  THEN PreviousMinute(candles, p, m) ELSE None

(* rebuildPendingRange: the candles of a pool, those of the range from the bucket's
   trades or, without a trade, from the close of the candle before, which may have
   just been rebuilt. *)
RebuildRange(candles, p, trades, pending) ==
  LET new[m \in MinuteRange] ==
        LET rows == InBucket(trades, <<p, m>>)
            prev == CloseBefore(candles, p, trades, m)
            old == candles[<<p, m>>]
        IN  IF m \notin PendingRange(candles, p) THEN old
            ELSE IF rows # {} THEN Rebuilt(rows, pending)
            ELSE IF prev # None THEN GapCandle(new[prev], old.writer)
            ELSE old
  IN  new

(* rebuildPendingEnrichmentCandles: the range of every pool of a resolved token *)
RebuildPending(candles, t, trades, pending) ==
  [bk \in Bucket |->
     IF t \in TokensOf(bk[1]) THEN RebuildRange(candles, bk[1], trades, pending)[bk[2]]
     ELSE candles[bk]]
=============================================================================
