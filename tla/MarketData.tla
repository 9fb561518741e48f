----------------------------- MODULE MarketData -----------------------------
(***************************************************************************)
(* What the blocks say about the market, as constants: every block has one *)
(* minute and a sequence of decoded events in (transaction_index,          *)
(* source_event_index) order.  A row of a market table is named by its     *)
(* key, the block and the position of the event in it.                     *)
(***************************************************************************)
EXTENDS BlockTree, Sequences

CONSTANTS
  Token,
  Stable,      \* the tokens priced at one dollar
  Bridge,      \* PHASE3_BRIDGE_SYMBOLS: tokens whose prices and pools are always read
  Pool, Token0, Token1,
  Clmm,        \* pools whose swaps carry the pool's state; the others emit syncs
  Depth,       \* the dollars a sync would find in a pool
  MinDepth,    \* PHASE3_MIN_PATH_LIQUIDITY_USD
  StaleAfter,  \* PHASE3_PRICE_STALE_AFTER_BLOCKS
  Minute,      \* the minute of a block's timestamp
  MaxMinute,   \* bound on it
  Events       \* the swaps and syncs of a block

Event == [pool : Pool, kind : {"swap", "sync"}, tx : Nat, agg : BOOLEAN]

ASSUME MarketAssumption ==
  /\ Stable \subseteq Token /\ Bridge \subseteq Token
  /\ Token0 \in [Pool -> Token] /\ Token1 \in [Pool -> Token]
  /\ \A p \in Pool : Token0[p] # Token1[p]
  /\ IsFiniteSet(Pool) /\ Clmm \subseteq Pool /\ Depth \in [Pool -> Nat]
  /\ MinDepth \in Nat /\ StaleAfter \in Nat
  /\ MaxMinute \in Nat /\ Minute \in [Block -> 0..MaxMinute]
  /\ \A b \in Block \ {Root} : Minute[Parent[b]] <= Minute[b]
  /\ Events \in [Block -> Seq(Event)]
  /\ Events[Root] = <<>>
  /\ \A b \in Block : \A i, j \in DOMAIN Events[b] :
       i < j => Events[b][i].tx <= Events[b][j].tx

KeysOf(b) == {<<b, i>> : i \in DOMAIN Events[b]}
Key == UNION {KeysOf(b) : b \in Block}
EventOf(k) == Events[k[1]][k[2]]
TokensOf(p) == {Token0[p], Token1[p]}
HeightOf(k) == Num[k[1]]

(* ORDER BY block_number, transaction_index, source_event_index *)
Later(k, l) == \/ HeightOf(k) > HeightOf(l)
               \/ HeightOf(k) = HeightOf(l) /\ k[2] > l[2]

(* loadSwapActions and buildMaterializedTradeActions: the swaps of a block, which
   are gone through in order, without an aggregator's summary when a leg of what it
   sums up is there. *)
TradeActions(b) ==
  LET Leg(e, tx) == e.kind = "swap" /\ e.tx = tx /\ ~e.agg IN
  {k \in KeysOf(b) :
     /\ EventOf(k).kind = "swap"
     /\ EventOf(k).agg => ~\E i \in DOMAIN Events[b] : Leg(Events[b][i], EventOf(k).tx)}

(* isAggregatorDerived: such a trade feeds neither ticks nor candles. *)
Venue(k) == ~EventOf(k).agg
=============================================================================
