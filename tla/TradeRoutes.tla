----------------------------- MODULE TradeRoutes -----------------------------
(* core/post-processor.js: which trades of one transaction form a chain. A   *)
(* transaction's trades are a function from event indexes to swaps           *)
(* [in, out, paid, got]: two neighbours are linked when the second sells the *)
(* token, and within one basis point the amount, the first one bought.       *)
EXTENDS Integers, FiniteSets, FiniteSetsExt

CONSTANTS JitterBps   \* TRADE_CHAINING_MAX_JITTER_BPS

ASSUME JitterBpsAssumption == JitterBps \in Nat

\* A trade that belongs to no route: route_group_key NULL.
NoRoute == [group |-> 0, hop |-> 0, hops |-> 0]

AmountsMatch(a, b, jitter) ==
    /\ a > 0 /\ b > 0
    /\ LET off == IF a > b THEN a - b ELSE b - a IN off * 10000 <= Max({a, b}) * jitter

CanChain(first, next) ==
    first.out = next.in /\ AmountsMatch(first.got, next.paid, JitterBps)

Before(swaps, i) == Max({j \in DOMAIN swaps : j < i})

\* The event at which the chain of trade i starts.
ChainStart(swaps, i) ==
    Max({j \in DOMAIN swaps :
           /\ j <= i
           /\ \/ j = Min(DOMAIN swaps)
              \/ ~CanChain(swaps[Before(swaps, j)], swaps[j])})

Chain(swaps, i) == {j \in DOMAIN swaps : ChainStart(swaps, j) = ChainStart(swaps, i)}

\* The annotation of every trade; a chain of one has no group. The random
\* route_group_key is modelled by the event its chain starts at.
Routes(swaps) ==
    [i \in DOMAIN swaps |->
        LET chain == Chain(swaps, i)
        IN  [group |-> IF Cardinality(chain) > 1 THEN ChainStart(swaps, i) ELSE 0,
             hop   |-> Cardinality({j \in chain : j < i}),
             hops  |-> Cardinality(chain)]]

MultiHop(route) == route.group # 0
=============================================================================
