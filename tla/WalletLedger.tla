----------------------------- MODULE WalletLedger ----------------------------
(* jobs/wallet-rollups.js: the replay of a lane's transfers, bridge activities *)
(* and trades into wallet positions. What a wallet bought is kept in lots,     *)
(* relieved oldest first; what it received otherwise is external inventory,   *)
(* relieved before any lot and without a profit or loss. A trade into the     *)
(* canonical token of a migrated one carries its lots over.                    *)
EXTENDS Integers, Sequences, FiniteSets, SequencesExt, FiniteSetsExt, Functions

CONSTANTS
    Wallet, Token,
    None,           \* null: no price, no counterparty
    Successor,      \* TOKEN_LINEAGE_MAP: a migrated token's canonical one
    Dust,           \* Dust[t]: resolveDustThresholdRaw
    Transactions,   \* the transactions a block may hold: [items, fee]
    MaxBlocks       \* bound: blocks replayed, each of one transaction

Price == Nat \cup {None}
Party == Wallet \cup {None}
BridgeItem == [kind : {"bridge"}, in : BOOLEAN, wallet : Wallet, token : Token,
               amount : Nat, usd : Price]
TransferItem == [kind : {"transfer"}, from : Party, to : Party, token : Token,
                 amount : Nat, usd : Price]
TradeItem == [kind : {"trade"}, wallet : Wallet, token : Token, amount : Nat,
              bought : Token, out : Nat, usd : Price]

\* Amounts and values are not negative; wallets and tokens are finitely many.
ASSUME LedgerAssumption ==
    /\ IsFiniteSet(Wallet) /\ IsFiniteSet(Token)
    /\ None \notin Nat /\ None \notin Wallet
    /\ Dust \in [Token -> Nat]
    /\ \A transaction \in Transactions :
         /\ transaction.items \in Seq(BridgeItem \cup TransferItem \cup TradeItem)
         /\ transaction.fee \in Nat
    /\ MaxBlocks \in Nat

VARIABLES
    block,          \* the last block replayed
    positions,      \* positions[w, t], the map of ensurePosition
    trail,          \* pnlAuditTrail, in the order it is written
    flows,          \* history: flows[w, t], what came in, what was taken out and
                    \* what was asked for beyond the holdings
    paid, relieved, \* history: the cost that entered the positions, and left them
    dropped         \* history: a lot without a quantity was not added

vars == <<block, positions, trail, flows, paid, relieved, dropped>>

Keys == Wallet \X Token
NoPosition == [ext |-> 0, extCost |-> 0, lots |-> <<>>, qty |-> 0, cost |-> 0,
               realized |-> 0, dustCost |-> 0, dustQty |-> 0, first |-> None]

Least(a, b) == IF a < b THEN a ELSE b
Most(a, b) == IF a > b THEN a ELSE b

\* BigInt division rounds towards zero.
Quot(a, b) == IF a < 0 THEN -((-a) \div b) ELSE a \div b
proportionalShare(total, part, whole) == IF whole = 0 THEN 0 ELSE Quot(total * part, whole)

\* Of what is left a share by weight, and the last one takes it all.
NextShare(weights, acc, i) ==
    LET rest == SumFunctionOnSet(weights, i .. Len(weights))
        share == IF i = Len(weights) THEN acc.left
                 ELSE proportionalShare(acc.left, weights[i], rest)
    IN  [left |-> acc.left - share, shares |-> Append(acc.shares, share)]
Split(total, weights) ==
    FoldLeftDomain(LAMBDA acc, i : NextShare(weights, acc, i),
                   [left |-> total, shares |-> <<>>], weights).shares

-----------------------------------------------------------------------------
\* Lots, in the order of compareTradeLotsForConsumption: the age of the token they
\* descend from first, then that of the lot. A lot's id is its block, item and part;
\* the code tells lots of one block apart by the address they descend from and by
\* the text of their id.
Precedes(s, t) ==
    \E i \in DOMAIN s : s[i] < t[i] /\ \A j \in 1 .. i - 1 : s[j] = t[j]
EarlierBought(l, m) == Precedes(l.id, m.id)
Earlier(l, m) == Precedes(<<l.root>> \o l.id, <<m.root>> \o m.id)

Quantities(lots) == [i \in DOMAIN lots |-> lots[i].qty]
Costs(lots) == [i \in DOMAIN lots |-> lots[i].cost]

\* A lot pushed to sorted ones, and sorted.
Sorted(lots, lot) ==
    InsertAt(lots, 1 + Cardinality({i \in DOMAIN lots : ~Earlier(lot, lots[i])}), lot)

addTradeLot(p, lot) ==
    IF lot.qty <= 0 THEN p
    ELSE [p EXCEPT !.qty = @ + lot.qty, !.cost = @ + lot.cost, !.lots = Sorted(@, lot)]

\* consumeTradeLots: the lots from the first on; of the last one a share.
TakeLot(acc, lot) ==
    LET q == Least(acc.left, lot.qty)
        c == proportionalShare(lot.cost, q, lot.qty)
    IN  [left |-> acc.left - q,
         lots |-> IF q = lot.qty THEN acc.lots
                  ELSE Append(acc.lots, [lot EXCEPT !.qty = @ - q, !.cost = @ - c]),
         matches |-> IF q = 0 THEN acc.matches
                     ELSE Append(acc.matches, [lot EXCEPT !.qty = q, !.cost = c])]
Taken(lots, amount) ==
    FoldLeft(TakeLot, [left |-> amount, lots |-> <<>>, matches |-> <<>>], lots)

\* What no lot covers is taken from the totals of the position.
ConsumeLots(p, amount) ==
    LET taken == Taken(p.lots, amount)
        q == amount - taken.left
        c == SumFunction(Costs(taken.matches))
        more == Least(taken.left, p.qty - q)
        cost == Least(c + proportionalShare(p.cost - c, more, p.qty - q), p.cost)
    IN  [position |-> [p EXCEPT !.lots = taken.lots, !.qty = @ - q - more, !.cost = @ - cost],
         matches |-> taken.matches, qty |-> q + more, cost |-> cost]

ConsumeExternalUncapped(p, amount) ==
    LET c == proportionalShare(p.extCost, amount, p.ext)
    IN  [position |-> [p EXCEPT !.ext = @ - amount, !.extCost = @ - c], qty |-> amount, cost |-> c]
ConsumeExternal(p, amount) ==
    LET q == Least(amount, p.ext)
        c == proportionalShare(p.extCost, q, p.ext)
    IN  [position |-> [p EXCEPT !.ext = @ - q, !.extCost = @ - c], qty |-> q, cost |-> c]

\* trimDustLots: the cost of what is too little to keep is a loss.
TrimLot(dust, acc, lot) ==
    IF lot.qty <= dust THEN [acc EXCEPT !.qty = @ + lot.qty, !.cost = @ + lot.cost]
    ELSE [acc EXCEPT !.lots = Append(@, lot)]
Trimmed(lots, dust) ==
    FoldLeft(LAMBDA acc, lot : TrimLot(dust, acc, lot), [lots |-> <<>>, qty |-> 0, cost |-> 0], lots)
TrimKeepingCost(p, t) ==
    LET trimmed == Trimmed(p.lots, Dust[t])
    IN  [p EXCEPT !.lots = trimmed.lots, !.qty = Most(0, @ - trimmed.qty),
                  !.dustQty = @ + trimmed.qty]
trimDustLots(p, t) ==
    LET trimmed == Trimmed(p.lots, Dust[t])
        loss == Least(trimmed.cost, p.cost)
    IN  [p EXCEPT !.lots = trimmed.lots, !.qty = Most(0, @ - trimmed.qty), !.cost = @ - loss,
                  !.dustCost = @ + loss, !.dustQty = @ + trimmed.qty]

\* The external inventory first, then the lots, and the dust out
\* (consumeInventoryWithoutPnl and, up to the profit, consumeTradeSellInventory).
\* matches are in the order buildMigrationCarryoverLots gives them.
Relieved(p, t, amount, ext, lots) ==
    [position |-> trimDustLots(lots.position, t),
     ext |-> ext, lots |-> lots,
     cost |-> ext.cost + lots.cost,
     gap |-> amount - ext.qty - lots.qty,
     matches |-> IF ext.qty = 0 THEN lots.matches
                 ELSE Sorted(lots.matches, [qty |-> ext.qty, cost |-> ext.cost,
                                            root |-> p.first, id |-> <<0, 0, 0>>])]
LotsNext(p, t, amount, ext) ==
    Relieved(p, t, amount, ext, ConsumeLots(ext.position, amount - ext.qty))
Consume(p, t, amount) == LotsNext(p, t, amount, ConsumeExternal(p, amount))

-----------------------------------------------------------------------------
\* Proof rows of a sale (appendPnlAuditTrailRows): the proceeds are split over the
\* matched lots, and the last takes what is left.
Row(match, proceeds, key, at) ==
    [root |-> match.root, id |-> match.id, cost |-> match.cost, proceeds |-> proceeds,
     key |-> key, soldAt |-> at]
RowsByShare(matches, proceeds, key, at) ==
    LET whole == SumFunction(Quantities(matches))
    IN  [i \in DOMAIN matches |->
            Row(matches[i], proportionalShare(proceeds, matches[i].qty, whole), key, at)]
Rows(matches, proceeds, key, at) ==
    LET shares == Split(proceeds, Quantities(matches))
    IN  [i \in DOMAIN matches |-> Row(matches[i], shares[i], key, at)]

\* buildMigrationCarryoverLots: the cost goes with its lot, the gas is split by
\* what remains, and the new quantity by the whole of it.
OutShares(amountOut, weights) ==
    LET n == Len(weights)
        share(i) == proportionalShare(amountOut, weights[i], SumFunctionOnSet(weights, i .. n))
    IN  [i \in 1 .. n |-> IF i < n THEN share(i)
                          ELSE amountOut - SumFunction([j \in 1 .. n - 1 |-> share(j)])]
CarriedLots(matches, amountOut, gas, at) ==
    LET q == OutShares(amountOut, Quantities(matches))
        g == Split(gas, Quantities(matches))
    IN  [i \in DOMAIN matches |-> [qty |-> q[i], cost |-> matches[i].cost + g[i],
                                   root |-> matches[i].root, id |-> Append(at, i)]]

\* allocateGasFeesToTrades: the fee of a transaction, split over its trades.
IsTrade(item) == item.kind = "trade"
GasShares(fee, items) ==
    Split(fee, [i \in DOMAIN items |-> IF IsTrade(items[i]) THEN 1 ELSE 0])

-----------------------------------------------------------------------------
\* Items. An item changes the books, which are the variables but for block; its
\* place, at, is its block and its index.

Seen(p, number) == [p EXCEPT !.first = IF @ = None THEN number ELSE @]
Touched(b, key, at) == [b EXCEPT !.positions[key] = Seen(@, at[1])]

\* Taking an amount out of a position, and into one as external inventory.
WentOut(flow, amount, gap) == [flow EXCEPT !.out = @ + amount, !.gap = @ + gap]
CameIn(flow, amount) == [flow EXCEPT !.in = @ + amount]
Received(p, amount, cost) == [p EXCEPT !.ext = @ + amount, !.extCost = @ + cost]
Withdrawn(b, key, used, amount) ==
    [b EXCEPT !.positions[key] = used.position, !.flows[key] = WentOut(@, amount, used.gap)]
Deposited(b, key, amount, cost) ==
    [b EXCEPT !.positions[key] = Received(@, amount, cost), !.flows[key] = CameIn(@, amount)]

\* usd is None when the token has no price.
Usd(item) == IF item.usd = None THEN 0 ELSE item.usd

processBridgeActivity(b, item, at) ==
    LET key == <<item.wallet, item.token>>
        seen == Touched(b, key, at)
        used == Consume(seen.positions[key], item.token, item.amount)
    IN  IF item.in
        THEN [Deposited(seen, key, item.amount, Usd(item)) EXCEPT !.paid = @ + Usd(item)]
        ELSE [Withdrawn(seen, key, used, item.amount) EXCEPT !.relieved = @ + used.cost]

\* The sender's cost goes with the tokens; without a sender it is their value.
Sent(b, item, at) ==
    LET key == <<item.from, item.token>>
        seen == Touched(b, key, at)
        used == Consume(seen.positions[key], item.token, item.amount)
    IN  IF item.from = None THEN [books |-> [b EXCEPT !.paid = @ + Usd(item)], cost |-> Usd(item)]
        ELSE [books |-> Withdrawn(seen, key, used, item.amount), cost |-> used.cost]
processTransferActivity(b, item, at) ==
    LET key == <<item.to, item.token>>
        sent == Sent(b, item, at)
    IN  IF item.to = None THEN [sent.books EXCEPT !.relieved = @ + sent.cost]
        ELSE Deposited(Touched(sent.books, key, at), key, item.amount, sent.cost)

\* The lots of a trade arrive at its buyer's position.
Bought(b, key, amount, lots) ==
    [b EXCEPT !.positions[key] = FoldLeft(addTradeLot, @, lots),
              !.flows[key] = CameIn(@, amount),
              !.dropped = @ \/ \E i \in DOMAIN lots : lots[i].qty <= 0]

Migrates(item) == item.token \in DOMAIN Successor /\ Successor[item.token] = item.bought

Migrate(b, item, gas, at) ==
    LET key == <<item.wallet, item.token>>
        used == Consume(b.positions[key], item.token, item.amount)
        lots == IF used.matches = <<>>
                THEN <<[qty |-> item.out, cost |-> gas, root |-> at[1], id |-> Append(at, 1)]>>
                ELSE CarriedLots(used.matches, item.out, gas, at)
    IN  [Bought(Withdrawn(b, key, used, item.amount), <<item.wallet, item.bought>>, item.out, lots)
            EXCEPT !.paid = @ + gas]

\* consumeTradeSellInventory: only what comes from lots has a profit or loss.
Sell(b, item, gas, at) ==
    LET key == <<item.wallet, item.token>>
        used == Consume(b.positions[key], item.token, item.amount)
        proceeds == proportionalShare(item.usd - gas, used.lots.qty, item.amount)
    IN  [Withdrawn(b, key, used, item.amount) EXCEPT
            !.positions[key].realized = @ + IF used.lots.qty = 0 THEN 0
                                            ELSE proceeds - used.lots.cost,
            !.trail = @ \o Rows(used.lots.matches, proceeds, key, at),
            !.relieved = @ + used.cost]

Trade(b, item, gas, at) ==
    LET key == <<item.wallet, item.bought>>
        seen == Touched(Touched(b, <<item.wallet, item.token>>, at), key, at)
        cost == item.usd + gas
    IN  IF item.usd = None \/ item.token = item.bought THEN b
        ELSE IF Migrates(item) THEN Migrate(seen, item, gas, at)
        ELSE [Bought(Sell(seen, item, gas, at), key, item.out,
                     <<[qty |-> item.out, cost |-> cost, root |-> at[1], id |-> Append(at, 1)]>>)
              EXCEPT !.paid = @ + cost]

\* The items of a transaction, in the order of their events.
ReplayItem(b, item, gas, at) ==
    CASE item.kind = "bridge" -> processBridgeActivity(b, item, at)
      [] item.kind = "transfer" -> processTransferActivity(b, item, at)
      [] OTHER -> Trade(b, item, gas, at)
Replayed(b, number, items, gas) ==
    FoldLeftDomain(LAMBDA acc, i : ReplayItem(acc, items[i], gas[i], <<number, i>>), b, items)

Books == [positions |-> positions, trail |-> trail, flows |-> flows, paid |-> paid,
          relieved |-> relieved, dropped |-> dropped]

Init ==
    /\ block = 0
    /\ positions = [key \in Keys |-> NoPosition]
    /\ trail = <<>>
    /\ flows = [key \in Keys |-> [in |-> 0, out |-> 0, gap |-> 0]]
    /\ paid = 0 /\ relieved = 0 /\ dropped = FALSE

ReplayTransaction(transaction) ==
    \E b \in {Replayed(Books, block + 1, transaction.items,
                       GasShares(transaction.fee, transaction.items))} :
        /\ block < MaxBlocks
        /\ block' = block + 1
        /\ positions' = b.positions /\ trail' = b.trail /\ flows' = b.flows
        /\ paid' = b.paid /\ relieved' = b.relieved /\ dropped' = b.dropped

Next == \E transaction \in Transactions : ReplayTransaction(transaction)

Spec == Init /\ [][Next]_vars

-----------------------------------------------------------------------------
Lot == [qty : Nat \ {0}, cost : Nat, root : Nat, id : Seq(Nat)]
Position == [ext : Nat, extCost : Nat, lots : Seq(Lot), qty : Nat, cost : Nat, realized : Int,
             dustCost : Nat, dustQty : Nat, first : Price]
AuditRow == [root : Nat, id : Seq(Nat), cost : Nat, proceeds : Int, key : Keys, soldAt : Seq(Nat)]

\* No quantity and no cost of a position or a lot falls below zero.
LedgerTypeOK ==
    /\ block \in 0 .. MaxBlocks /\ dropped \in BOOLEAN
    /\ positions \in [Keys -> Position]
    /\ trail \in Seq(AuditRow)
    /\ flows \in [Keys -> [in : Nat, out : Nat, gap : Nat]]
    /\ paid \in Nat /\ relieved \in Nat

Held(p) == p.extCost + p.cost + p.dustCost

\* The totals of a position are those of its lots. What a wallet holds of a token
\* is what came in, less what went out and became dust; the cost of all positions
\* is what was paid, less what was relieved: carried over by transfers between
\* wallets and by migrations, none is lost or counted twice. It holds until a lot
\* without a quantity is bought or carried over: addTradeLot leaves it out, and
\* its cost with it.
HoldingsAreFlows ==
    /\ \A key \in Keys :
         /\ positions[key].qty = SumFunction(Quantities(positions[key].lots))
         /\ positions[key].cost = SumFunction(Costs(positions[key].lots))
    /\ ~dropped =>
         /\ \A key \in Keys :
              positions[key].ext + positions[key].qty + positions[key].dustQty
                = flows[key].in - flows[key].out + flows[key].gap
         /\ paid - relieved = SumFunction([key \in Keys |-> Held(positions[key])])

Profit(row, key) == IF row.key = key THEN row.proceeds - row.cost ELSE 0

\* The realized profit of a position is that of its proof rows, to the last unit,
\* and no lot is proved to be sold before it was bought.
PnlIsProven ==
    /\ \A key \in Keys :
         positions[key].realized = SumFunction([i \in DOMAIN trail |-> Profit(trail[i], key)])
    /\ \A i \in DOMAIN trail :
         trail[i].root <= trail[i].id[1] /\ Precedes(trail[i].id, Append(trail[i].soldAt, 0))

\* Relief is first in, first out, across migrations too: a lot becomes smaller
\* or vanishes, unless it was dust, only when no lot of older descent is left.
ReliefIsFifo ==
    [][\A key \in Keys :
         LET before == positions[key].lots
             after == positions'[key].lots
             left(id) == {i \in DOMAIN after : after[i].id = id}
         IN  \A i, j \in DOMAIN before :
                /\ before[j].root < before[i].root
                /\ IF left(before[i].id) = {} THEN before[i].qty > Dust[key[2]]
                   ELSE \E k \in left(before[i].id) : after[k].qty < before[i].qty
                => left(before[j].id) = {}]_vars
=============================================================================
