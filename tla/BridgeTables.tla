----------------------------- MODULE BridgeTables ----------------------------
(* The Starknet side of the bridge: stark_bridge_activities and stark_trades *)
(* as the block commit and the rewind write them, and the per-wallet totals  *)
(* of stark_wallet_bridge_flows. Starknet block b handles deposit b. There   *)
(* is one token, whose price does not move; an activity without wallet or    *)
(* token, which every job passes over, is not in Deposit.                    *)
EXTENDS StarkgateIndexer, Functions

CONSTANTS
    Wallet,         \* L2 wallets
    WalletOf,       \* WalletOf[d]: the recipient of deposit d
    AmountOf,       \* AmountOf[d]
    UsdOf,          \* UsdOf[d]: value of that amount, 0 without a price
    StarkTime,      \* StarkTime[b]: timestamp of Starknet block b, in minutes
    Trade, Trader, TradeBlock   \* trades, who makes them, and in which block

ASSUME DepositAssumption ==
    /\ WalletOf \in [Deposit -> Wallet]
    /\ AmountOf \in [Deposit -> Nat] /\ UsdOf \in [Deposit -> Nat]
    /\ \A d, o \in Deposit : AmountOf[d] = AmountOf[o] => UsdOf[d] = UsdOf[o]

VARIABLES
    tip,            \* the last stored Starknet block
    activity,       \* activity[b]: the bridge_in row of block b: l1_match_status,
                    \* eth_event_key, eth_block_timestamp
    link,           \* link[t]: the event in l1_deposit_tx_hash of trade t
    flows,          \* flows[w]: the row of the wallet, or NoFlow
    flowsAsOf,      \* history: the value of rewinds when the totals were last made
    flowsUpTo,      \* history: the last block they were made from
    rewinds

starkVars == <<tip, activity, link, flows, flowsAsOf, flowsUpTo, rewinds>>

NoKey == <<0, 0>>
NoFlow == [ins |-> 0, pending |-> 0, verified |-> -1]
NoActivity == [status |-> "none", event |-> NoKey, time |-> 0]
Unmatched == [status |-> "PENDING", event |-> NoKey, time |-> 0]

\* extractBridgeActivities puts no nonce into the metadata of a bridge_in row.
NoNonce == 0
ActivityNonce(b) == NoNonce

StarkInit ==
    /\ tip = 0
    /\ activity = [b \in Deposit |-> NoActivity]
    /\ link = [t \in Trade |-> NoKey]
    /\ flows = [w \in Wallet |-> NoFlow]
    /\ flowsAsOf = 0 /\ flowsUpTo = 0 /\ rewinds = 0

\* The block that handles the next deposit, once Ethereum has it.
StoreBlock ==
    /\ tip + 1 \in Deposit /\ OnChain(tip + 1)
    /\ tip' = tip + 1
    /\ activity' = [activity EXCEPT ![tip + 1] = Unmatched]
    /\ UNCHANGED <<link, flows, flowsAsOf, flowsUpTo, rewinds>>

\* deleteReconciliationWindow, of the tables here. The Ethereum side keeps its
\* matches.
Rewind ==
    /\ Upset
    /\ \E from \in 1 .. tip :
         /\ tip' = from - 1
         /\ activity' = [b \in Deposit |-> IF b >= from THEN NoActivity ELSE activity[b]]
         /\ link' = [t \in Trade |-> IF TradeBlock[t] >= from THEN NoKey ELSE link[t]]
    /\ flows' = [w \in Wallet |-> NoFlow]
    /\ rewinds' = rewinds + 1
    /\ UNCHANGED <<flowsAsOf, flowsUpTo>>

\* A block that is decoded again loses its rows and gets new ones, of its
\* trades only those of one transaction.
Redecode ==
    /\ Upset
    /\ \E b \in 1 .. tip : \E gone \in SUBSET {t \in Trade : TradeBlock[t] = b} :
         /\ activity' = [activity EXCEPT ![b] = Unmatched]
         /\ link' = [t \in Trade |-> IF t \in gone THEN NoKey ELSE link[t]]
    /\ rewinds' = rewinds + 1
    /\ UNCHANGED <<tip, flows, flowsAsOf, flowsUpTo>>

Stored(w) == {b \in Deposit : WalletOf[b] = w /\ activity[b].status # "none"}
Matched(w) == {b \in Deposit : WalletOf[b] = w /\ activity[b].status = "MATCHED"}
Amounts(bs) == SumFunctionOnSet(UsdOf, bs)
=============================================================================
