-------------------------- MODULE CrossChainMatcher --------------------------
(* src/jobs/l1-cross-chain-matcher.ts: a pass lists the pending events, and  *)
(* matches them one by one, each in a transaction that locks the event, the  *)
(* activity it finds and the totals it adds to. Alerts and the L1 columns of *)
(* the wallet statistics, which nothing here reads, are left out; so are     *)
(* withdrawals, whose log names no Starknet sender to look for.              *)
EXTENDS BridgeTables

CONSTANTS
    TradeTime,      \* TradeTime[t]
    MatchWindow,    \* minutes between a deposit and its arrival
    LinkWindow      \* minutes between a deposit and a trade it is linked to

ASSUME MatcherAssumption ==
    StarkTime \in [Deposit -> Int] /\ MatchWindow \in Nat

VARIABLES pass      \* the pass under way: step and events still to match

NoPass == [step |-> "none", todo |-> {}]
MatcherInit == pass = NoPass

PendingEvents == {k \in Key : events[k].status = "PENDING"}

BeginPass ==
    /\ pass = NoPass
    /\ pass' = [step |-> "match", todo |-> PendingEvents]
    /\ UNCHANGED <<ethVars, starkVars, upsets>>

WaitingActivities == {b \in Deposit : activity[b].status = "PENDING"}
ByNonce(k) == {b \in WaitingActivities : ActivityNonce(b) = k[2]}
ByAmountAndTime(k) ==
    {b \in WaitingActivities :
        /\ WalletOf[b] = WalletOf[k[2]] /\ AmountOf[b] = AmountOf[k[2]]
        /\ StarkTime[b] \in events[k].time .. events[k].time + MatchWindow}

\* The oldest activity of the nonce, else of the amount and the time.
Oldest(bs) == {b \in bs : \A o \in bs : b <= o}
Found(k) == IF ByNonce(k) # {} THEN Oldest(ByNonce(k)) ELSE Oldest(ByAmountAndTime(k))

MatchedEvent(k, b) ==
    [events EXCEPT ![k] = [status |-> "MATCHED", bridge |-> b, time |-> @.time]]
MatchedActivity(k, b) ==
    [activity EXCEPT ![b] = [status |-> "MATCHED", event |-> k, time |-> events[k].time]]

VerifiedUnfloored(w, amount) ==
    LET row == IF flows[w] = NoFlow THEN [NoFlow EXCEPT !.verified = 0] ELSE flows[w]
    IN  [flows EXCEPT ![w] = [row EXCEPT !.pending = @ - 1, !.verified = @ + amount]]

\* updateBridgeFlowSnapshot: a row is made when there is none.
Verified(w, amount) ==
    LET row == IF flows[w] = NoFlow THEN [NoFlow EXCEPT !.verified = 0] ELSE flows[w]
    IN  [flows EXCEPT ![w] = [row EXCEPT !.pending = Max({0, @ - 1}),
                                         !.verified = @ + amount]]

\* linkTradesToDeposit, among the trades that are stored and not linked yet.
Linked(k, w) ==
    [t \in Trade |->
        IF /\ TradeBlock[t] <= tip /\ Trader[t] = w /\ link[t] = NoKey
           /\ TradeTime[t] \in events[k].time .. events[k].time + LinkWindow
        THEN k ELSE link[t]]

\* The events in the order of the pass: eth_block_timestamp, which grows with
\* eth_block_number, then eth_log_index. locked holds the wallets whose totals another transaction has deleted.
MatchDeposit(locked) ==
    /\ \E k \in Earliest(pass.todo) : \E b \in Found(k) :
         /\ events[k].status = "PENDING" /\ WalletOf[b] \notin locked
         /\ events' = MatchedEvent(k, b)
         /\ activity' = MatchedActivity(k, b)
         /\ flows' = Verified(WalletOf[b], UsdOf[k[2]])
         /\ link' = Linked(k, WalletOf[b])
         /\ pass' = [pass EXCEPT !.todo = @ \ {k}]
    /\ UNCHANGED <<eth, ethJournal, cursor, range, late, tip, flowsAsOf, flowsUpTo,
                   rewinds, upsets>>

LeaveEvent ==
    /\ \E k \in Earliest(pass.todo) :
         /\ events[k].status # "PENDING" \/ Found(k) = {}
         /\ pass' = [pass EXCEPT !.todo = @ \ {k}]
    /\ UNCHANGED <<ethVars, starkVars, upsets>>

\* markStaleUnmatched: rows stored more than a day ago, on either side.
StaleActivities(activities) ==
    [b \in Deposit |-> IF b \in activities THEN [activity[b] EXCEPT !.status = "UNMATCHED"]
                                           ELSE activity[b]]
StaleEvents(keys) ==
    [k \in Key |-> IF k \in keys THEN [events[k] EXCEPT !.status = "UNMATCHED"] ELSE events[k]]

EndPass ==
    /\ pass.step = "match" /\ pass.todo = {}
    /\ \E keys \in SUBSET PendingEvents : events' = StaleEvents(keys)
    /\ \E bs \in SUBSET WaitingActivities : activity' = StaleActivities(bs)
    /\ pass' = NoPass
    /\ UNCHANGED <<eth, ethJournal, cursor, range, late, tip, link, flows, flowsAsOf, flowsUpTo,
                   rewinds, upsets>>

PassFails ==
    /\ pass # NoPass /\ Upset
    /\ pass' = NoPass
    /\ UNCHANGED <<ethVars, starkVars>>
=============================================================================
