---------------------------- MODULE TradeChaining ----------------------------
(* jobs/trade-chaining.js: workers that claim transactions from the queue    *)
(* and write the routes of their trades. Claiming is one transaction;        *)
(* reading the trades, writing the annotations and marking the row is one    *)
(* transaction per item, but one that sees what others commit meanwhile.     *)
EXTENDS EnrichmentTables

CONSTANTS
    Chainer,      \* processes of jobs/trade-chaining.js
    ChainBatch    \* TRADE_CHAINING_BATCH_SIZE

VARIABLES
    batch,        \* batch[w]: claimed transactions w has not come to yet
    reading       \* reading[w]: the transaction and the swaps w has loaded

chainVars == <<batch, reading>>
NoReading == [height |-> 0]

ChainingInit ==
    /\ batch = [w \in Chainer |-> {}]
    /\ reading = [w \in Chainer |-> NoReading]

ChainReaders == {reading[w].height : w \in Chainer} \ {0}

ClaimTransactions(w) ==
    /\ batch[w] = {} /\ reading[w] = NoReading
    /\ \E stuck \in SUBSET {h \in Height : chainQueue[h] = "processing"} :
         LET due == {h \in Height : Claimable(chainQueue[h], h \in stuck)}
         IN  /\ due # {}
             /\ \E items \in Oldest(due, ChainBatch, [h \in Height |-> h]) :
                  /\ batch' = [batch EXCEPT ![w] = items]
                  /\ chainQueue' = [h \in Height |->
                        IF h \in items THEN "processing" ELSE chainQueue[h]]
    /\ UNCHANGED <<block, trades, transfers, tokenQueue, metadata, registry,
                   open, disturbed, rewinds, faults, reading>>

LoadTrades(w) ==
    /\ reading[w] = NoReading
    /\ \E h \in batch[w] :
         /\ reading' = [reading EXCEPT ![w] = [height |-> h, swaps |-> Swaps(trades[h])]]
         /\ batch' = [batch EXCEPT ![w] = @ \ {h}]
    /\ UNCHANGED tableVars

\* The UPDATE of each annotation names a row by transaction and event index.
Annotated(rows, routes) ==
    [i \in DOMAIN rows |-> IF i \in DOMAIN routes THEN [rows[i] EXCEPT !.route = routes[i]]
                                                  ELSE rows[i]]

\* repricers are the heights whose rows a repricing has read and will write back.
ApplyRoutes(w, repricers) ==
    LET h == reading[w].height IN
    /\ reading[w] # NoReading
    /\ trades' = [trades EXCEPT ![h] = Annotated(@, Routes(reading[w].swaps))]
    /\ chainQueue' = [chainQueue EXCEPT ![h] = "processed"]
    /\ reading' = [reading EXCEPT ![w] = NoReading]
    /\ disturbed' = disturbed \cup ({h} \cap repricers)
    /\ UNCHANGED <<block, transfers, tokenQueue, metadata, registry, open,
                   rewinds, faults, batch>>

ChainingFails(w) ==
    /\ reading[w] # NoReading /\ faults < MaxFaults
    /\ chainQueue' = [chainQueue EXCEPT ![reading[w].height] = "failed"]
    /\ reading' = [reading EXCEPT ![w] = NoReading]
    /\ faults' = faults + 1
    /\ UNCHANGED <<block, trades, transfers, tokenQueue, metadata, registry,
                   open, disturbed, rewinds, batch>>

\* The process ends and is started again; what it claimed stays "processing".
ChainerCrashes(w) ==
    /\ batch[w] # {} \/ reading[w] # NoReading
    /\ faults < MaxFaults
    /\ batch' = [batch EXCEPT ![w] = {}]
    /\ reading' = [reading EXCEPT ![w] = NoReading]
    /\ faults' = faults + 1
    /\ UNCHANGED <<tables, open, disturbed, rewinds>>
=============================================================================
