---------------------------- MODULE TokenMetadata ----------------------------
(* jobs/metadata-syncer.js and jobs/meta-refresher.js: two processes that    *)
(* look for the decimals of tokens, re-price the trades that wait for them,  *)
(* and complete transfer rows. The syncer works off the queue, one           *)
(* transaction per token; the refresher scans tables and commits every       *)
(* statement by itself.                                                      *)
EXTENDS EnrichmentTables

CONSTANTS
    SyncBatch,    \* PHASE4_METADATA_SYNC_BATCH_SIZE
    SeedLimit,    \* PHASE4_METADATA_SYNC_SEED_LIMIT
    RouteLimit,   \* PHASE4_TRANSFER_ENRICHMENT_BATCH_SIZE
    MatchBps      \* PHASE4_TRANSFER_ROUTE_MATCH_JITTER_BPS

VARIABLES
    phase,        \* what the syncer does next: "claim", "items" or "transfers"
    claimed,      \* tokens the syncer has claimed and not come to yet
    job,          \* its open transaction: token, level found, whether the waiting
                  \* trades are yet to be read, rows to re-price
    unsorted,     \* transactions whose transfers this pass still looks at
    view,         \* the one it is at, as it read it
    refresh       \* the refresher: step, tokens to do, token and level at hand,
                  \* tokens it brought decimals for, rows to re-price

syncVars == <<phase, claimed, job, unsorted, view>>
metadataVars == <<syncVars, refresh>>

NoJob == [token |-> "none"]
NoView == [height |-> 0]
Resting == [step |-> "rest", todo |-> {}, token |-> "none", level |-> "none",
            resolved |-> {}, rows |-> [h \in Height |-> NoRows]]

MetadataInit ==
    /\ phase = "transfers" /\ claimed = {} /\ job = NoJob
    /\ unsorted = {} /\ view = NoView /\ refresh = Resting

-----------------------------------------------------------------------------
\* Resolution and re-pricing, common to both processes.

\* What the tiers give for a token: a complete row as it is, else what the
\* calls answer; a failing call is a fault.
FoundOnce(t, level) ==
    IF metadata[t] # "none" THEN level = metadata[t]
    ELSE level = "full" => t \in Resolvable

Found(t, level) ==
    IF metadata[t] = "full" THEN level = "full"
    ELSE /\ level = "full" => t \in Resolvable
         /\ level = "none" => metadata[t] = "none"

Failing(t, level) == metadata[t] # "full" /\ t \in Resolvable /\ level # "full"

\* Both upserts keep a column they have no value for.
Upserted(table, t, level) ==
    IF table[t] = "full" \/ level = "none" THEN table ELSE [table EXCEPT ![t] = level]
MetadataAfter(t, level) == Upserted(metadata, t, level)
RegistryAfter(t, level) == Upserted(registry, t, level)

\* didResolveDecimals: decimals the store did not have.
Gained(t, level) == level = "full" /\ metadata[t] # "full"

\* The pending trades of the tokens, re-derived with the registry as it is now
\* and keeping the route they were read with.
Repriced(tokens, known) ==
    [h \in Height |->
        [i \in {j \in DOMAIN trades[h] : /\ trades[h][j].pending
                                         /\ j \in DOMAIN block[h]
                                         /\ TokensOfSwap(trades[h][j].swap) \cap tokens # {}} |->
            [swap |-> block[h][i], route |-> trades[h][i].route,
             pending |-> ~(TokensOfSwap(block[h][i]) \subseteq known)]]]

\* bulkUpsertTrades: every column of the row, and a new row when it is gone.
Overwritten(rows) ==
    [h \in Height |->
        [i \in DOMAIN rows[h] \cup DOMAIN trades[h] |->
            IF i \in DOMAIN rows[h] THEN rows[h][i] ELSE trades[h][i]]]

\* The heights a re-pricing has read and not yet written back.
Pricing(rows) == {h \in Height : rows[h] # NoRows}
Repricers == (IF job = NoJob THEN {} ELSE Pricing(job.rows)) \cup Pricing(refresh.rows)
MetadataReaders == Repricers \cup ({view.height} \ {0})

RecalculatedOnTransition(t, level) ==
    IF metadata[t] = "full" THEN transfers
    ELSE [h \in Height |->
            [i \in DOMAIN transfers[h] |->
                IF block[h] # NoRows /\ block[h][i].in = t
                THEN [transfers[h][i] EXCEPT !.resolved = (level = "full")]
                ELSE transfers[h][i]]]

\* recalculateTransfersForTokens, for the transfers of a token whose registry
\* row has this level.
Recalculated(t, level) ==
    [h \in Height |->
        [i \in DOMAIN transfers[h] |->
            IF block[h] # NoRows /\ block[h][i].in = t
            THEN [transfers[h][i] EXCEPT !.resolved = (level = "full")]
            ELSE transfers[h][i]]]

-----------------------------------------------------------------------------
\* The syncer.

Waiting(h) ==
    UNION {TokensOfSwap(trades[h][i].swap) : i \in {j \in DOMAIN trades[h] : trades[h][j].pending}}
    \cup {block[h][i].in : i \in {j \in DOMAIN transfers[h] : ~transfers[h][j].resolved}}

LastWaiting(t) == Max({h \in Height : t \in Waiting(h)})

SeedQueue ==
    /\ phase = "transfers" /\ unsorted = {} /\ view = NoView
    /\ phase' = "claim"
    /\ LET waiting == UNION {Waiting(h) : h \in Height} IN
       \E seeds \in Oldest(waiting, SeedLimit, [t \in waiting |-> LastWaiting(t)]) :
         tokenQueue' = [t \in Token |->
             IF t \in seeds THEN Enqueued(tokenQueue, {t}, LastWaiting(t))[t]
                            ELSE tokenQueue[t]]
    /\ UNCHANGED <<block, trades, transfers, chainQueue, metadata, registry, open,
                   disturbed, rewinds, faults, claimed, job, unsorted, view, refresh>>

ClaimTokens ==
    /\ phase = "claim" /\ phase' = "items"
    /\ \E stuck \in SUBSET {t \in Token : tokenQueue[t].status = "processing"} :
         LET age == [t \in Token |-> tokenQueue[t].seen]
             due == {t \in Token : Claimable(tokenQueue[t].status, t \in stuck)}
         IN  \E items \in Oldest(due, SyncBatch, age) :
               /\ claimed' = items
               /\ tokenQueue' = [t \in Token |->
                     IF t \in items THEN [tokenQueue[t] EXCEPT !.status = "processing"]
                                    ELSE tokenQueue[t]]
    /\ UNCHANGED <<block, trades, transfers, chainQueue, metadata, registry, open,
                   disturbed, rewinds, faults, job, unsorted, view, refresh>>

\* Load what is stored and ask the sources. When that brings decimals the store
\* did not have, the trades that wait for them are to be read, ...
ResolveToken(t) ==
    /\ phase = "items" /\ job = NoJob /\ t \in claimed
    /\ \E level \in Level :
         /\ Found(t, level)
         /\ Failing(t, level) => faults < MaxFaults
         /\ faults' = IF Failing(t, level) THEN faults + 1 ELSE faults
         /\ job' = [token |-> t, level |-> level, waiting |-> Gained(t, level),
                    rows |-> [h \in Height |-> NoRows]]
    /\ claimed' = claimed \ {t}
    /\ UNCHANGED <<tables, open, disturbed, rewinds, phase, unsorted, view, refresh>>

\* ... after the item's own upserts, which only this transaction sees as yet.
ReadWaiting ==
    /\ job # NoJob /\ job.waiting
    /\ job' = [job EXCEPT !.waiting = FALSE,
                 !.rows = Repriced({job.token}, {job.token} \cup KnownIn(registry, metadata))]
    /\ UNCHANGED <<tableVars, phase, claimed, unsorted, view, refresh>>

\* A token without decimals is a failure, to be tried again.
Marked(q, t, level) ==
    [q EXCEPT ![t].status = IF level = "full" THEN "processed" ELSE "failed"]

\* The rest of the item's transaction.
FinishToken ==
    LET t == job.token IN
    /\ job # NoJob /\ ~job.waiting
    /\ metadata' = MetadataAfter(t, job.level)
    /\ registry' = RegistryAfter(t, job.level)
    /\ transfers' = IF job.level = "none" THEN transfers
                    ELSE Recalculated(t, registry'[t])
    /\ trades' = Overwritten(job.rows)
    /\ tokenQueue' = Marked(tokenQueue, t, job.level)
    /\ job' = NoJob
    /\ UNCHANGED <<block, chainQueue, open, disturbed, rewinds, faults,
                   phase, claimed, unsorted, view, refresh>>

\* An error rolls the item's transaction back; its row is marked in another.
TokenFails ==
    /\ job # NoJob /\ faults < MaxFaults
    /\ tokenQueue' = [tokenQueue EXCEPT ![job.token].status = "failed"]
    /\ job' = NoJob
    /\ faults' = faults + 1
    /\ UNCHANGED <<block, trades, transfers, chainQueue, metadata, registry, open,
                   disturbed, rewinds, phase, claimed, unsorted, view, refresh>>

\* Transactions with a transfer that is still of unknown kind, oldest first.
Unsorted(h) ==
    /\ Stored(h)
    /\ \E i \in DOMAIN transfers[h] :
         LET t == transfers[h][i] IN ~t.routing \/ ~t.contract \/ ~t.resolved

ListTransfers ==
    /\ phase = "items" /\ claimed = {} /\ job = NoJob
    /\ phase' = "transfers"
    /\ unsorted' \in Oldest({h \in Height : Unsorted(h)}, RouteLimit, [h \in Height |-> h])
    /\ UNCHANGED <<tableVars, claimed, job, view, refresh>>

ReadTransfers(h) ==
    /\ phase = "transfers" /\ view = NoView /\ h \in unsorted
    /\ view' = [height |-> h, rows |-> trades[h], transfers |-> transfers[h],
                moved |-> [i \in DOMAIN transfers[h] |-> block[h][i]]]
    /\ unsorted' = unsorted \ {h}
    /\ UNCHANGED <<tableVars, phase, claimed, job, refresh>>

\* A transfer, given by the swap it was made for, moves one side of a swap: the
\* token, and about the amount.
Moves(sold, swap) ==
    \/ sold.in = swap.in  /\ AmountsMatch(sold.paid, swap.paid, MatchBps)
    \/ sold.in = swap.out /\ AmountsMatch(sold.paid, swap.got, MatchBps)

Ends(sold) == {sold.from, sold.to}

\* Part of a route is a transfer that moves one side of any hop and has at one
\* end the trader or the locker of that hop, or a contract of a known role.
RoutedByTrade(sold, rows, roles) ==
    \E j \in DOMAIN rows : LET swap == rows[j].swap IN
        /\ Moves(sold, swap)
        /\ Ends(sold) \cap ({swap.trader, swap.locker} \cup roles) # {}
RoutedBy(sold, rows, roles) ==
    \E j \in DOMAIN rows : LET swap == rows[j].swap IN
        /\ MultiHop(rows[j].route) /\ Moves(sold, swap)
        /\ Ends(sold) \cap ({swap.trader, swap.locker} \cup roles) # {}

\* The addresses that pass tokens on; those a call finds a contract at have a role.
PassingOn(sold) == {sold[i].to : i \in DOMAIN sold} \cap {sold[i].from : i \in DOMAIN sold}

\* read is the row as it was read; it is only written when something is new.
Sorted(t, read, routed, role) ==
    IF (routed /\ ~read.routing) \/ (role /\ ~read.contract)
    THEN [t EXCEPT !.routing = read.routing \/ routed, !.contract = read.contract \/ role]
    ELSE t

\* A call that fails finds no contract. With no trade nothing is done. The rows
\* are updated by their key, one by one.
SortTransfers ==
    LET h == view.height
        read == view.transfers
    IN  /\ view # NoView
        /\ \E roles \in SUBSET PassingOn(view.moved) :
             transfers' = [transfers EXCEPT ![h] =
               [i \in DOMAIN @ |->
                  IF i \in DOMAIN read /\ view.rows # NoRows
                  THEN LET sold == view.moved[i] IN
                       Sorted(@[i], read[i], RoutedBy(sold, view.rows, roles),
                              Ends(sold) \cap roles # {})
                  ELSE @[i]]]
        /\ view' = NoView
        /\ UNCHANGED <<block, trades, chainQueue, tokenQueue, metadata, registry, open,
                       disturbed, rewinds, faults, phase, claimed, job, unsorted, refresh>>

SyncerCrashes ==
    /\ phase # "transfers" \/ unsorted # {} \/ view # NoView
    /\ faults < MaxFaults
    /\ faults' = faults + 1
    /\ phase' = "transfers" /\ claimed' = {} /\ job' = NoJob /\ unsorted' = {} /\ view' = NoView
    /\ UNCHANGED <<tables, open, disturbed, rewinds, refresh>>

-----------------------------------------------------------------------------
\* The refresher. A pass takes tokens of any stored rows, bridge activities and
\* prices of other blocks among them, whose metadata is missing or stale; its
\* answers come from the contract alone. The security snapshot it takes of each
\* contract is left out.

RefreshScan ==
    /\ refresh = Resting
    /\ \E todo \in SUBSET Token \ {{}} :
         refresh' = [refresh EXCEPT !.step = "tokens", !.todo = todo]
    /\ UNCHANGED <<tableVars, syncVars>>

Answers(t) == {level \in Level : level = "full" => t \in Resolvable}

RefreshMetadata(t) ==
    /\ refresh.step = "tokens" /\ t \in refresh.todo
    /\ \E level \in Answers(t) :
         /\ metadata' = MetadataAfter(t, level)
         /\ refresh' = [refresh EXCEPT
               !.step = IF level = "none" THEN "tokens" ELSE "registry",
               !.todo = @ \ {t}, !.token = t, !.level = level,
               !.resolved = @ \cup (IF Gained(t, level) THEN {t} ELSE {})]
    /\ UNCHANGED <<block, trades, transfers, chainQueue, tokenQueue, registry,
                   open, disturbed, rewinds, faults, syncVars>>

RefreshRegistry ==
    /\ refresh.step = "registry"
    /\ registry' = RegistryAfter(refresh.token, refresh.level)
    /\ refresh' = [refresh EXCEPT !.step = "tokens"]
    /\ UNCHANGED <<block, trades, transfers, chainQueue, tokenQueue, metadata,
                   open, disturbed, rewinds, faults, syncVars>>

RefreshReadTrades ==
    /\ refresh.step = "tokens" /\ refresh.todo = {}
    /\ refresh' = [refresh EXCEPT !.step = "reprice",
                     !.rows = Repriced(refresh.resolved, KnownIn(registry, metadata))]
    /\ UNCHANGED <<tableVars, syncVars>>

RefreshReprice ==
    /\ refresh.step = "reprice"
    /\ trades' = Overwritten(refresh.rows)
    /\ refresh' = Resting
    /\ UNCHANGED <<block, transfers, chainQueue, tokenQueue, metadata, registry,
                   open, disturbed, rewinds, faults, syncVars>>

RefresherCrashes ==
    /\ refresh # Resting /\ faults < MaxFaults
    /\ faults' = faults + 1
    /\ refresh' = Resting
    /\ UNCHANGED <<tables, open, disturbed, rewinds, syncVars>>

Refreshing == \/ RefreshScan \/ RefreshRegistry \/ RefreshReadTrades \/ RefreshReprice
              \/ \E t \in Token : RefreshMetadata(t)

Syncing == \/ SeedQueue \/ ClaimTokens \/ ReadWaiting \/ FinishToken
           \/ ListTransfers \/ SortTransfers
           \/ \E t \in Token : ResolveToken(t)
           \/ \E h \in Height : ReadTransfers(h)
=============================================================================
