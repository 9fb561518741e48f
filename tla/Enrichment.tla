----------------------------- MODULE Enrichment ------------------------------
(* The block commit, the rewind and the enrichment jobs together.            *)
EXTENDS TradeChaining, TokenMetadata

vars == <<tableVars, chainVars, metadataVars>>

Init == TablesInit /\ ChainingInit /\ MetadataInit

Readers == ChainReaders \cup MetadataReaders

StoreNext ==
    \/ \E h \in Height : BeginStore(h) /\ UNCHANGED <<chainVars, metadataVars>>
    \/ FinishStore(Readers) /\ UNCHANGED <<chainVars, metadataVars>>

RewindNext == Rewind(Readers) /\ UNCHANGED <<chainVars, metadataVars>>

ChainNext(w) ==
    /\ \/ ClaimTransactions(w) \/ LoadTrades(w) \/ ApplyRoutes(w, Repricers)
       \/ ChainingFails(w) \/ ChainerCrashes(w)
    /\ UNCHANGED metadataVars

SyncNext == (Syncing \/ TokenFails \/ SyncerCrashes) /\ UNCHANGED chainVars
RefreshNext == (Refreshing \/ RefresherCrashes) /\ UNCHANGED chainVars

Next ==
    \/ StoreNext \/ RewindNext
    \/ \E w \in Chainer : ChainNext(w)
    \/ SyncNext \/ RefreshNext

Spec == Init /\ [][Next]_vars

\* Every job is a loop that survives its errors and is started again when it
\* ends; a row that stays "processing" is stuck once stuckAfterMs have passed,
\* so a pass that may claim a row again and again in the end does. Nothing is
\* assumed of commits, rewinds, faults and the refresher.
FairSpec ==
    /\ Spec
    /\ \A w \in Chainer : WF_vars(ChainNext(w) /\ faults' = faults)
    /\ WF_vars(Syncing /\ UNCHANGED chainVars)
    /\ SF_vars(ClaimTokens /\ claimed' # {} /\ UNCHANGED chainVars)

-----------------------------------------------------------------------------
Row == [swap : UNION {{s[i] : i \in DOMAIN s} : s \in UNION {Contents[h] : h \in Height}},
        route : [group : Nat, hop : Nat, hops : Nat], pending : BOOLEAN]

\* Types of the tables and of the jobs' local state.
EnrichTypeOK ==
    /\ \A h \in Height :
         /\ block[h] = NoRows \/ block[h] \in Contents[h]
         /\ \A i \in DOMAIN trades[h] : trades[h][i] \in Row
         /\ \A i \in DOMAIN transfers[h] :
              transfers[h][i] \in [routing : BOOLEAN, contract : BOOLEAN, resolved : BOOLEAN]
    /\ chainQueue \in [Height -> Status]
    /\ tokenQueue \in [Token -> [status : Status, seen : {0} \cup Height]]
    /\ metadata \in [Token -> Level] /\ registry \in [Token -> Level]
    /\ disturbed \subseteq Height /\ claimed \subseteq Token /\ unsorted \subseteq Height
    /\ phase \in {"claim", "items", "transfers"}
    /\ batch \in [Chainer -> SUBSET Height]

\* What core/post-processor.js promises of the routes of a transaction: a trade
\* is the next hop of its predecessor exactly when the two can be chained.
WellRouted(rows) ==
    \A i \in DOMAIN rows :
        LET here == rows[i].route
            linked == /\ i # Min(DOMAIN rows)
                      /\ CanChain(rows[Before(rows, i)].swap, rows[i].swap)
            before == rows[Before(rows, i)].route
        IN  /\ ~linked => /\ here.hop = 0
                          /\ i # Min(DOMAIN rows) => before.hop + 1 = before.hops
            /\ linked => /\ MultiHop(here) /\ here.group = before.group
                         /\ here.hop = before.hop + 1 /\ here.hops = before.hops
            /\ MultiHop(here) <=> here.hops > 1

\* A transaction whose queue row is processed carries well-formed routes over
\* exactly the trades that are stored now, whatever was claimed, lost in a
\* crash, rewound and stored again before, unless its rows changed under a job
\* that had read them (jobs/trade-chaining.js).
ProcessedIsChained ==
    \A h \in Height \ disturbed :
        Stored(h) /\ chainQueue[h] = "processed" => WellRouted(trades[h])

MovesHop(sold, rows) ==
    \E j \in DOMAIN rows : MultiHop(rows[j].route) /\ Moves(sold, rows[j].swap)

\* A transfer is only called a routing transfer when it moves one side of a hop
\* of a stored route (matchTransferRouteGroups), with the same exception.
RoutingFollowsRoutes ==
    \A h \in Height \ disturbed : \A i \in DOMAIN transfers[h] :
        transfers[h][i].routing => MovesHop(block[h][i], trades[h])

\* When the queue is done with a token, no stored transfer of it lacks its
\* decimals, also when a rewind took them away and the refresher, which does
\* not look at transfers, found them first (recalculateTransfersForTokens).
ProcessedTokensAreComplete ==
    \A t \in Token : tokenQueue[t].status = "processed" =>
        \A h \in Height : \A i \in DOMAIN transfers[h] :
            block[h][i].in = t => transfers[h][i].resolved

WaitsFor(t, h) ==
    \E i \in DOMAIN trades[h] : /\ trades[h][i].pending
                                /\ t \in TokensOfSwap(trades[h][i].swap)

\* The decimals a pending trade waits for are found, when they can be, or the
\* trade goes away with its block (seedTokenMetadataRefreshQueueFromLiveTables).
DecimalsAreFound ==
    \A t \in Resolvable, h \in Height :
        WaitsFor(t, h) ~> (~WaitsFor(t, h) \/ t \in KnownIn(registry, metadata))
=============================================================================
