# StarknetDeg: TLA+ models, model checks and proofs

StarknetDeg indexes the Starknet DEX ecosystem: it follows a Starknet node over
JSON-RPC, stores every accepted block in Postgres, derives trades, prices, pool
states, candles and wallet analytics from it, and reconciles what it stored with
what Ethereum finally accepted. This directory holds TLA+ modules of the parts
where ordering, failure and concurrency decide whether the stored data is right,
the TLC configurations that check them, and TLAPS proofs of the properties that
matter most. Paths below are relative to the root of the repository.

## 1. The system

| part | state it keeps | operations | interacts through |
|---|---|---|---|
| Block indexer loop (`bin/start-indexer.js`) | cursor, polled height, prefetched payloads, adaptive window | poll, plan, prefetch, commit, back off | RPC; `processAcceptedBlock` |
| Canonical store (`core/block-processor.js`, `core/checkpoint.js`, `core/finality.js`) | `stark_block_journal`, `stark_index_state`, raw rows and everything derived of a block | one transaction per block: advisory lock, sequential check, orphan rival rows, clear and rewrite, advance checkpoint(s) | shared by indexer, replay and backfill |
| Finality promoter (`jobs/finality-promoter.js`) | anchor, L2 tip, window of rows, `stark_reconciliation_log` | walk the window, promote to L1, rewind to the anchor, replay | RPC; the store; rebuilds latest prices and pool states, asks for rollups |
| Turbo index manager (`core/block-processor.js`, `scripts/rebuild-turbo-indexes.js`) | which secondary indexes exist, maintenance promise | drop in historical mode, restore and VACUUM near the head | DDL next to commits |
| Database access (`lib/db.js`) | pool | transactions with retry on deadlock and timeout, exit on a lost connection | everybody |
| Parallel backfill (`scripts/turbo-backfill.js`, `scripts/promote-backfill-checkpoint.js`) | slot claims with a TTL, per-worker checkpoints, chunk cursor, prefetch buffer | claim, refresh, commit, release, stale exit; promotion of the main checkpoint | the store under keys of its own |
| Trade chaining queue (`core/post-processor.js`, `jobs/trade-chaining.js`) | queue rows pending / processing / processed / failed | enqueue at commit, claim, annotate, mark | the store enqueues, the job consumes |
| Token metadata queue (`core/token-metadata.js`, `jobs/metadata-syncer.js`, `jobs/meta-refresher.js`) | queue rows, `tokens` | enqueue, claim, refresh, mark | RPC calls between claim and mark |
| Latest prices and pool state (`core/prices.js`, `core/pool-state.js`) | tick and history rows, one latest row per key | upsert at commit, restore after a rewind | the store, the promoter |
| Candles (`core/ohlcv.js`) | candles per bucket | incremental update, rebuild after a rewind | the store, the promoter |
| Rollups (`jobs/wallet-rollups.js`, `jobs/concentration-rollups.js`, `jobs/bridge-accounting.js`) | positions, FIFO lots, balances, leaderboards | periodic rebuild from finished blocks | read trades, fenced by pending redecodes |
| L1 StarkGate indexer and matcher (`src/indexers/l1-starkgate-indexer.ts`, `src/jobs/l1-cross-chain-matcher.ts`) | `eth_*` events, `eth_index_state`, matches | range scan, one transaction per Ethereum tx, checkpoint; match L1 and L2 events | Ethereum RPC |
| Routing and decoding (`core/event-router.js`, `core/normalize.js`, `core/trades.js`, `core/bridge.js`, `core/protocols/*`) | none | pure transformation of a block's events | called inside the block commit |
| Registries and caches (`core/*-registry.js`, `core/pool-discovery.js`, `core/*-cache.js`) | ABI, token and pool rows, process caches | lookups, upserts, refreshes | RPC during decode |
| RPC client (`lib/starknet-rpc.js`) | pacing and batching state | batch with fallback, retries, adaptive concurrency | node |
| Supervision (`ecosystem.config.js`, `tools/run-group.js`, `docker-compose.yml`) | children | start, stop, restart | processes |

The hard behaviour is where two of them meet. The indexer and the promoter commit
into the same journal and move the same two checkpoints, in transactions that take
different locks; both act on RPC answers and checkpoint values that are older than
the transaction they end up in; the node replaces blocks meanwhile; either process
may die anywhere. The parallel backfill fills the same journal first, with many
processes that are killed, restarted and replaced on purpose. The enrichment jobs
read rows, ask other services, and write back to rows that commits and rewinds may
have replaced. The latest prices and the candles are kept incrementally through
commits, rewinds and replays. The rollups replay everything that is stored, in
transactions that last long next to all the others. What makes each part correct:

* store: one active row per height, no gap up to the checkpoint, every derived row
  belongs to the active block, parent-child continuity;
* promoter: only truly final blocks are marked final, nothing final is rewound, the
  anchor is final and stored, the store converges to the node's chain;
* backfill: every chunk is completed, promotion only over a complete range;
* queues: no enqueued work is lost, nothing is processed on replaced data, what a
  row waits for is found;
* latest state and candles: the latest row is the newest history row, a rewind leaves
  no trace, a candle counts each trade once;
* wallets: quantities and costs are conserved to the last unit, relief is first in,
  first out, every profit is proved by its rows;
* holders: balances are the replayed transfers and documented adjustments, the
  replay moves on;
* bridge: no log up to the checkpoint is missed, matches are mutual, the verified
  totals are those of the matches.

## 2. Modules

    BlockTree         the tree of blocks a node may serve, heights, lanes, payloads
      Journal         the rows and the two transactions that write them
      StarknetChain   the node (external): head, L1 head, reorgs
        BlockIndexer      bin/start-indexer.js
          FinalityPromoter  jobs/finality-promoter.js
            Ingestion         both processes, the properties of the composition
          IndexerAlone      the indexer as it runs without phase 6
        ParallelBackfill  the backfill workers and the promotion script
      MarketData      the events of blocks
        TradePricing      core/trades.js and the price graph
          MarketTables    core/prices.js, core/pool-state.js, their restore
        Candles           core/ohlcv.js
          Market            commits, rewinds and metadata over these tables
    BlockLog          abstract specification of the stored blocks
    BackfillPlan      abstract specification of the backfill
    WorkQueue, TradeRoutes
      EnrichmentTables  the tables the jobs share with the commit and the rewind
        TradeChaining     jobs/trade-chaining.js
        TokenMetadata     jobs/metadata-syncer.js, jobs/meta-refresher.js
          Enrichment        all of them together
    HolderReplay      jobs/concentration-rollups.js
    WalletLedger      jobs/wallet-rollups.js
    StarkgateIndexer  the L1 indexer and Ethereum
      BridgeTables      the Starknet side of the bridge
        CrossChainMatcher the L1 cross-chain matcher
          BridgeAccounting  jobs/bridge-accounting.js
            Bridge            all of them together
    MC*               instances for TLC
    Induction         induction and sums as lemmas about sets
      IngestionProofs, BackfillProofs, MarketProofs, EnrichmentProofs,
      HolderProofs, LedgerProofs, BridgeProofs   theorems

The groups meet at the block commit and the rewind. Ingestion models these two in
every step and every race; the other groups take from it what it shows (a commit
is of the block after the checkpoint, a rewind is one transaction that cuts a suffix
of the chain) and model what commit and rewind do to their own tables.

### Ingestion

**State.** A block is a model value that stands for its hash; `Num`, `Parent`
and `Line` (the blocks from `Root` to it) are constants. `cp` is
`stark_index_state` (one row per lane), `journal` and `finality` the two columns
of `stark_block_journal` that steer the code, `derived[h]` the block whose raw,
trade, price, transfer and candle rows fill height `h` (the code always clears
and rewrites them together), `rawFinality[h]` the finality column of the raw
tables, which `promoteBlockToL1` updates by number while the journal row is found
by number and hash. `locked` are the heights whose rows an open rewind has
deleted; a commit of such a height waits. `ixPc`, `latest`, `cursor`, `batchEnd`
and `fetched` are the local variables of the indexer's loop at each `await`;
`fpPc`, `anchor`, `l2Tip`, `remoteTip`, `window`, `replayAt`, `replayed` those of
a promoter pass; `recon` the status of the latest incident row.

**Actions.** One transaction is one action, one RPC answer is one action, and
every checkpoint read outside a transaction is one action.

| action | code |
|---|---|
| `PollHeight`, `PlanBatch`, `FetchBlock`, `CommitBlock`, `CommitRejected`, `IndexerFails` | the loop of `bin/start-indexer.js` |
| `ProcessAcceptedBlock(p)` | the transaction of `processAcceptedBlock`: `assertSequentialProgress`, `markConflictingBlockRows`, clear, `upsertBlockJournal`, `advanceCheckpoint` and its L1 mirror |
| `ReadAnchor`, `ReadL2Tip`, `ReadRemoteTip`, `LoadActiveJournalWindow`, `CompareRow`, `PromoteRow`, `WindowDone` | the walk of `promoteAndReconcile` |
| `RewindDelete`, `RewindCommit`, `RewindRetry` | the transaction of `reconcileFromAnchor`: its DELETEs lock rows first, the checkpoint is reset last |
| `ReadReplayTip`, `ReplayFetch`, `ReplayCommit`, `ReplayRejected`, `ReplayFinished` | the replay after the rewind |
| `PromoterFails` | an error or SIGTERM (`PassFails`), or the end of the process (`PromoterCrashes`) |
| `Extend`, `Reorg`, `AdvanceL1` | the node (external) |

Modelling decisions a reader should know:

* A block and its state update are two RPC answers; the code compares their
  hashes and fails when they differ, so the pair is one atomic answer
  (`RemotePayload`), a mismatch being one of the faults.
* The journal rows are orphaned by the first statement of the rewind, and the
  model does it when the transaction commits: until then no other transaction
  writes a height up to `l2Tip` while the checkpoint stays at or above it.
* Turbo mode matters only because a whole batch is fetched before its first
  commit; the size of the adaptive window is any `BatchSize`.
* The header-only and minimal modes (off by default) are not modelled.

### Parallel backfill

**State.** `claim[s]` is the `owner_id` of the lease row of slot `s`
(`stark_backfill_worker_claims`), `overdue` the slots whose `updated_at` is older
than the TTL, `wcp[s]` the checkpoint under the key `<prefix>-w<s>`, `row[h]` the
active journal row of a height, `unlogged` the persistence mode of the journal,
`main` the checkpoint of the main key; `emptied` is a history variable, TRUE once a
crash has emptied the journal. Of a container `w`: `wpc[w]` where its
process is (`down` after an exit code Docker restarts, `done` after exit code 0),
`slot[w]` its `workerIndex`, `cursor[w]`, and `fetched[w]` the blocks of the
current and of the prefetched batch.

| action | code |
|---|---|
| `ClaimSlot` | one turn of `claimWorkerIndexFromDb`: delete expired claims, take the lowest free slot, skip slots whose rows rivals hold |
| `ClaimExpires`, `RefreshClaim` | the TTL, the claim heartbeat and its exit when the claim is lost |
| `BeginChunk` | `main` up to its loop: no range, checkpoint to cursor, UNLOGGED by the leader |
| `PrefetchBlock`, `CommitChunkBlock` | `loadPrefetchBatch` and the commits of the batch |
| `ChunkBlockRejected`, `BatchFails`, `ResyncCursor`, `ResyncFails` | the catch block and its cursor resync |
| `FinishChunk`, `Stop` | the end of the loop, by the chunk's end or by SIGTERM: LOGGED again if configured, claim released, exit code 0 |
| `Crash`, `Restart`, `Relaunch` | the stale-worker exit and every other failing end; `restart: on-failure`; a container started by hand |
| `DbCrash` | a crash of Postgres, which comes back with empty UNLOGGED tables |
| `PromoteCheckpoint` | the transaction of `promote-backfill-checkpoint.js` |

* `Dead` stands for every `owner_id` that no process has any more: a process
  that starts again makes itself a new one.
* Which batch a height belongs to is left out: `Lookahead` is the reach of the
  batch being committed plus the one being prefetched, whatever their adaptive
  sizes.
* A rejected prefetch that nobody awaits ends the process like every other crash.
* `Operator` says whether containers are stopped and started by hand; without
  it a container with exit code 0 stays down, as Docker leaves it.
* The first block of a chunk is compared with nothing (its checkpoint is NULL) and
  the promotion only counts heights, so continuity is a property of the inside of
  chunks.
* The indexer is assumed not to write into the range during the backfill, as the
  procedure in `DEPLOYMENT.md` has it; the L1 lane plays no part here.

### Market

**State.** Events, minutes, tokens and pools are constants of the blocks. `market`
holds the four tables `stark_price_ticks`, `stark_prices`,
`stark_pool_state_history` and `stark_pool_state_latest`; `trades`, `pending` and
`candles` are `stark_trades`, its `pending_enrichment` flag and `stark_ohlcv_1m`;
`known` are the tokens with decimals, `reading` the commit under way with the
registry it has read. A row is named by its event, so rows of replaced blocks are
told apart. A price is not a number but where it comes from: the block its anchor
was traded in, whether it is stale, and whether raw amounts went into it. A candle
is the sequence of trades added into it; open, close, count, volumes and vwap follow.

| action | code |
|---|---|
| `BeginBlock`, `CommitBlock`, `DropBlock` | `loadTokenRegistryByAddress`; `clearBlockDerivedRows`, `persistTradesForBlock`, `persistPoolStateForBlock`, `persistPriceDataForBlock`, `persistOhlcvForBlock` |
| `Rewind`, `RewindPastCommit` | `deleteReconciliationWindow` and `restoreLatestMaterializedState`; the same with a commit that ends between the two |
| `EndReplay` | the incident leaves `REPLAYING`, which `isReconciliationTriggered` looks at; one that is open when the next rewind begins stays so (`stuck`): its promoter died |
| `ResolveDecimals` | `repricePendingEnrichmentTrades`, `rebuildPendingEnrichmentCandles` |

One commit at most slips into a rewind, and it ends before the first of the rewind's
deletes or after the last: a commit seen by some of the deletes is not modelled. What
`CandlesCountEachTradeOnce` and `RewindIsInvisible` say is left open after it.

The prices of a block's trades are computed as the code does, trade after trade over
the context the earlier ones left (`PriceBlock`), with the breadth-first search over
pools as one choice among all ways (`GraphPrice`). Not modelled: CMC reference
prices, the hop limit and low-confidence exclusions (which the instance's paths
cannot reach), dollar notionals, realtime serialisers, pool discovery.

### Enrichment

**State.** A block is one transaction; `block[h]` its swaps as the actions have them,
`trades[h]` and `transfers[h]` the rows; `chainQueue`, `tokenQueue` the two queues;
`metadata` and `registry` the two token tables; `batch`, `reading`, `claimed`,
`job`, `view` and `refresh` what the jobs hold between their statements. A commit
reads the registry (`BeginStore`) some time before its rows appear (`FinishStore`).

| action | code |
|---|---|
| `ClaimTransactions`, `LoadTrades`, `ApplyRoutes`, `ChainingFails`, `ChainerCrashes` | `jobs/trade-chaining.js` and `core/post-processor.js` |
| `SeedQueue`, `ClaimTokens`, `ResolveToken`, `ReadWaiting`, `FinishToken`, `TokenFails` | a pass of the syncer over `stark_token_metadata_refresh_queue`; an item is one transaction that sees what others commit meanwhile |
| `ListTransfers`, `ReadTransfers`, `SortTransfers`, `SyncerCrashes` | its transfer enrichment |
| `RefreshScan`, `RefreshMetadata`, `RefreshRegistry`, `RefreshReadTrades`, `RefreshReprice`, `RefresherCrashes` | `jobs/meta-refresher.js`, whose statements commit one by one |

`Routes` is the chain annotation, with the jitter of `CanChain`; `Oldest` is what
`ORDER BY ... LIMIT n` may return. `RoutedBy` compares a transfer with every trade of its
transaction: the token and about the amount of either side of a hop, and the trader,
the locker or a contract that passes tokens on (`PassingOn`) at one end; of such
addresses any may be found to be contracts, since a failing call finds none. A
transfer is of what a swap sells: transfers of what is bought, or that belong to no
swap, are left out. Not modelled: the taxonomy a chained pool gets
(`trade-chaining.js` 128 to 256), Voyager's cooldown, the refresher's security
snapshot, the seeding of known tokens, deployment info, partial annotations.

### Holders and wallets

`HolderReplay` is one transaction with its own view of the rows: `pass` holds the
window, the rows as read or decoded again, the audit rows, the balances and the
deltas so far. `ApplyChange`, `Repair`, `GiveUp`, `RedecodeFails` and `Redecode` are
the branches of `applyTransferDelta` and `attemptUpgradeAwareRedecode`; `Restarted`
is `ReplayRebuildRequired`. Decoding a block gives any of its `Variants`, so decoding
it again may or may not bring the transfer that was missing. A block that is stored
again is taken to be the same block. Concentration figures, leaderboards, alerts and
the `INTERNAL_TRANSFER` label are queries over the result and left out.

`WalletLedger` is arithmetic: each transaction is replayed by operators named after
the functions they stand for, with every division rounded as BigInt does. `Split` is the
loop that gives each of several parties its share of what is left and the last one the
rest; proceeds, the gas of a migration and the fee of a transaction go through it. The
histories `flows`, `paid` and `relieved` count the amounts and the cost that entered
and left the positions; `dropped` says that a lot without a quantity was not added.
Left out are the job's tables and commits, statistics, leaderboards, events and the
historical prices of gas.

### Bridge

**State.** `eth`, `ethJournal`, `events`, `cursor` are Ethereum and the indexer's
tables, `range` the range under way; `activity`, `link`, `flows` the Starknet side;
`pass` and `rebuild` the transactions of the matcher and of the accounting.

| action | code |
|---|---|
| `BeginRange`, `StoreEthBlock`, `FetchLogs`, `StoreTransaction`, `TransactionFails`, `CommitRange`, `RangeLost` | `processBlockRange` |
| `MineBlock`, `ReplaceBlock` | Ethereum (external) |
| `StoreBlock`, `Rewind`, `Redecode` | the commit, the rewind and a second decoding, of the bridge rows |
| `BeginPass`, `MatchDeposit`, `LeaveEvent`, `EndPass`, `PassFails` | `matchSingleDeposit` for every pending event, `markStaleUnmatched` |
| `BeginRebuild`, `DeleteFlows`, `ReadActivities`, `InsertFlows`, `InsertClashes`, `RebuildFails` | the transaction of `bridge-accounting.js`: its window, the deletion, what it reads, and the rows it holds locked |

The indexer knows no finality depth and compares no parent hashes; a block that is
replaced after it was read is in the history variable `late`, which the properties
leave out. The timestamp of an event's row is that of the block it was last stored from
(`BlockTime`), the activity keeps the one it was matched with. The accounting reads the
checkpoint its activities go up to in a statement before the deletion; with
`PHASE6_REQUIRE_L1` it may be that of any stored block, or none, and then only the
deletion is committed. `flowsUpTo` remembers the block. The logs and the blocks of a
range are fetched in one step each, and only the last block of Ethereum is replaced; the
logs of a range go by block and deposit, for block and log index. There is one token,
whose price does not move between matcher and accounting. Activities without wallet or
token, which all jobs pass over, withdrawals, events of unknown kinds, wallet statistics
and alerts are not modelled.

## 3. Runs

All bounds are constants of the specifications: the blocks (which bound the height),
batches, and the number of reorgs, rewinds, faults or upsets. Deadlock is not
checked: with the blocks exhausted and everybody waiting, stopping is legitimate.

| run | checks | instance |
|---|---|---|
| `ingestion_safety` | `TypeOK`, `OneActiveRow`, `StoredWithoutGaps`, `FinalityAgrees`, `FinalIsCanonical`, `AnchorIsFinal`, `CheckpointMoves`, refinement `LogSpec` | 5 blocks, height 2, 2 reorgs, turbo batches of 2, 1 fault, from an anchored store |
| `ingestion_converges` | `ConvergesOnStoredAnchor` | the same blocks, 3 reorgs, `FairSpec` |
| `indexer_alone` | `LinkedChain` | 8 blocks, height 3, empty database, batches of 3, 3 reorgs, 2 faults |
| `backfill_safety` | `BackfillTypeOK`, `ChunkIsChain`, `PromotionIsFinal`, refinement `PlanSpec` | 8 blocks, heights 1 to 3 in chunks of 2 and 1, two containers, lookahead 2, 1 reorg, 2 faults, operator, UNLOGGED journal |
| `backfill_completes` | `CompletesOrExits` | three containers for two slots, 1 fault, `FairBackfillSpec` |
| `market_safety` | `MarketTypeOK`, `LatestIsNewest`, `RewindIsInvisible`, `PricesHaveAnOrigin`, `CandlesCountEachTradeOnce`, `CandlesAreContiguous`, `PendingCandlesAreFlagged` | 6 blocks on two forks, height 4, 3 pools, 1 token without decimals, 2 rewinds, 1 stray commit |
| `enrichment_safety` | `EnrichTypeOK`, `ProcessedIsChained`, `RoutingFollowsRoutes`, `ProcessedTokensAreComplete` | 1 transaction with 2 contents, 1 token without decimals, chainer, syncer and refresher, 1 rewind, 1 fault |
| `enrichment_settles` | `DecimalsAreFound` | the same without a chainer, `FairSpec` |
| `holders_safety` | `HoldersTypeOK`, `BalancesAreReplayed`, `StrikesAddUp`, `FatalIsFinal`, `HoldersCatchUp` | 3 blocks, 2 holders, 2 decodings of two of them, limits of the code, 1 rewind, 1 fault, fair |
| `holders_stall` | `HoldersCatchUp`, violated | 4 blocks with a gap each, limits of the code |
| `ledger_safety` | `LedgerTypeOK`, `HoldingsAreFlows`, `PnlIsProven`, `ReliefIsFifo` | 2 wallets, 3 tokens, 9 transactions, 5 in any order |
| `bridge_safety` | `BridgeTypeOK`, `MatchesAreMutual`, `EveryLogIsStored`, `VerifiedIsMatched` | 2 equal deposits of one wallet, 1 trade, 2 Ethereum blocks in ranges of 2, 1 upset |

**Bounds.** The trees of the ingestion have two forks at every height and a fork
whose point is above a common child, so that a reorg can replace one block, two
blocks, or shorten the chain; two reorgs are what the deepest race needs, one that
makes a prefetched block stale and one that makes the replay itself stale. The
backfill's chunks have two blocks and one: a chunk with an inside, a last chunk cut at
the end of the range, and a border between them; a fault is a crash, a failed call,
a late refresh of a live lease, a database crash or an act of the operator. In the
market one token is priced only through a pool with another, blocks of one minute
and skipped minutes alternate, and a summary of an aggregator stands with and
without its legs; two rewinds let a replay be rewound again. In the enrichment one
transaction has two contents, before and after a rewind: a chain of two hops, with a
third swap that misses it by four units and sells about what the chain bought, and the
second hop alone; what that hop sells goes from contract to contract, so that only a
found role makes it part of the route. The decimals of one token arrive at any moment. Four blocks with four
gaps of three strikes are the fewest that use up twelve restarts. The ledger's nine
transactions contain a trade of each kind, a gas fee that does not divide, a
migration, dust, and transfers with and without a counterparty; five of them in any
order give partial relief of up to four lots. The bridge has two equal deposits to one
wallet, which only the nonce could tell apart, an accounting that requires the L1
checkpoint and so may stop at any stored block, and one upset of any kind; two need more
states than a run should.

**Fairness.** `FairSpec` of the ingestion assumes weak fairness of each process's own
steps (both are interval loops that catch every error and go on), that the node
extends its head and that L1 acceptance advances. Reorgs end at their bound and there
are no crashes in that run. `FairBackfillSpec` assumes weak fairness of every worker's
own steps, Docker's restart among them, and that the claims of the dead run out.
`FairSpec` of the enrichment assumes weak fairness of the syncer and the chainers, and
strong fairness of a claim that finds something, since a stuck row becomes claimable
when its timeout has passed; the holders' `Spec` assumes weak fairness of the replay.
These jobs are loops that log an error and go on, and `ecosystem.config.js` starts
them again when they end. Nothing is assumed of faults, rewinds, commits, refreshes
of leases, the refresher or the operator.

`holders_stall` is a finding of `PROJECT.json`: `Docs/phase6_analytics.md:817` has the
replay move on after three strikes, but the strikes are counted in a transaction
that the twelfth restart rolls back, so four discrepancies stop it for ever.

### Other disagreements between documents and code

These came up while modelling; most can be read off the properties' exceptions.

* Ingestion. Rows promoted since the pass began are rewound, although the replay
  is to start at the last safe anchor (`Docs/phase6_analytics.md:546`); a stale
  prefetched block slips in under a row the rewind did not orphan, against
  parent-child continuity (`Docs/phase1.md:479`, `finality-promoter.js:274`); with the
  NULL checkpoint of a rewind without anchor any height is accepted
  (`Docs/phase1.md:478`, `block-processor.js:1105`); rows below a mirrored checkpoint
  are outside every later window and never promoted (`Docs/phase6_analytics.md:540`,
  `block-processor.js:543`); with the L1 checkpoint on a block that is not stored no
  divergence is found again (`Docs/phase6_analytics.md:551`, `finality-promoter.js:111`).
  `ConvergesOnStoredAnchor` is the positive side of the last.
* Backfill. A restarted worker may lease a finished slot and exit with code 0; its own
  chunk is never taken up again (`DEPLOYMENT.md:156`, `Docs/changes.md:880`,
  `turbo-backfill.js:572`). The journal stays UNLOGGED after the promotion, and a
  database crash empties it (`DEPLOYMENT.md:189`, `turbo-backfill.js:156`).
  `CompletesOrExits` and `PromotionIsFinal` are their positive sides.
* Market. A rewind through the middle of a minute deletes the candle with the trades
  below the anchor in it (`torn`); what the price tables hold of a token without
  decimals is not corrected when they arrive.
* Enrichment. A trade stored with an older view of the registry is not re-priced
  (`Docs/phase4_metadata.md:202`): the syncer re-prices only when it brings decimals
  the store did not have. Transfers without a counterpart fill the list of unsorted
  ones, and routing transfers behind them are never labelled
  (`Docs/phase4_metadata.md:426`). A queue row is marked by its key alone, so a
  re-enqueue under a working job is lost (`disturbed`).
* Holders and wallets. `PENDING_REDECODE` is written and taken back within one
  transaction, so the fence of `Docs/phase6_analytics.md:814` never stands
  (`StrikesAddUp`). Two sales of one lot in one transaction violate the unique key of
  `Docs/phase6_analytics.md:928`, which the insert does not handle. A migration of three
  lots or more splits its new quantity wrongly (`wallet-rollups.js:1668`); a lot whose
  share is 0 or below is then left out, and its cost with it (`dropped`). The gas share of a trade without a price is lost.
* Bridge. No `bridge_in` row carries a nonce, so the first strategy of
  `Docs/phase5.md:137` never finds anything, and equal deposits may be matched
  crosswise. A rewind or a second decoding of a matched block leaves the half match
  `Docs/phase5.md:149` wants to avoid: the event keeps its match, the activity begins
  anew and ends `UNMATCHED`. A log that cannot be decoded fails its range for ever,
  because `deriveTxType` decodes it outside the `try`. The accounting deletes all totals
  but adds up the activities of its window alone: a deposit that is matched above it,
  because its block was stored after the window was read
  (`bridge-accounting.js:75`) or is not yet `ACCEPTED_ON_L1`, is missing from the totals
  until a later rebuild reaches it, and without a checkpoint all of them are. So
  `VerifiedIsMatched` promises every match up to `flowsUpTo` only, and of the others that
  none is counted twice.

## 4. Proofs

Each theorem holds for every value of the constants that satisfies the named
assumptions of the modules: every tree of blocks, batch size, number of workers,
contents of blocks and transactions, pools, deposits, decodings, limits and faults.
Those about rewinds of the store assume `Seeded`, an anchored store: without it
`StoredWithoutGaps` is false.

| theorem | states |
|---|---|
| `IngestionProofs!TypeCorrect` | `Spec => []TypeOK` |
| `IngestionProofs!AloneStoresOneChain` | the indexer alone stores one chain without gaps |
| `IngestionProofs!StoreIsSound`, `OneRowPerHeight`, `FinalityIsToldOnce` | no gaps, one active row per height, agreeing finality |
| `IngestionProofs!FinalityIsTrue`, `AnchorStaysFinal` | what is marked final is final and canonical; so is the L1 checkpoint |
| `IngestionProofs!CheckpointMovesCorrectly` | the L2 checkpoint moves to a child or back to a lower final block |
| `IngestionProofs!StoreImplementsLog` | `Spec => LogSpec` |
| `BackfillProofs!BackfillTypeCorrect`, `ChunksAreChains`, `PromotedStays` | types and every cursor in its chunk; chains within chunks; the promoted block is the last slot's checkpoint and no promoted row is replaced |
| `BackfillProofs!BackfillImplementsPlan` | `BackfillSpec => PlanSpec` |
| `MarketProofs!MarketIsTyped` | rows have their types, the price search included |
| `MarketProofs!LatestStaysNewest`, `RewindsStayInvisible`, `PricesKeepAnOrigin` | latest rows are the newest, rewinds leave no trace, every price goes back to a stored trade |
| `MarketProofs!CandlesCountOnce`, `CandlesStayContiguous`, `CandlesStayFlagged` | a candle has each trade once, no minute is missing, pending trades flag it |
| `EnrichmentProofs!EnrichmentIsTyped`, `TokensStayComplete` | types; a processed token has its decimals everywhere |
| `EnrichmentProofs!ProcessedStayChained`, `RoutingsFollow` | a processed transaction is chained as its trades say; a routing transfer moves one side of a hop of a stored route |
| `HolderProofs!HoldersAreTyped`, `BalancesStayReplayed` | no balance is negative; balances are the replayed transfers and audited adjustments |
| `HolderProofs!StrikesAlwaysAddUp`, `FatalStaysFinal` | strikes and given-up discrepancies |
| `LedgerProofs!LedgerIsTyped`, `HoldingsStayFlows` | nothing falls below zero; holdings are flows, and cost is neither lost nor counted twice |
| `LedgerProofs!PnlStaysProven` | realized profit is that of its proof rows, to the last unit |
| `LedgerProofs!ReliefStaysFifo` | no lot becomes less while one of an older token is left, across migrations too |
| `BridgeProofs!BridgeIsTyped`, `NoLogIsSkipped`, `MatchesStayMutual` | types; the L1 checkpoint covers stored logs only; matches are mutual |
| `BridgeProofs!TotalsStayVerified` | the verified inflow of a wallet counts its matched deposits once, and all of them up to the last rebuild's window |

The provers cannot instantiate the library's induction theorems, whose hypotheses are
operators. `Induction` therefore states induction as facts about sets (what contains
0 and the successors of its members contains `Nat`), and so makes recursive
functions, folds and sums accessible: a recursive function is first shown to exist,
and only then to be what its `CHOOSE` picks. `SumAdds`, `SumRemoves` and `SumSame` say
that `SumFunctionOnSet` does not depend on the order in which it picks elements; `Places`
numbers the elements of a finite total order; `LineOfTree` is induction on a tree,
with which `Lines` follows from the equation `LineAssumption` defines `Line` by.

The safety properties are not inductive: a rewind is safe only because of what
the pass has established before it. `PassInv` says it: both checkpoints exist;
the tip the pass read is still stored (`TipIsStored`); the rows left in its
window are active and between the anchor and that tip (`WindowIsStored`); the
row it is working on is one of them (`RowIsPending`); and the locked heights are
above the anchor (`LocksAboveAnchor`). Commits of the other process only append
above the checkpoint, which is at or above that tip, so they keep `PassInv`; the
rewind then removes exactly the rows above the anchor, and
`IInv == TypeOK /\ PassInv /\ StoreInv` is inductive. `FinalInv` adds that every
fetched or compared answer that said `ACCEPTED_ON_L1` was true, which stays so
because the node never replaces a final block. The refinement maps the stored
blocks up to the checkpoint to `BlockLog`'s log; commits map to `Append`, the
rewind to `Cut`, everything else stutters.

The theorems of the backfill hold for any number of containers, slots, chunk
sizes and faults. Their inductive invariant `BInv` adds to the types what makes
two owners of one slot harmless: no cursor is ahead of the block after the slot's
checkpoint (`CursorBehind`), a worker holds blocks of its own chunk only
(`FetchedInChunk`), a slot's checkpoint lies in its chunk (`CheckpointInChunk`) and
a stored block at its own height (`RowsAtTheirHeight`). A commit is of the block at
the cursor and at most one height behind the checkpoint, so with
`assertSequentialProgress` it is exactly the next one, whoever commits it
(`CommitAdvances`); chunks do not overlap (`ChunksDisjoint`), so it disturbs no
other slot. What a crash of an UNLOGGED database empties is the only hole a chunk
can have (`emptied`). The promotion is final because it comes after all chunks are
done (`Promoted`): whatever an owner of a lost lease still holds is a height of its
chunk, the checkpoint of a done chunk is at the chunk's end, so
`assertSequentialProgress` refuses it (`NoCommitAfterPromotion`); and the journal row
the promoter looks up at the end of the range is the last slot's checkpoint because
the rows of the chunk lie on its chain (`PromotionTakesLast`).

The holders' invariant `AuditInv` says of the audit rows of a pass under way what
`StrikesAddUp` says of the stored ones, and that every given-up discrepancy of the
store is given up in the pass too: nothing between its begin and its commit changes
the stored rows, so the commit loses none. `ReplayInv` adds how a pass stands to the
tables (`Standing`): the blocks it decoded again are locked, so no rewind takes them,
and as long as there was no rewind the rows it reads of all others are the stored
ones; and how far it has come (`Progress`): its delta rows are the changes before
the next one, its balances their sums, and an adjustment has its audit row. A
restart begins with nothing to explain (`StartedProgress`), and when the last change is
explained the commit stores just the rows that were replayed.

`MarketProofs` has three invariants. `TablesInv` says that the price and pool tables are
sound (`Sound`: every row belongs to an event, and a latest row is the newest of its
key) and that, as long as no commit ran through a rewind, they are what replaying
the chain up to the checkpoint gives (`Replayed`, a recursive function over that
chain): a commit adds one step to it, a rewind goes back to an earlier one.
`CandlesInv` says of candles what holds whatever happened to them: their form and
their flags. `CountInv` adds that, without such a commit, the trades are those of
the chain, every candle with a trade is written and every gap filled, and that a
bucket which is not torn holds its trades and no others (`Exact`). The loop over a
block's trades is unfolded by `LoopUnfolds`, the search through the pools by the
edges it may use (`EdgesAreEdges`).

`EnrichmentProofs` has `TypesInv` (the tables, and what the jobs hold) and
`ChainingInv`: for every height that was not replaced under a working job
(`disturbed`), the trades are those of its block, what a job has read are those
trades, every hop it has read is a hop still (`KeepsHops`), and what it has labelled, or
read as labelled, moves one side of a hop (`MovesHop`). The jobs' statements are
interleaved with commits and rewinds; the lemmas `...Follows` go through them process
by process.

The bridge's `Inv` is the form of the tables, `MatchesAreMutual` itself, and `EthInv`:
a range begins at the checkpoint and ends at a block (`RangeBounds`), has stored the
journal rows of all blocks behind it (`RangeJournal`) and every log but those it still
holds (`RangeLogs`), and the same has happened up to the checkpoint
(`CursorJournal`, `CursorLogs`). `CommitRange` turns the first into the second.
Ethereum may change only blocks that are then `late` or not read yet (`SameBlocks`);
no other step takes an event row back (`EthKeeps`), and only a match makes a row
`MATCHED` or, by a rewind or a second decoding, an activity not so (`MatchesKeep`).
The matcher looks by nonce first; that it finds nothing there, because no deposit has
the nonce 0, is part of the proof (`FoundFits`). The totals need `FlowInv`. `Counts` says
that a row adds up a set of a wallet's matches which contains all up to a block. A wallet
whose row the rebuild has deleted is locked, so that nothing is matched to it; the row of
another can only have been made since, of matches made since (`ReadIsRight`). What the
rebuild has read is therefore right where there is no such row; where there is one, the
insertion clashes with it or leaves it, and then there was nothing to read for the wallet
up to the window (`InsertIsRight`). A total is wrong only where a rewind or a second
decoding has been since the deletion.

The ledger's invariant is `LedgerBalanced`: after every transaction the books are
`Balanced`. Inside a transaction they are balanced too, but for a cost that is carried
from one position to another, and so `Balanced` has that cost as a parameter. A position
is a `Holding` when its totals are those of its lots; `Consumes` says what relief takes
out of one and that external inventory, lots, dust and the rest add up. `Posted` is a
change at one position, and `Withdraws`, `Deposits`, `Buys`, `Pays` and `Sells` say what
each does to `Balanced`; `ItemBalances` puts them together for each kind of item and
`ReplayBalances` for the loop over a transaction. `Descent(m, i)` are the roots and ids
a lot may have at item `i` of block `m`: a root is not younger than its lot, and a lot
was bought by an earlier item, which is what makes the rows of a sale proven. The
loops are folds whose function is first shown to exist (`LoopExists`) and then followed
step by step (`LoopSteps`); `SplitSums` says that the shares of a split add up to what
was split, whatever the weights, and `ShareBounds` that a rounded share of a whole lies
between nothing and the whole.

`LedgerQueued` adds that the lots of every position are in the order they are relieved in,
none twice (`InOrder`): `Earlier` is a strict order on them, total where ids differ
(`EarlierOrders`), `Sorted` keeps it (`SortedInOrder`), and a lot is new when it is bought,
because its id has the place of its item in it (`FreshLots`). `Follows` relates the lots of
a position to earlier ones: what is not new is left of one of them, and none is relieved
while an older one is left. One relief takes the first lots whole and a part of the next
(`Rest`), and trimming dust afterwards takes no other lot that is not dust (`Kept`), so it
`Follows` (`RelievedInOrder`). Several reliefs and purchases of a transaction compose
(`FollowsOn`) because a lot that is gone does not come back: what is bought since the
block began has an id that no lot had then (`Old`).

Assumptions on constants are named in the modules and evaluated by TLC on every run:
NULL is no row, block or payload (`NoneAssumption`, `RowAssumption`,
`CandleAssumption`, `ReadingAssumption`); trees, pools, heights and minutes are finite
(`TreeAssumption`, `MarketAssumption`, `BoundsAssumption`, `EnrichmentAssumption`);
blocks, transactions, deposits and decodings are of their types
(`ContentsAssumption`, `DepositAssumption`, `ReplayAssumption`, `LedgerAssumption`).

Only model-checked: liveness (`ConvergesOnStoredAnchor`, `CompletesOrExits`,
`DecimalsAreFound`, `HoldersCatchUp`), because fairness is outside the prover's reach.

## 5. Plan

1. Done: ingestion and parallel backfill; market state and candles; the enrichment
   queues; holder replay and wallet ledger; the bridge with its indexer, matcher and
   accounting; the theorems of section 4.
2. Next: a store without an anchor up to its first rewind in `StoreIsSound`.
3. The bridge over more upsets with symmetric deposits, and its liveness, which the
   present instance is too large for.
4. The refresh of rollups after a rewind as a step of the promoter, with the ledger.

## 6. Not modelled

Pure parsing (the protocol decoders), numeric formatting, the RPC client's pacing,
secondary indexes and their maintenance, registries of ABIs and pools, process
caches, realtime publishing (best effort after the commit), supervision (what is
started again is the fairness above), migrations and reports. The "components" of
`PROJECT.json` give the reason for each, its "hazards" what can go wrong at which
line, and which property would show it. Under `tools/run-group.js` alone a job that
dies is not started again as long as another of its group lives (line 83): the
liveness properties assume a supervisor that does.

Simplifications the properties cannot tell apart: the deletes of a rewind's
transaction and its orphaning are two steps, its row locks one set of heights; a
range of Ethereum logs and the timestamps of its blocks are read at once, of a
block that is stored again the timestamp does not change, and deposits are ordered
by block and number; the ledger's blocks have one transaction each, so lots of one
block are of one transaction.
