-------------------------- MODULE EnrichmentTables ---------------------------
(* The tables the block commit shares with the enrichment jobs, and the two  *)
(* writers that are not jobs: the commit of a block and the rewind. A block  *)
(* is reduced to one transaction, and a transaction to its swaps and to one  *)
(* transfer per swap, of the token the swap sells: between from and to.      *)
EXTENDS Integers, FiniteSets, WorkQueue, TradeRoutes

CONSTANTS
    Height,       \* transactions, named by the height of their block
    Contents,     \* Contents[h]: what the transaction may contain, block by block
    Listed,       \* tokens of data/registry: decimals always known
    Token,        \* other tokens
    Address,      \* accounts and contracts
    Resolvable,   \* those of Token whose contract or Voyager gives decimals
    MaxRewinds,   \* bound: rewinds of the promoter
    MaxFaults     \* bound: failing calls and crashes

ASSUME EnrichmentAssumption ==
    /\ IsFiniteSet(Height) /\ Height = 1 .. Cardinality(Height)
    /\ Resolvable \subseteq Token

\* The swaps of a transaction by the index of their event, counted from 1.
ASSUME ContentsAssumption ==
    \A h \in Height : \A s \in Contents[h] :
        /\ IsFiniteSet(DOMAIN s) /\ DOMAIN s \subseteq Nat \ {0}
        /\ s \in [DOMAIN s -> [in : Listed \cup Token, out : Listed \cup Token,
                               paid : Nat, got : Nat, from : Address, to : Address,
                               trader : Address, locker : Address]]

VARIABLES
    block,        \* block[h]: the swaps of the stored block, from the actions
    trades,       \* trades[h]: event index -> [swap, route, pending]; stark_trades
    transfers,    \* transfers[h]: event index -> [routing, contract, resolved]
    chainQueue,   \* chainQueue[h]: status of the row of h's transaction
    tokenQueue,   \* tokenQueue[t]: [status, seen], seen = latest_seen_block
    metadata,     \* metadata[t]: "none", "partial" or "full"; stark_token_metadata
    registry,     \* registry[t]: the same of the row of tokens
    open,         \* the block whose commit is under way, with the tokens it knows
    disturbed,    \* history: heights whose rows changed under a job that had read them
    rewinds, faults

tables == <<block, trades, transfers, chainQueue, tokenQueue, metadata, registry>>
tableVars == <<tables, open, disturbed, rewinds, faults>>

Level == {"none", "partial", "full"}
NoOpen == [height |-> 0]
NoRows == [i \in {} |-> i]

Swaps(rows) == [i \in DOMAIN rows |-> rows[i].swap]
TokensOfSwap(s) == {s.in, s.out}
Stored(h) == block[h] # NoRows

\* The tokens whose decimals a reader of the registry knows.
KnownIn(reg, meta) ==
    Listed \cup {t \in Token : reg[t] = "full" \/ (reg[t] = "none" /\ meta[t] = "full")}

NewTrades(swaps, known) ==
    [i \in DOMAIN swaps |->
        [swap |-> swaps[i], route |-> NoRoute,
         pending |-> ~(TokensOfSwap(swaps[i]) \subseteq known)]]

\* A transfer of a token without decimals is audited and not stored.
Trusted(s, known) == s.in \in known
NewTransfers(swaps, known) ==
    [i \in {j \in DOMAIN swaps : Trusted(swaps[j], known)} |->
        [routing |-> FALSE, contract |-> FALSE, resolved |-> TRUE]]

EnqueuedSum(q, tokens, height) ==
    [t \in Token |-> IF t \in tokens
                     THEN [status |-> "pending", seen |-> q[t].seen + height]
                     ELSE q[t]]
Enqueued(q, tokens, height) ==
    [t \in Token |-> IF t \in tokens
                     THEN [status |-> "pending", seen |-> Max({q[t].seen, height})]
                     ELSE q[t]]

RequeuedOnce(q, h) == [q EXCEPT ![h] = IF @ = "none" THEN "pending" ELSE @]

\* enqueueTradeChainingTransactions: a row that is there starts anew.
Requeued(q, h) == [q EXCEPT ![h] = "pending"]

TablesInit ==
    /\ block = [h \in Height |-> NoRows]
    /\ trades = [h \in Height |-> NoRows]
    /\ transfers = [h \in Height |-> NoRows]
    /\ chainQueue = [h \in Height |-> "none"]
    /\ \E seen \in SUBSET Resolvable, queued \in SUBSET Token :
         \* tokens of earlier blocks: known already, queued already
         /\ metadata = [t \in Token |-> IF t \in seen THEN "full" ELSE "none"]
         /\ tokenQueue = [t \in Token |->
               [status |-> IF t \in queued THEN "pending" ELSE "none", seen |-> 0]]
    /\ registry = metadata
    /\ open = NoOpen /\ disturbed = {} /\ rewinds = 0 /\ faults = 0

\* The commit reads the registry, through a cache of its own, ...
BeginStore(h) ==
    /\ open = NoOpen
    /\ ~Stored(h) /\ \A lower \in 1 .. h - 1 : Stored(lower)
    /\ \E swaps \in Contents[h] :
         open' = [height |-> h, swaps |-> swaps, known |-> KnownIn(registry, metadata)]
    /\ UNCHANGED <<tables, disturbed, rewinds, faults>>

\* ... and ends with the rows and the two queues written in one transaction.
\* readers are the heights some job has read and not yet written back.
FinishStore(readers) ==
    LET h == open.height
        rows == NewTrades(open.swaps, open.known)
        missing == UNION {TokensOfSwap(open.swaps[i]) : i \in DOMAIN rows} \ open.known
    IN  /\ open # NoOpen
        /\ block' = [block EXCEPT ![h] = open.swaps]
        /\ trades' = [trades EXCEPT ![h] = rows]
        /\ transfers' = [transfers EXCEPT ![h] = NewTransfers(open.swaps, open.known)]
        /\ chainQueue' = Requeued(chainQueue, h)
        /\ tokenQueue' = Enqueued(tokenQueue, missing, h)
        /\ open' = NoOpen
        /\ disturbed' = (disturbed \ {h}) \cup ({h} \cap readers)
        /\ UNCHANGED <<metadata, registry, rewinds, faults>>

\* The rewind deletes the rows from a height up, and the token rows that were
\* refreshed at or above it, whatever block a token was first seen in. It may
\* start above all the blocks that matter here, and while a commit is under way.
Rewind(readers) ==
    /\ rewinds < MaxRewinds
    /\ \E from \in Height \cup {Cardinality(Height) + 1}, unverified \in SUBSET Token, stale \in SUBSET Token :
         LET cut == {h \in Height : h >= from} IN
         /\ \A h \in cut : h = from => Stored(h)
         /\ block' = [h \in Height |-> IF h \in cut THEN NoRows ELSE block[h]]
         /\ trades' = [h \in Height |-> IF h \in cut THEN NoRows ELSE trades[h]]
         /\ transfers' = [h \in Height |-> IF h \in cut THEN NoRows ELSE transfers[h]]
         /\ registry' = [t \in Token |-> IF t \in unverified THEN "none" ELSE registry[t]]
         /\ metadata' = [t \in Token |-> IF t \in stale THEN "none" ELSE metadata[t]]
         /\ disturbed' = disturbed \cup (cut \cap readers)
    /\ rewinds' = rewinds + 1
    /\ UNCHANGED <<chainQueue, tokenQueue, open, faults>>
=============================================================================
