-------------------------- MODULE StarkgateIndexer ---------------------------
(* src/indexers/l1-starkgate-indexer.ts: ranges of Ethereum blocks, up to    *)
(* the head, are stored block by block and then transaction by transaction,  *)
(* each in a database transaction of its own, and the checkpoint moves in a  *)
(* last one. Ethereum is a chain whose last block may be replaced. A deposit *)
(* is one transaction with one log of the bridge contracts.                  *)
EXTENDS Integers, Sequences, FiniteSets, FiniteSetsExt

CONSTANTS
    Deposit,        \* deposits, numbered by the Starknet block that handles them
    Undecodable,    \* those whose log decodeStarkgateLog rejects
    EthBatch,       \* ETH_INDEXER_BATCH_SIZE
    EthTime,        \* EthTime[h]: timestamp of the first block h, in minutes
    MaxEthBlocks,   \* bound: Ethereum blocks
    MaxUpsets       \* bound: failing calls, crashes, replaced Ethereum blocks,
                    \* rewinds and re-decoded blocks, taken together

ASSUME BridgeAssumption ==
    /\ Deposit \subseteq Nat \ {0} /\ IsFiniteSet(Deposit)
    /\ Undecodable \subseteq Deposit
    /\ EthBatch \in Nat \ {0} /\ MaxEthBlocks \in Nat
    /\ EthTime \in [1 .. MaxEthBlocks -> Int]

VARIABLES
    eth,            \* eth[h]: the block [fork, txs] the node serves
    ethJournal,     \* ethJournal[h]: fork of the active row of eth_block_journal
    events,         \* rows of eth_starkgate_events, by event_key <<block, tx>>:
                    \* match_status, stark_bridge_key, eth_block_timestamp
    cursor,         \* last_processed_block_number of eth_index_state
    range,          \* the range under way: step, from, next block, to, logs to store
    late,           \* history: heights replaced after the indexer had read them
    upsets

ethVars == <<eth, ethJournal, events, cursor, range, late>>

Height == 1 .. MaxEthBlocks
Key == Height \X Deposit
NoBridge == 0
NoEvent == [status |-> "none", bridge |-> NoBridge, time |-> 0]
NoRange == [step |-> "none", from |-> 0, next |-> 0, to |-> 0, logs |-> {}]

OnChain(d) == \E h \in DOMAIN eth : d \in eth[h].txs
Pool == {d \in Deposit : ~OnChain(d)}
Upset == upsets < MaxUpsets /\ upsets' = upsets + 1

EthInit ==
    /\ eth = <<>>
    /\ ethJournal = [h \in Height |-> 0]
    /\ events = [k \in Key |-> NoEvent]
    /\ cursor = 0 /\ range = NoRange /\ late = {} /\ upsets = 0

-----------------------------------------------------------------------------
\* Ethereum.

MineBlock ==
    /\ Len(eth) < MaxEthBlocks
    /\ \E txs \in SUBSET Pool : eth' = Append(eth, [fork |-> 1, txs |-> txs])
    /\ UNCHANGED <<ethJournal, events, cursor, range, late, upsets>>

ReplaceBlock ==
    LET h == Len(eth) IN
    /\ h > 0 /\ Upset
    /\ \E txs \in SUBSET (Pool \cup eth[h].txs) :
         eth' = [eth EXCEPT ![h] = [fork |-> @.fork + 1, txs |-> txs]]
    /\ late' = late \cup (IF h <= cursor \/ (range # NoRange /\ h < range.next) THEN {h} ELSE {})
    /\ UNCHANGED <<ethJournal, events, cursor, range>>

-----------------------------------------------------------------------------
\* The indexer.

RangeAt(from) ==
    [NoRange EXCEPT !.step = "blocks", !.from = from, !.next = from,
                    !.to = Min({from + EthBatch - 1, Len(eth)})]

NextRangeAfterGap == cursor + 2 <= Len(eth) /\ range' = RangeAt(cursor + 2)

\* The range after the checkpoint, up to the head the node reports.
NextRange == cursor + 1 <= Len(eth) /\ range' = RangeAt(cursor + 1)

BeginRange ==
    /\ range = NoRange /\ NextRange
    /\ UNCHANGED <<eth, ethJournal, events, cursor, late, upsets>>

\* upsertEthBlockJournal: this block's row is the active one of its height.
StoreEthBlock ==
    /\ range.step = "blocks" /\ range.next <= range.to
    /\ ethJournal' = [ethJournal EXCEPT ![range.next] = eth[range.next].fork]
    /\ range' = [range EXCEPT !.next = @ + 1]
    /\ UNCHANGED <<eth, events, cursor, late, upsets>>

FetchLogs ==
    /\ range.step = "blocks" /\ range.next > range.to
    /\ range' = [range EXCEPT !.step = "logs",
                   !.logs = {k \in Key : k[1] \in range.from .. range.to /\ k[2] \in eth[k[1]].txs}]
    /\ UNCHANGED <<eth, ethJournal, events, cursor, late, upsets>>

\* The next transaction in the order of the logs; when the node has dropped it
\* meanwhile, or its log cannot be decoded (deriveTxType decodes it outside the
\* try), the range fails and is begun again.
Earliest(keys) ==
    {k \in keys : \A o \in keys : k[1] < o[1] \/ (k[1] = o[1] /\ k[2] <= o[2])}
Readable(d) == OnChain(d) /\ d \notin Undecodable

\* A block that replaces another is a minute younger. The timestamp of a log's row
\* is that of the block this range has stored at the height (blockCache).
BlockTime(h) == EthTime[h] + ethJournal[h] - 1

UpsertedAnew(k) ==
    [events EXCEPT ![k] = [status |-> "PENDING", bridge |-> @.bridge, time |-> BlockTime(k[1])]]

\* upsertEthStarkgateEvent: a row that is there keeps its match, but takes the
\* timestamp of the block it is stored from now.
Upserted(k) ==
    [events EXCEPT ![k] = [status |-> IF @.status = "none" THEN "PENDING" ELSE @.status,
                           bridge |-> @.bridge, time |-> BlockTime(k[1])]]

StoreTransaction ==
    /\ \E k \in Earliest(range.logs) :
         /\ Readable(k[2])
         /\ events' = Upserted(k)
         /\ range' = [range EXCEPT !.logs = @ \ {k}]
    /\ UNCHANGED <<eth, ethJournal, cursor, late, upsets>>

TransactionFails ==
    /\ \E k \in Earliest(range.logs) : ~Readable(k[2])
    /\ range' = NoRange
    /\ UNCHANGED <<eth, ethJournal, events, cursor, late, upsets>>

CommitRange ==
    /\ range.step = "logs" /\ range.logs = {}
    /\ cursor' = range.to
    /\ range' = NoRange
    /\ UNCHANGED <<eth, ethJournal, events, late, upsets>>

\* A call fails for good, or the process ends: the next start begins again
\* after the checkpoint.
RangeLost ==
    /\ range # NoRange /\ Upset
    /\ range' = NoRange
    /\ UNCHANGED <<eth, ethJournal, events, cursor, late>>

EthNext ==
    \/ MineBlock \/ ReplaceBlock \/ BeginRange \/ StoreEthBlock \/ FetchLogs
    \/ StoreTransaction \/ TransactionFails \/ CommitRange \/ RangeLost
=============================================================================
