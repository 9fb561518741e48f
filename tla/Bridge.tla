------------------------------- MODULE Bridge --------------------------------
(* The L1 indexer, the block commit, the rewind, the matcher and the bridge  *)
(* accounting over their shared tables.                                      *)
EXTENDS BridgeAccounting

vars == <<ethVars, starkVars, upsets, pass, rebuild>>

Init == EthInit /\ StarkInit /\ MatcherInit /\ AccountingInit

EthStep == EthNext /\ UNCHANGED <<starkVars, pass, rebuild>>
StoreStep == StoreBlock /\ UNCHANGED <<ethVars, upsets, pass, rebuild>>
RedecodeStep == Redecode /\ UNCHANGED <<ethVars, pass, rebuild>>

\* The rewind waits, with its own deletions uncommitted, for the rows a rebuild
\* has deleted, and then misses those the rebuild inserts: as if it came after the
\* rebuild has read.
RewindStep ==
    /\ rebuild.step = "read" => rebuild.held = {}
    /\ Rewind
    /\ UNCHANGED <<ethVars, pass, rebuild>>

Matching == \/ BeginPass \/ LeaveEvent \/ EndPass
            \/ MatchDeposit(rebuild.held)
MatchStep == (Matching \/ PassFails) /\ UNCHANGED rebuild

Rebuilding == BeginRebuild \/ DeleteFlows \/ ReadActivities \/ InsertFlows \/ InsertClashes
RebuildStep == Rebuilding \/ RebuildFails

Next == EthStep \/ StoreStep \/ RewindStep \/ RedecodeStep \/ MatchStep \/ RebuildStep

Spec == Init /\ [][Next]_vars

-----------------------------------------------------------------------------
Flow == [ins : 0 .. Cardinality(Deposit), pending : 0 .. Cardinality(Deposit), verified : Int]

\* Types of the tables and of what the three jobs hold.
BridgeTypeOK ==
    /\ cursor \in 0 .. Len(eth) /\ late \subseteq Height
    /\ events \in [Key -> [status : {"none", "PENDING", "MATCHED", "UNMATCHED"},
                           bridge : Deposit \cup {NoBridge}, time : Int]]
    /\ tip \in {0} \cup Deposit
    /\ activity \in [Deposit -> [status : {"none", "PENDING", "MATCHED", "UNMATCHED"},
                                 event : Key \cup {NoKey}, time : Int]]
    /\ \A b \in Deposit : activity[b].status = "none" <=> b > tip
    /\ link \in [Trade -> Key \cup {NoKey}]
    /\ flows \in [Wallet -> Flow]
    /\ rebuild.window \in {0} \cup Deposit /\ flowsUpTo \in {0} \cup Deposit
    /\ rebuild.held \subseteq Wallet /\ pass.todo \subseteq Key

\* A matched bridge_in row names an event that is matched to it and to no other
\* row, of the same wallet and amount, and carries the timestamp that event had when
\* it was matched, before its own but not long before, although the event's row may
\* be stored again from another block; a linked trade names a matched event of its
\* trader. This holds through repeated ranges of the L1 indexer, rewinds, re-decoded
\* blocks and failed passes (matchSingleDeposit and upsertEthStarkgateEvent).
MatchesAreMutual ==
    /\ \A b \in Deposit : activity[b].status = "MATCHED" =>
         LET k == activity[b].event IN
         /\ events[k].status = "MATCHED" /\ events[k].bridge = b
         /\ WalletOf[k[2]] = WalletOf[b] /\ AmountOf[k[2]] = AmountOf[b]
         /\ StarkTime[b] - activity[b].time \in 0 .. MatchWindow
    /\ \A t \in Trade : link[t] # NoKey =>
         events[link[t]].status = "MATCHED" /\ WalletOf[link[t][2]] = Trader[t]

\* Up to the checkpoint every deposit of Ethereum has its row and every block
\* its active journal row, although a range is stored in many transactions and
\* may be lost after any of them; only a block replaced after it was read is
\* not read again (processBlockRange).
EveryLogIsStored ==
    \A h \in 1 .. cursor : h \notin late =>
        /\ ethJournal[h] = eth[h].fork
        /\ \A d \in eth[h].txs : events[<<h, d>>].status # "none"

\* The verified inflow of a wallet counts each of its matched activities once at
\* most, and no other; it leaves out none up to the block the last rebuild went to,
\* however matches, commits and a rebuild interleave. A match above that block is
\* lost when it falls between the rebuild's first statement and its DELETE. Void
\* from a rewind or a second decoding until the next whole rebuild
\* (refreshBridgeAccounting and updateBridgeFlowSnapshot).
Verifies(row, w, last) ==
    \E bs \in SUBSET Matched(w) :
        /\ \A b \in Matched(w) : b <= last => b \in bs
        /\ IF row = NoFlow THEN bs = {} ELSE row.verified = Amounts(bs)
VerifiedIsMatched ==
    flowsAsOf = rewinds => \A w \in Wallet : Verifies(flows[w], w, flowsUpTo)
=============================================================================
