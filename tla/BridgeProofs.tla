---------------------------- MODULE BridgeProofs -----------------------------
(* What the L1 indexer and the matcher keep for any deposits, wallets, block *)
(* times, batch sizes and upsets: no deposit up to the checkpoint is missed, *)
(* and matches are mutual.                                                   *)
EXTENDS Bridge, SequenceTheorems, Induction, TLAPS

Statuses == {"none", "PENDING", "MATCHED", "UNMATCHED"}

EthBlock == [fork : Int, txs : SUBSET Deposit]
Ranges == [step : {"none", "blocks", "logs"}, from : Int, next : Int, to : Int,
           logs : SUBSET Key]

(* The form of the tables and of the range under way. *)
Form ==
  /\ eth \in Seq(EthBlock)
  /\ Len(eth) <= MaxEthBlocks
  /\ ethJournal \in [Height -> Int]
  /\ events \in [Key -> [status : Statuses, bridge : Deposit \cup {NoBridge}, time : Int]]
  /\ activity \in [Deposit -> [status : Statuses, event : Key \cup {NoKey}, time : Int]]
  /\ \A b \in Deposit : activity[b].status = "MATCHED" => activity[b].event \in Key
  /\ link \in [Trade -> Key \cup {NoKey}]
  /\ range \in Ranges
  /\ pass \in [step : {"none", "match"}, todo : SUBSET Key]
  /\ cursor \in 0 .. Len(eth)

(* The range under way begins at the checkpoint and ends below the head. *)
RangeBounds ==
  range # NoRange =>
    /\ range.from = cursor + 1
    /\ range.to \in range.from .. Len(eth)
    /\ range.next \in range.from .. range.to + 1
    /\ range.step # "none"
    /\ range.step = "blocks" => range.logs = {}
    /\ range.step = "logs" => range.next = range.to + 1

(* It has stored the journal rows of the blocks behind it, and of their logs all
   but those still to be stored. *)
RangeJournal ==
  range # NoRange =>
    \A h \in range.from .. range.next - 1 : h \notin late => ethJournal[h] = eth[h].fork
RangeLogs ==
  range # NoRange /\ range.step = "logs" =>
    \A h \in range.from .. range.to : h \notin late =>
      \A d \in eth[h].txs : <<h, d>> \in range.logs \/ events[<<h, d>>].status # "none"

(* The same of what is behind the checkpoint. *)
CursorJournal == \A h \in 1 .. cursor : h \notin late => ethJournal[h] = eth[h].fork
CursorLogs == \A h \in 1 .. cursor : h \notin late =>
  \A d \in eth[h].txs : events[<<h, d>>].status # "none"

EthInv == RangeBounds /\ RangeJournal /\ RangeLogs /\ CursorJournal /\ CursorLogs

Inv == Form /\ EthInv /\ MatchesAreMutual

(* What is used of the constants. *)
LEMMA Constants ==
  MaxEthBlocks \in Nat /\ EthBatch \in Nat \ {0} /\ Deposit \subseteq Nat \ {0}
  BY BridgeAssumption

USE Constants DEF Height

(* The blocks of a chain. *)
LEMMA Blocks ==
  ASSUME NEW chain \in Seq(EthBlock), NEW h \in 1 .. Len(chain)
  PROVE  chain[h] \in EthBlock /\ chain[h].fork \in Int /\ chain[h].txs \subseteq Deposit
<1>1. chain[h] \in EthBlock
  BY ElementOfSeq
<1> QED BY <1>1 DEF EthBlock

(* Heights behind the checkpoint and in the range are those of blocks. *)
LEMMA Heights ==
  ASSUME Form, RangeBounds
  PROVE  /\ cursor \in Nat /\ cursor <= Len(eth) /\ Len(eth) \in Nat
         /\ \A h \in 1 .. Len(eth) : h \in Height /\ \A d \in eth[h].txs : <<h, d>> \in Key
         /\ range # NoRange =>
              /\ range.from = cursor + 1 /\ range.to \in range.from .. Len(eth)
              /\ range.next \in range.from .. range.to + 1
<1>1. eth \in Seq(EthBlock) /\ Len(eth) <= MaxEthBlocks /\ cursor \in 0 .. Len(eth)
  BY DEF Form
<1>2. Len(eth) \in Nat
  BY <1>1, LenProperties
<1>3. \A h \in 1 .. Len(eth) : h \in Height /\ eth[h].txs \subseteq Deposit
  BY <1>1, <1>2, Blocks
<1> QED BY <1>1, <1>2, <1>3 DEF RangeBounds, Key

LEMMA EthInvIsProperty == EthInv => EveryLogIsStored
  BY DEF EthInv, CursorJournal, CursorLogs, EveryLogIsStored

-----------------------------------------------------------------------------
(* Ethereum and its indexer. *)

(* A chain that keeps its blocks, and the rows unchanged, keeps what the range
   and the checkpoint promise of the blocks. *)
LEMMA SameBlocks ==
  ASSUME Inv, eth' \in Seq(EthBlock), Len(eth') >= Len(eth), Len(eth') <= MaxEthBlocks,
         UNCHANGED <<ethJournal, events, activity, link, range, pass, cursor>>,
         late \subseteq late',
         \A h \in 1 .. Len(eth) :
           \/ eth'[h] = eth[h]
           \/ (h <= cursor \/ (range # NoRange /\ h < range.next)) => h \in late'
  PROVE  Inv'
<1>0. Form /\ EthInv /\ RangeBounds
  BY DEF Inv, EthInv
<1>1. Len(eth') \in Nat
  BY LenProperties
<1>2. Form'
  <2>1. cursor' \in 0 .. Len(eth')
    <3>1. cursor \in 0 .. Len(eth) /\ Len(eth) \in Nat
      BY <1>0, LenProperties DEF Form
    <3> QED BY <1>1, <3>1
  <2> QED BY <1>0, <2>1 DEF Form
<1>3. RangeBounds'
  BY <1>0, <1>1, Heights DEF RangeBounds
<1>4. RangeJournal'
  <2> SUFFICES ASSUME range # NoRange, NEW h \in range.from .. range.next - 1, h \notin late'
               PROVE  ethJournal[h] = eth'[h].fork
    BY DEF RangeJournal
  <2>1. h \in 1 .. Len(eth) /\ h < range.next
    BY <1>0, Heights
  <2>2. h \notin late /\ eth'[h] = eth[h]
    BY <2>1
  <2> QED BY <1>0, <2>2 DEF EthInv, RangeJournal
<1>5. RangeLogs'
  <2> SUFFICES ASSUME range # NoRange, range.step = "logs", NEW h \in range.from .. range.to,
                      h \notin late', NEW d \in eth'[h].txs
               PROVE  <<h, d>> \in range.logs \/ events[<<h, d>>].status # "none"
    BY DEF RangeLogs
  <2>1. h \in 1 .. Len(eth) /\ h < range.next
    BY <1>0, Heights DEF RangeBounds
  <2>2. h \notin late /\ eth'[h] = eth[h]
    BY <2>1
  <2> QED BY <1>0, <2>2 DEF EthInv, RangeLogs
<1>6. CursorJournal'
  <2> SUFFICES ASSUME NEW h \in 1 .. cursor, h \notin late'
               PROVE  ethJournal[h] = eth'[h].fork
    BY DEF CursorJournal
  <2>1. h \in 1 .. Len(eth) /\ h \notin late /\ eth'[h] = eth[h]
    BY <1>0, Heights
  <2> QED BY <1>0, <2>1 DEF EthInv, CursorJournal
<1>7. CursorLogs'
  <2> SUFFICES ASSUME NEW h \in 1 .. cursor, h \notin late', NEW d \in eth'[h].txs
               PROVE  events[<<h, d>>].status # "none"
    BY DEF CursorLogs
  <2>1. h \in 1 .. Len(eth) /\ h \notin late /\ eth'[h] = eth[h]
    BY <1>0, Heights
  <2> QED BY <1>0, <2>1 DEF EthInv, CursorLogs
<1> QED BY <1>2, <1>3, <1>4, <1>5, <1>6, <1>7 DEF Inv, EthInv, MatchesAreMutual

LEMMA MineKeeps == ASSUME Inv, MineBlock, UNCHANGED <<starkVars, pass>> PROVE Inv'
<1>1. PICK txs \in SUBSET Pool : eth' = Append(eth, [fork |-> 1, txs |-> txs])
  BY DEF MineBlock
<1>2. eth \in Seq(EthBlock) /\ [fork |-> 1, txs |-> txs] \in EthBlock /\ Len(eth) \in Nat
  BY LenProperties DEF Inv, Form, Pool, EthBlock
<1> DEFINE block == [fork |-> 1, txs |-> txs]
<1>3. /\ eth' \in Seq(EthBlock) /\ Len(eth') = Len(eth) + 1
      /\ \A h \in 1 .. Len(eth) : eth'[h] = eth[h]
  <2> HIDE DEF block
  <2> QED BY <1>1, <1>2, AppendProperties DEF block
<1>4. UNCHANGED <<ethJournal, events, activity, link, range, pass, cursor, late>>
  BY DEF MineBlock, starkVars
<1>5. Len(eth') >= Len(eth) /\ Len(eth') <= MaxEthBlocks
  BY <1>2, <1>3 DEF MineBlock
<1> QED BY <1>3, <1>4, <1>5, SameBlocks

LEMMA ReplaceKeeps == ASSUME Inv, ReplaceBlock, UNCHANGED <<starkVars, pass>> PROVE Inv'
<1> DEFINE n == Len(eth)
<1>0. eth \in Seq(EthBlock) /\ n \in Nat /\ n \in 1 .. Len(eth) /\ Len(eth) <= MaxEthBlocks
  BY LenProperties DEF Inv, Form, ReplaceBlock
<1>1. PICK txs \in SUBSET (Pool \cup eth[n].txs) :
        eth' = [eth EXCEPT ![n] = [fork |-> @.fork + 1, txs |-> txs]]
  BY DEF ReplaceBlock
<1> DEFINE block == [fork |-> eth[n].fork + 1, txs |-> txs]
<1>2. block \in EthBlock
  <2>1. eth[n].fork \in Int /\ eth[n].txs \subseteq Deposit
    BY <1>0, Blocks
  <2> QED BY <1>1, <2>1 DEF Pool, EthBlock
<1>3. eth' = [eth EXCEPT ![n] = block]
  BY <1>1
<1> HIDE DEF block
<1>4. /\ eth' \in Seq(EthBlock) /\ Len(eth') = Len(eth)
      /\ \A h \in 1 .. Len(eth) : h # n => eth'[h] = eth[h]
  BY <1>0, <1>2, <1>3, ExceptSeq
<1>5. UNCHANGED <<ethJournal, events, activity, link, range, pass, cursor>>
  BY DEF ReplaceBlock, starkVars
<1>6. late \subseteq late' /\ (n <= cursor \/ (range # NoRange /\ n < range.next) => n \in late')
  BY DEF ReplaceBlock
<1> QED BY <1>0, <1>4, <1>5, <1>6, SameBlocks

LEMMA BeginKeeps == ASSUME Inv, BeginRange, UNCHANGED <<starkVars, pass>> PROVE Inv'
<1> DEFINE reach == Min({cursor + EthBatch, Len(eth)})
<1>0. Form /\ EthInv /\ RangeBounds
  BY DEF Inv, EthInv
<1>1. /\ cursor + 1 <= Len(eth) /\ cursor \in Nat /\ Len(eth) \in Nat
      /\ range' = [NoRange EXCEPT !.step = "blocks", !.from = cursor + 1, !.next = cursor + 1,
                                  !.to = reach]
  <2>1. cursor + 1 + EthBatch - 1 = cursor + EthBatch
    BY <1>0, Heights
  <2> QED BY <1>0, <2>1, Heights DEF BeginRange, NextRange, RangeAt
<1>2. reach \in cursor + 1 .. Len(eth)
  <2>1. \E x \in {cursor + EthBatch, Len(eth)} : \A y \in {cursor + EthBatch, Len(eth)} : x <= y
    BY <1>1
  <2>2. /\ reach \in {cursor + EthBatch, Len(eth)}
        /\ \A y \in {cursor + EthBatch, Len(eth)} : reach <= y
    BY <2>1 DEF Min
  <2> QED BY <1>1, <2>2
<1> HIDE DEF reach
<1>3. range' = [step |-> "blocks", from |-> cursor + 1, next |-> cursor + 1, to |-> reach,
                logs |-> {}]
  BY <1>1 DEF NoRange
<1>4. UNCHANGED <<eth, ethJournal, events, activity, link, pass, cursor, late>>
  BY DEF BeginRange, starkVars
<1>5. Form'
  <2>1. range' \in Ranges
    BY <1>1, <1>2, <1>3 DEF Ranges
  <2> QED BY <1>0, <1>4, <2>1 DEF Form
<1>6. RangeBounds'
  <2>1. /\ range'.from = cursor + 1 /\ range'.next = cursor + 1 /\ range'.to = reach
        /\ range'.step = "blocks" /\ range'.logs = {}
    BY <1>3
  <2>2. cursor' = cursor /\ Len(eth') = Len(eth)
    BY <1>4
  <2> QED BY <1>1, <1>2, <2>1, <2>2 DEF RangeBounds
<1>7. RangeJournal' /\ RangeLogs' /\ CursorJournal' /\ CursorLogs'
  BY <1>0, <1>1, <1>3, <1>4 DEF EthInv, RangeJournal, RangeLogs, CursorJournal, CursorLogs
<1> QED BY <1>4, <1>5, <1>6, <1>7 DEF Inv, EthInv, MatchesAreMutual

LEMMA StoreEthKeeps == ASSUME Inv, StoreEthBlock, UNCHANGED <<starkVars, pass>> PROVE Inv'
<1>0. Form /\ EthInv /\ RangeBounds
  BY DEF Inv, EthInv
<1>1. /\ range # NoRange /\ range.next \in range.from .. range.to /\ range.step = "blocks"
      /\ range.next \in 1 .. Len(eth) /\ range.next > cursor
  BY <1>0, Heights DEF StoreEthBlock, NoRange
<1>2. /\ ethJournal' = [ethJournal EXCEPT ![range.next] = eth[range.next].fork]
      /\ range' = [range EXCEPT !.next = @ + 1]
      /\ UNCHANGED <<eth, events, activity, link, pass, cursor, late>>
  BY DEF StoreEthBlock, starkVars
<1>3. /\ range' # NoRange /\ range'.step = "blocks" /\ range'.from = range.from
      /\ range'.to = range.to /\ range'.next = range.next + 1 /\ range'.logs = range.logs
      /\ range' \in Ranges
  <2>1. range \in Ranges /\ range.next \in Int
    BY <1>0 DEF Form, Ranges
  <2>2. range' = [step |-> range.step, from |-> range.from, next |-> range.next + 1,
                  to |-> range.to, logs |-> range.logs]
    BY <1>2, <2>1 DEF Ranges
  <2>3. range' \in Ranges
    BY <2>1, <2>2 DEF Ranges
  <2>4. range'.step # NoRange.step
    BY <1>1, <2>2 DEF NoRange
  <2> QED BY <1>1, <2>2, <2>3, <2>4
<1>4. /\ ethJournal' \in [Height -> Int] /\ ethJournal'[range.next] = eth[range.next].fork
      /\ \A h \in Height : h # range.next => ethJournal'[h] = ethJournal[h]
  <2>1. eth \in Seq(EthBlock) /\ range.next \in Height
    BY <1>0, <1>1, Heights DEF Form
  <2>2. eth[range.next].fork \in Int
    BY <1>1, <2>1, Blocks
  <2>3. ethJournal \in [Height -> Int]
    BY <1>0 DEF Form
  <2> QED BY <1>2, <2>1, <2>2, <2>3
<1>5. Form'
  BY <1>0, <1>2, <1>3, <1>4 DEF Form
<1>6. RangeBounds'
  BY <1>0, <1>1, <1>2, <1>3, Heights DEF RangeBounds
<1>7. RangeJournal'
  <2> SUFFICES ASSUME NEW h \in range.from .. range.next, h \notin late
               PROVE  ethJournal'[h] = eth[h].fork
    BY <1>0, <1>1, <1>2, <1>3, Heights DEF RangeJournal
  <2>1. CASE h = range.next
    BY <1>4, <2>1
  <2>2. CASE h # range.next
    <3>1. h \in range.from .. range.next - 1 /\ h \in Height
      BY <1>0, <1>1, <2>2, Heights
    <3> QED BY <1>0, <1>1, <1>4, <2>2, <3>1 DEF EthInv, RangeJournal
  <2> QED BY <2>1, <2>2
<1>8. CursorJournal'
  <2> SUFFICES ASSUME NEW h \in 1 .. cursor, h \notin late
               PROVE  ethJournal'[h] = eth[h].fork
    BY <1>2 DEF CursorJournal
  <2>1. h \in Height /\ h # range.next
    BY <1>0, <1>1, Heights
  <2> QED BY <1>0, <1>4, <2>1 DEF EthInv, CursorJournal
<1>9. RangeLogs' /\ CursorLogs'
  BY <1>0, <1>2, <1>3 DEF EthInv, RangeLogs, CursorLogs
<1> QED BY <1>2, <1>5, <1>6, <1>7, <1>8, <1>9 DEF Inv, EthInv, MatchesAreMutual

LEMMA FetchKeeps == ASSUME Inv, FetchLogs, UNCHANGED <<starkVars, pass>> PROVE Inv'
<1> DEFINE logs == {k \in Key : k[1] \in range.from .. range.to /\ k[2] \in eth[k[1]].txs}
<1>0. Form /\ EthInv /\ RangeBounds
  BY DEF Inv, EthInv
<1>1. /\ range # NoRange /\ range.next = range.to + 1
      /\ range' = [range EXCEPT !.step = "logs", !.logs = logs]
      /\ UNCHANGED <<eth, ethJournal, events, activity, link, pass, cursor, late>>
  BY <1>0, Heights DEF FetchLogs, NoRange, starkVars
<1>2. \A h \in range.from .. range.to : \A d \in eth[h].txs : <<h, d>> \in logs
  <2> SUFFICES ASSUME NEW h \in range.from .. range.to, NEW d \in eth[h].txs
               PROVE  <<h, d>> \in logs
    OBVIOUS
  <2>1. h \in 1 .. Len(eth)
    BY <1>0, <1>1, Heights
  <2>2. <<h, d>> \in Key
    BY <1>0, <2>1, Heights
  <2> QED BY <2>2
<1>3. logs \subseteq Key
  OBVIOUS
<1> HIDE DEF logs
<1>4. /\ range' # NoRange /\ range'.step = "logs" /\ range'.from = range.from
      /\ range'.to = range.to /\ range'.next = range.next /\ range'.logs = logs
      /\ range' \in Ranges
  BY <1>0, <1>1, <1>3 DEF Form, NoRange, Ranges
<1>5. Form'
  BY <1>0, <1>1, <1>4 DEF Form
<1>6. RangeBounds'
  BY <1>0, <1>1, <1>4, Heights DEF RangeBounds
<1>7. RangeJournal' /\ CursorJournal' /\ CursorLogs'
  BY <1>0, <1>1, <1>4 DEF EthInv, RangeJournal, CursorJournal, CursorLogs
<1>8. RangeLogs'
  BY <1>1, <1>2, <1>4 DEF RangeLogs
<1> QED BY <1>1, <1>5, <1>6, <1>7, <1>8 DEF Inv, EthInv, MatchesAreMutual

(* A step that leaves Ethereum and the range alone keeps EthInv when it takes no
   event back. *)
LEMMA EthKeeps ==
  ASSUME Form, EthInv, UNCHANGED <<eth, ethJournal, cursor, range, late>>,
         \A k \in Key : events[k].status # "none" => events'[k].status # "none"
  PROVE  EthInv'
<1>1. RangeBounds' /\ RangeJournal' /\ CursorJournal'
  BY DEF EthInv, RangeBounds, RangeJournal, CursorJournal
<1>2. RangeLogs'
  <2> SUFFICES ASSUME range # NoRange, range.step = "logs", NEW h \in range.from .. range.to,
                      h \notin late, NEW d \in eth[h].txs
               PROVE  <<h, d>> \in range.logs \/ events'[<<h, d>>].status # "none"
    BY DEF RangeLogs
  <2>1. h \in 1 .. Len(eth)
    BY Heights DEF EthInv
  <2>2. <<h, d>> \in Key
    BY <2>1, Heights DEF EthInv
  <2> QED BY <2>2 DEF EthInv, RangeLogs
<1>3. CursorLogs'
  <2> SUFFICES ASSUME NEW h \in 1 .. cursor, h \notin late, NEW d \in eth[h].txs
               PROVE  events'[<<h, d>>].status # "none"
    BY DEF CursorLogs
  <2>1. h \in 1 .. Len(eth)
    BY Heights DEF EthInv
  <2>2. <<h, d>> \in Key
    BY <2>1, Heights DEF EthInv
  <2> QED BY <2>2 DEF EthInv, CursorLogs
<1> QED BY <1>1, <1>2, <1>3 DEF EthInv

(* A step that makes no match and takes none back on the Ethereum side. *)
LEMMA MatchesKeep ==
  ASSUME Form, MatchesAreMutual,
         \A k \in Key : events[k].status = "MATCHED" =>
           events'[k].status = "MATCHED" /\ events'[k].bridge = events[k].bridge,
         \A b \in Deposit : activity'[b].status = "MATCHED" => activity'[b] = activity[b],
         \A t \in Trade : link'[t] # NoKey => link'[t] = link[t]
  PROVE  MatchesAreMutual'
<1>1. ASSUME NEW b \in Deposit, activity'[b].status = "MATCHED"
      PROVE  LET k == activity'[b].event IN
             /\ events'[k].status = "MATCHED" /\ events'[k].bridge = b
             /\ WalletOf[k[2]] = WalletOf[b] /\ AmountOf[k[2]] = AmountOf[b]
             /\ StarkTime[b] - activity'[b].time \in 0 .. MatchWindow
  <2> DEFINE k == activity[b].event
  <2>1. activity'[b] = activity[b] /\ activity[b].status = "MATCHED" /\ k \in Key
    BY <1>1 DEF Form
  <2>2. /\ events[k].status = "MATCHED" /\ events[k].bridge = b
        /\ WalletOf[k[2]] = WalletOf[b] /\ AmountOf[k[2]] = AmountOf[b]
        /\ StarkTime[b] - activity[b].time \in 0 .. MatchWindow
    BY <2>1 DEF MatchesAreMutual
  <2>3. events'[k].status = "MATCHED" /\ events'[k].bridge = events[k].bridge
    BY <2>1, <2>2
  <2> QED BY <2>1, <2>2, <2>3
<1>2. ASSUME NEW t \in Trade, link'[t] # NoKey
      PROVE  events'[link'[t]].status = "MATCHED" /\ WalletOf[link'[t][2]] = Trader[t]
  <2>1. link'[t] = link[t] /\ link[t] \in Key
    BY <1>2 DEF Form
  <2>2. events[link[t]].status = "MATCHED" /\ WalletOf[link[t][2]] = Trader[t]
    BY <1>2, <2>1 DEF MatchesAreMutual
  <2> QED BY <2>1, <2>2
<1> QED BY <1>1, <1>2 DEF MatchesAreMutual

LEMMA StoreTransactionKeeps ==
  ASSUME Inv, StoreTransaction, UNCHANGED <<starkVars, pass>> PROVE Inv'
<1>0. Form /\ EthInv /\ RangeBounds /\ MatchesAreMutual
  BY DEF Inv, EthInv
<1>1. PICK k \in Earliest(range.logs) :
        events' = Upserted(k) /\ range' = [range EXCEPT !.logs = @ \ {k}]
  BY DEF StoreTransaction
<1>2. range \in Ranges /\ k \in range.logs /\ k \in Key
  BY <1>0, <1>1 DEF Form, Ranges, Earliest
<1>3. range # NoRange /\ range.step = "logs"
  BY <1>0, <1>2 DEF RangeBounds, NoRange, Ranges
<1>4. range' = [step |-> "logs", from |-> range.from, next |-> range.next, to |-> range.to,
                logs |-> range.logs \ {k}]
  BY <1>1, <1>2, <1>3 DEF Ranges
<1>5. range' \in Ranges /\ range' # NoRange
  <2>1. range'.step # NoRange.step
    BY <1>4 DEF NoRange
  <2> QED BY <1>2, <1>4, <2>1 DEF Ranges
<1>6. UNCHANGED <<eth, ethJournal, activity, link, pass, cursor, late>>
  BY DEF StoreTransaction, starkVars
<1>7. /\ events' \in [Key -> [status : Statuses, bridge : Deposit \cup {NoBridge}, time : Int]]
      /\ \A o \in Key : events[o].status # "none" =>
           events'[o].status = events[o].status /\ events'[o].bridge = events[o].bridge
      /\ events'[k].status # "none"
  <2>1. events \in [Key -> [status : Statuses, bridge : Deposit \cup {NoBridge}, time : Int]]
    BY <1>0 DEF Form
  <2>2. BlockTime(k[1]) \in Int
    <3>1. k[1] \in Height /\ ethJournal \in [Height -> Int] /\ EthTime \in [Height -> Int]
      BY <1>0, <1>2, BridgeAssumption DEF Form, Key
    <3> QED BY <3>1 DEF BlockTime
  <2> DEFINE row == [status |-> IF events[k].status = "none" THEN "PENDING" ELSE events[k].status,
                     bridge |-> events[k].bridge, time |-> BlockTime(k[1])]
  <2>3. events' = [events EXCEPT ![k] = row]
    BY <1>1 DEF Upserted
  <2>4. row \in [status : Statuses, bridge : Deposit \cup {NoBridge}, time : Int]
    BY <1>2, <2>1, <2>2 DEF Statuses
  <2>5. /\ row.status # "none" /\ row.bridge = events[k].bridge
        /\ events[k].status # "none" => row.status = events[k].status
    OBVIOUS
  <2> HIDE DEF row
  <2> QED BY <1>2, <2>1, <2>3, <2>4, <2>5
<1>8. Form'
  BY <1>0, <1>5, <1>6, <1>7 DEF Form
<1>9. MatchesAreMutual'
  BY <1>0, <1>6, <1>7, MatchesKeep
<1>10. RangeBounds' /\ RangeJournal' /\ CursorJournal'
  BY <1>0, <1>3, <1>4, <1>6 DEF EthInv, RangeBounds, RangeJournal, CursorJournal
<1>11. RangeLogs'
  <2> SUFFICES ASSUME NEW h \in range.from .. range.to, h \notin late, NEW d \in eth[h].txs
               PROVE  <<h, d>> \in range.logs \ {k} \/ events'[<<h, d>>].status # "none"
    BY <1>4, <1>6 DEF RangeLogs
  <2>1. h \in 1 .. Len(eth)
    BY <1>0, <1>3, Heights
  <2>2. <<h, d>> \in Key
    BY <1>0, <2>1, Heights
  <2>3. <<h, d>> \in range.logs \/ events[<<h, d>>].status # "none"
    BY <1>0, <1>3 DEF EthInv, RangeLogs
  <2> QED BY <1>7, <2>2, <2>3
<1>12. CursorLogs'
  <2> SUFFICES ASSUME NEW h \in 1 .. cursor, h \notin late, NEW d \in eth[h].txs
               PROVE  events'[<<h, d>>].status # "none"
    BY <1>6 DEF CursorLogs
  <2>1. h \in 1 .. Len(eth)
    BY <1>0, Heights
  <2>2. <<h, d>> \in Key
    BY <1>0, <2>1, Heights
  <2> QED BY <1>0, <1>7, <2>2 DEF EthInv, CursorLogs
<1> QED BY <1>8, <1>9, <1>10, <1>11, <1>12 DEF Inv, EthInv

LEMMA EndsKeep ==
  ASSUME Inv, TransactionFails \/ CommitRange \/ RangeLost, UNCHANGED <<starkVars, pass>>
  PROVE  Inv'
<1>0. Form /\ EthInv /\ RangeBounds /\ MatchesAreMutual
  BY DEF Inv, EthInv
<1>1. range' = NoRange /\ UNCHANGED <<eth, ethJournal, events, activity, link, pass, late>>
  BY DEF TransactionFails, CommitRange, RangeLost, starkVars
<1>2. cursor' = cursor \/ (CommitRange /\ cursor' = range.to)
  BY DEF TransactionFails, CommitRange, RangeLost
<1>3. CommitRange => range # NoRange /\ range.step = "logs" /\ range.logs = {} /\ range.next = range.to + 1
  BY <1>0 DEF CommitRange, NoRange, RangeBounds
<1>4. cursor' \in 0 .. Len(eth)
  BY <1>0, <1>2, <1>3, Heights
<1>5. Form'
  <2>1. NoRange \in Ranges
    BY DEF NoRange, Ranges
  <2> QED BY <1>0, <1>1, <1>4, <2>1 DEF Form
<1>6. RangeBounds' /\ RangeJournal' /\ RangeLogs'
  BY <1>1 DEF RangeBounds, RangeJournal, RangeLogs
<1>7. ASSUME NEW h \in 1 .. cursor', h \notin late
      PROVE  ethJournal[h] = eth[h].fork /\ \A d \in eth[h].txs : events[<<h, d>>].status # "none"
  <2>1. CASE h <= cursor
    <3>1. h \in 1 .. cursor
      BY <1>0, <1>4, <2>1, Heights
    <3> QED BY <1>0, <1>7, <3>1 DEF EthInv, CursorJournal, CursorLogs
  <2>2. CASE h > cursor
    <3>1. CommitRange /\ h \in range.from .. range.to /\ h \in range.from .. range.next - 1
      BY <1>0, <1>2, <1>3, <1>4, <2>2, Heights
    <3> QED BY <1>0, <1>3, <1>7, <3>1 DEF EthInv, RangeJournal, RangeLogs
  <2> QED BY <1>0, <1>4, <2>1, <2>2, Heights
<1>8. CursorJournal' /\ CursorLogs'
  BY <1>1, <1>7 DEF CursorJournal, CursorLogs
<1> QED BY <1>1, <1>0, <1>5, <1>6, <1>8 DEF Inv, EthInv, MatchesAreMutual

LEMMA EthStepKeeps == ASSUME Inv, EthStep PROVE Inv'
<1>1. EthNext /\ UNCHANGED <<starkVars, pass>>
  BY DEF EthStep
<1> QED BY <1>1, MineKeeps, ReplaceKeeps, BeginKeeps, StoreEthKeeps, FetchKeeps,
           StoreTransactionKeeps, EndsKeep DEF EthNext

-----------------------------------------------------------------------------
(* The Starknet side. *)

LEMMA StarkKeeps ==
  ASSUME Inv, StoreBlock \/ Rewind \/ Redecode, UNCHANGED <<ethVars, pass>>
  PROVE  Inv'
<1>0. Form /\ EthInv /\ MatchesAreMutual
  BY DEF Inv
<1>1. UNCHANGED <<eth, ethJournal, events, cursor, range, late, pass>>
  BY DEF ethVars
<1>2. /\ activity' \in [Deposit -> [status : Statuses, event : Key \cup {NoKey}, time : Int]]
      /\ \A b \in Deposit : activity'[b].status = "MATCHED" => activity'[b] = activity[b]
  <2>1. activity \in [Deposit -> [status : Statuses, event : Key \cup {NoKey}, time : Int]]
    BY <1>0 DEF Form
  <2>2. NoActivity \in [status : Statuses, event : Key \cup {NoKey}, time : Int] /\ NoActivity.status # "MATCHED"
    BY DEF NoActivity, Statuses
  <2>3. Unmatched \in [status : Statuses, event : Key \cup {NoKey}, time : Int] /\ Unmatched.status # "MATCHED"
    BY DEF Unmatched, Statuses
  <2>4. CASE StoreBlock
    <3>1. activity' = [activity EXCEPT ![tip + 1] = Unmatched]
      BY <2>4 DEF StoreBlock
    <3> QED BY <2>1, <2>3, <3>1
  <2>5. CASE Rewind
    <3>1. PICK from \in 1 .. tip :
            activity' = [b \in Deposit |-> IF b >= from THEN NoActivity ELSE activity[b]]
      BY <2>5 DEF Rewind
    <3> QED BY <2>1, <2>2, <3>1
  <2>6. CASE Redecode
    <3>1. PICK b \in 1 .. tip : activity' = [activity EXCEPT ![b] = Unmatched]
      BY <2>6 DEF Redecode
    <3> QED BY <2>1, <2>3, <3>1
  <2> QED BY <2>4, <2>5, <2>6
<1>3. /\ link' \in [Trade -> Key \cup {NoKey}]
      /\ \A t \in Trade : link'[t] # NoKey => link'[t] = link[t]
  <2>1. link \in [Trade -> Key \cup {NoKey}]
    BY <1>0 DEF Form
  <2>2. CASE StoreBlock
    BY <2>1, <2>2 DEF StoreBlock
  <2>3. CASE Rewind
    <3>1. PICK from \in 1 .. tip :
            link' = [t \in Trade |-> IF TradeBlock[t] >= from THEN NoKey ELSE link[t]]
      BY <2>3 DEF Rewind
    <3> QED BY <2>1, <3>1
  <2>4. CASE Redecode
    <3>1. \E gone \in SUBSET Trade :
            link' = [t \in Trade |-> IF t \in gone THEN NoKey ELSE link[t]]
      BY <2>4 DEF Redecode
    <3> QED BY <2>1, <3>1
  <2> QED BY <2>2, <2>3, <2>4
<1>4. Form'
  BY <1>0, <1>1, <1>2, <1>3 DEF Form
<1>5. EthInv'
  BY <1>0, <1>1, EthKeeps
<1>6. MatchesAreMutual'
  BY <1>0, <1>1, <1>2, <1>3, MatchesKeep
<1> QED BY <1>4, <1>5, <1>6 DEF Inv

-----------------------------------------------------------------------------
(* The matcher. *)

\* The activity found is of the wallet and the amount, and came in the window.
LEMMA FoundFits ==
  ASSUME Form, NEW k \in Key, NEW b \in Found(k)
  PROVE  /\ b \in Deposit /\ activity[b].status = "PENDING"
         /\ WalletOf[b] = WalletOf[k[2]] /\ AmountOf[b] = AmountOf[k[2]]
         /\ UsdOf[b] = UsdOf[k[2]]
         /\ StarkTime[b] - events[k].time \in 0 .. MatchWindow
<1>1. ByNonce(k) = {}
  BY DEF ByNonce, ActivityNonce, NoNonce, Key
<1>2. b \in ByAmountAndTime(k)
  BY <1>1 DEF Found, Oldest
<1>3. /\ b \in WaitingActivities /\ WalletOf[b] = WalletOf[k[2]] /\ AmountOf[b] = AmountOf[k[2]]
      /\ StarkTime[b] \in events[k].time .. events[k].time + MatchWindow
  BY <1>2 DEF ByAmountAndTime
<1>4. StarkTime[b] \in Int /\ events[k].time \in Int /\ MatchWindow \in Nat
  BY <1>3, MatcherAssumption DEF WaitingActivities, Form
<1>5. UsdOf[b] = UsdOf[k[2]]
  BY <1>3, DepositAssumption DEF WaitingActivities, Key
<1> QED BY <1>3, <1>4, <1>5 DEF WaitingActivities

LEMMA MatchKeeps == ASSUME Inv, NEW locked, MatchDeposit(locked) PROVE Inv'
<1>0. Form /\ EthInv /\ MatchesAreMutual
  BY DEF Inv
<1>1. PICK k \in Earliest(pass.todo) : \E b \in Found(k) :
        /\ events[k].status = "PENDING"
        /\ events' = MatchedEvent(k, b) /\ activity' = MatchedActivity(k, b)
        /\ link' = Linked(k, WalletOf[b]) /\ pass' = [pass EXCEPT !.todo = @ \ {k}]
  BY DEF MatchDeposit
<1>2. PICK b \in Found(k) :
        /\ events[k].status = "PENDING"
        /\ events' = MatchedEvent(k, b) /\ activity' = MatchedActivity(k, b)
        /\ link' = Linked(k, WalletOf[b]) /\ pass' = [pass EXCEPT !.todo = @ \ {k}]
  BY <1>1
<1>3. UNCHANGED <<eth, ethJournal, cursor, range, late>>
  BY DEF MatchDeposit
<1>4. k \in Key /\ k # NoKey
  BY <1>0, <1>1 DEF Form, Earliest, Key, NoKey
<1>5. /\ b \in Deposit /\ activity[b].status = "PENDING"
      /\ WalletOf[b] = WalletOf[k[2]] /\ AmountOf[b] = AmountOf[k[2]]
      /\ StarkTime[b] - events[k].time \in 0 .. MatchWindow
  BY <1>0, <1>4, FoundFits
<1>6. /\ events' \in [Key -> [status : Statuses, bridge : Deposit \cup {NoBridge}, time : Int]]
      /\ events'[k].status = "MATCHED" /\ events'[k].bridge = b
      /\ \A o \in Key : o # k => events'[o] = events[o]
  <2>1. events \in [Key -> [status : Statuses, bridge : Deposit \cup {NoBridge}, time : Int]]
    BY <1>0 DEF Form
  <2> QED BY <1>2, <1>4, <1>5, <2>1 DEF MatchedEvent, Statuses
<1>7. /\ activity' \in [Deposit -> [status : Statuses, event : Key \cup {NoKey}, time : Int]]
      /\ activity'[b] = [status |-> "MATCHED", event |-> k, time |-> events[k].time]
      /\ \A o \in Deposit : o # b => activity'[o] = activity[o]
  <2>1. activity \in [Deposit -> [status : Statuses, event : Key \cup {NoKey}, time : Int]]
    BY <1>0 DEF Form
  <2>2. events[k].time \in Int
    BY <1>0, <1>4 DEF Form
  <2> QED BY <1>2, <1>4, <1>5, <2>1, <2>2 DEF MatchedActivity, Statuses
<1>8. /\ link' \in [Trade -> Key \cup {NoKey}]
      /\ \A t \in Trade : link'[t] = link[t] \/ (link'[t] = k /\ Trader[t] = WalletOf[b])
  <2>1. link \in [Trade -> Key \cup {NoKey}]
    BY <1>0 DEF Form
  <2> QED BY <1>2, <1>4, <2>1 DEF Linked
<1>9. pass' \in [step : {"none", "match"}, todo : SUBSET Key]
  <2>1. pass \in [step : {"none", "match"}, todo : SUBSET Key]
    BY <1>0 DEF Form
  <2>2. pass' = [step |-> pass.step, todo |-> pass.todo \ {k}]
    BY <1>2, <2>1
  <2> QED BY <2>1, <2>2
<1>10. Form'
  <2>1. \A o \in Deposit : activity'[o].status = "MATCHED" => activity'[o].event \in Key
    BY <1>0, <1>4, <1>7 DEF Form
  <2> QED BY <1>0, <1>3, <1>6, <1>7, <1>8, <1>9, <2>1 DEF Form
<1>11. EthInv'
  BY <1>0, <1>3, <1>6, EthKeeps
<1>12. ASSUME NEW o \in Deposit, activity'[o].status = "MATCHED"
       PROVE  LET e == activity'[o].event IN
              /\ events'[e].status = "MATCHED" /\ events'[e].bridge = o
              /\ WalletOf[e[2]] = WalletOf[o] /\ AmountOf[e[2]] = AmountOf[o]
              /\ StarkTime[o] - activity'[o].time \in 0 .. MatchWindow
  <2>1. CASE o = b
    BY <1>5, <1>6, <1>7, <2>1
  <2>2. CASE o # b
    <3> DEFINE e == activity[o].event
    <3>1. activity'[o] = activity[o] /\ e \in Key
      BY <1>0, <1>7, <1>12, <2>2 DEF Form
    <3>2. /\ events[e].status = "MATCHED" /\ events[e].bridge = o
          /\ WalletOf[e[2]] = WalletOf[o] /\ AmountOf[e[2]] = AmountOf[o]
          /\ StarkTime[o] - activity[o].time \in 0 .. MatchWindow
      BY <1>0, <1>12, <3>1 DEF MatchesAreMutual
    <3>3. e # k
      BY <1>2, <3>2
    <3> QED BY <1>6, <3>1, <3>2, <3>3
  <2> QED BY <2>1, <2>2
<1>13. ASSUME NEW t \in Trade, link'[t] # NoKey
       PROVE  events'[link'[t]].status = "MATCHED" /\ WalletOf[link'[t][2]] = Trader[t]
  <2>1. CASE link'[t] = k /\ Trader[t] = WalletOf[b]
    BY <1>5, <1>6, <2>1
  <2>2. CASE link'[t] = link[t]
    <3>1. link[t] \in Key /\ events[link[t]].status = "MATCHED" /\ WalletOf[link[t][2]] = Trader[t]
      BY <1>0, <1>13, <2>2 DEF Form, MatchesAreMutual
    <3>2. link[t] # k
      BY <1>2, <3>1
    <3> QED BY <1>6, <2>2, <3>1, <3>2
  <2> QED BY <1>8, <2>1, <2>2
<1>14. MatchesAreMutual'
  BY <1>12, <1>13 DEF MatchesAreMutual
<1> QED BY <1>10, <1>11, <1>14 DEF Inv

LEMMA EndPassKeeps == ASSUME Inv, EndPass PROVE Inv'
<1>0. Form /\ EthInv /\ MatchesAreMutual
  BY DEF Inv
<1>1. UNCHANGED <<eth, ethJournal, cursor, range, late, link>> /\ pass' = NoPass
  BY DEF EndPass
<1>2. /\ events' \in [Key -> [status : Statuses, bridge : Deposit \cup {NoBridge}, time : Int]]
      /\ \A k \in Key : /\ events[k].status # "none" => events'[k].status # "none"
                        /\ events[k].status = "MATCHED" => events'[k] = events[k]
  <2>1. events \in [Key -> [status : Statuses, bridge : Deposit \cup {NoBridge}, time : Int]]
    BY <1>0 DEF Form
  <2>2. PICK keys \in SUBSET PendingEvents : events' = StaleEvents(keys)
    BY DEF EndPass
  <2> QED BY <2>1, <2>2 DEF StaleEvents, PendingEvents, Statuses
<1>3. /\ activity' \in [Deposit -> [status : Statuses, event : Key \cup {NoKey}, time : Int]]
      /\ \A b \in Deposit : activity'[b].status = "MATCHED" => activity'[b] = activity[b]
  <2>1. activity \in [Deposit -> [status : Statuses, event : Key \cup {NoKey}, time : Int]]
    BY <1>0 DEF Form
  <2>2. PICK bs \in SUBSET WaitingActivities : activity' = StaleActivities(bs)
    BY DEF EndPass
  <2> QED BY <2>1, <2>2 DEF StaleActivities, Statuses
<1>4. Form'
  <2>1. NoPass \in [step : {"none", "match"}, todo : SUBSET Key]
    BY DEF NoPass
  <2> QED BY <1>0, <1>1, <1>2, <1>3, <2>1 DEF Form
<1>5. EthInv'
  BY <1>0, <1>1, <1>2, EthKeeps
<1>6. MatchesAreMutual'
  BY <1>0, <1>1, <1>2, <1>3, MatchesKeep
<1> QED BY <1>4, <1>5, <1>6 DEF Inv

LEMMA PassKeeps == ASSUME Inv, BeginPass \/ LeaveEvent \/ PassFails PROVE Inv'
<1>0. Form /\ EthInv /\ MatchesAreMutual
  BY DEF Inv
<1>1. UNCHANGED <<eth, ethJournal, events, cursor, range, late, activity, link>>
  BY DEF BeginPass, LeaveEvent, PassFails, ethVars, starkVars
<1>2. pass' \in [step : {"none", "match"}, todo : SUBSET Key]
  <2>1. pass \in [step : {"none", "match"}, todo : SUBSET Key]
    BY <1>0 DEF Form
  <2>2. CASE BeginPass
    BY <2>2 DEF BeginPass, PendingEvents
  <2>3. CASE LeaveEvent
    <3>1. PICK k \in Earliest(pass.todo) : pass' = [pass EXCEPT !.todo = @ \ {k}]
      BY <2>3 DEF LeaveEvent
    <3>2. pass' = [step |-> pass.step, todo |-> pass.todo \ {k}]
      BY <2>1, <3>1
    <3> QED BY <2>1, <3>2
  <2>4. CASE PassFails
    BY <2>4 DEF PassFails, NoPass
  <2> QED BY <2>2, <2>3, <2>4
<1>3. Form'
  BY <1>0, <1>1, <1>2 DEF Form
<1>4. EthInv'
  BY <1>0, <1>1, EthKeeps
<1> QED BY <1>0, <1>1, <1>3, <1>4 DEF Inv, MatchesAreMutual

-----------------------------------------------------------------------------
LEMMA Untouched ==
  ASSUME Inv, UNCHANGED <<eth, ethJournal, events, cursor, range, late, activity, link, pass>>
  PROVE  Inv'
<1>1. Form'
  BY DEF Inv, Form
<1>2. EthInv'
  BY EthKeeps DEF Inv
<1> QED BY <1>1, <1>2 DEF Inv, MatchesAreMutual

LEMMA InitHolds == ASSUME Init PROVE Inv
<1>1. /\ eth = <<>> /\ ethJournal = [h \in Height |-> 0] /\ events = [k \in Key |-> NoEvent]
      /\ cursor = 0 /\ range = NoRange
      /\ activity = [b \in Deposit |-> NoActivity] /\ link = [t \in Trade |-> NoKey]
      /\ pass = NoPass
  BY DEF Init, EthInit, StarkInit, MatcherInit
<1>2. eth \in Seq(EthBlock) /\ Len(eth) = 0
  BY <1>1, EmptySeq
<1>3. NoEvent \in [status : Statuses, bridge : Deposit \cup {NoBridge}, time : Int]
  BY DEF NoEvent, Statuses
<1>4. NoActivity \in [status : Statuses, event : Key \cup {NoKey}, time : Int] /\ NoActivity.status # "MATCHED"
  BY DEF NoActivity, Statuses
<1>5. NoRange \in Ranges /\ NoPass \in [step : {"none", "match"}, todo : SUBSET Key]
  BY DEF NoRange, Ranges, NoPass
<1>6. Form
  BY <1>1, <1>2, <1>3, <1>4, <1>5 DEF Form
<1>7. EthInv
  BY <1>1 DEF EthInv, RangeBounds, RangeJournal, RangeLogs, CursorJournal, CursorLogs
<1>8. MatchesAreMutual
  BY <1>1, <1>4 DEF MatchesAreMutual
<1> QED BY <1>6, <1>7, <1>8 DEF Inv

LEMMA StepKeeps == ASSUME Inv, [Next]_vars PROVE Inv'
<1>1. CASE EthStep
  BY <1>1, EthStepKeeps
<1>2. CASE StoreStep \/ RewindStep \/ RedecodeStep
  BY <1>2, StarkKeeps DEF StoreStep, RewindStep, RedecodeStep
<1>3. CASE MatchStep
  BY <1>3, MatchKeeps, EndPassKeeps, PassKeeps DEF MatchStep, Matching
<1>4. CASE RebuildStep
  BY <1>4, Untouched
     DEF RebuildStep, Rebuilding, BeginRebuild, DeleteFlows, ReadActivities, InsertFlows, InsertClashes,
         RebuildFails, ethVars, starkVars
<1>5. CASE UNCHANGED vars
  BY <1>5, Untouched DEF vars, ethVars, starkVars
<1> QED BY <1>1, <1>2, <1>3, <1>4, <1>5 DEF Next

THEOREM InvAlways == Spec => []Inv
<1>1. Init => Inv
  BY InitHolds
<1>2. Inv /\ [Next]_vars => Inv'
  BY StepKeeps
<1> QED BY <1>1, <1>2, PTL DEF Spec

(* No deposit and no block up to the checkpoint of the L1 indexer is without its
   row, whatever ranges were lost, unless its block was replaced after it had
   been read (processBlockRange). *)
THEOREM NoLogIsSkipped == Spec => []EveryLogIsStored
<1>1. Inv => EveryLogIsStored
  BY EthInvIsProperty DEF Inv
<1> QED BY <1>1, InvAlways, PTL

(* A matched activity and its event name each other, agree on wallet and amount
   and lie within the window, whatever is rewound, decoded again or left stale
   (matchSingleDeposit). *)
THEOREM MatchesStayMutual == Spec => []MatchesAreMutual
<1>1. Inv => MatchesAreMutual
  BY DEF Inv
<1> QED BY <1>1, InvAlways, PTL
-----------------------------------------------------------------------------
(* The totals of the wallets. *)

(* A row of totals, or none, is right of a wallet's matched activities up to block
   last when it counts those, and perhaps others of them, once each. *)
Counts(row, matched, last) ==
  \E bs \in SUBSET matched :
    /\ \A b \in matched : b <= last => b \in bs
    /\ IF row = NoFlow THEN bs = {} ELSE row.verified = Amounts(bs)
Counted(rows) ==
  rows \in [Wallet -> Flow] /\ \A w \in Wallet : rows[w] = NoFlow \/ rows[w].verified >= 0

Rebuilds == [step : {"none", "delete", "read", "insert"}, window : {0} \cup Deposit,
             held : SUBSET Wallet, rows : [Wallet -> Flow], asOf : Nat]

(* The form of the tables the totals are made from, and of the rebuild. *)
FlowForm ==
  /\ late \subseteq Height
  /\ tip \in {0} \cup Deposit /\ 1 .. tip \subseteq Deposit
  /\ \A b \in Deposit : activity[b].status = "none" <=> b > tip
  /\ rewinds \in Nat /\ flowsAsOf \in Nat /\ flowsAsOf <= rewinds
  /\ flowsUpTo \in {0} \cup Deposit
  /\ rebuild \in Rebuilds /\ rebuild.asOf <= rewinds
  /\ Counted(flows) /\ Counted(rebuild.rows)

(* A rebuild that has not deleted yet has no rows. *)
DeleteHasNone ==
  rebuild.step = "delete" => \A w \in Wallet : rebuild.rows[w] = NoFlow

(* A rebuild that has deleted and not read yet: the totals a wallet got since count
   some of its matches. *)
ReadIsRight ==
  rebuild.step = "read" /\ rebuild.asOf = rewinds =>
    \A w \in Wallet \ rebuild.held : Counts(flows[w], Matched(w), 0)

(* One that has read: its rows are right where nobody can have matched since, and a
   wallet that got its first totals since is right without a row. *)
InsertIsRight ==
  rebuild.step = "insert" /\ rebuild.asOf = rewinds =>
    \A w \in Wallet :
      IF w \in rebuild.held \/ flows[w] = NoFlow
      THEN Counts(rebuild.rows[w], Matched(w), rebuild.window)
      ELSE rebuild.rows[w] = NoFlow => Counts(flows[w], Matched(w), rebuild.window)

FlowsAreRight ==
  flowsAsOf = rewinds => \A w \in Wallet : Counts(flows[w], Matched(w), flowsUpTo)

FlowInv == FlowForm /\ FlowsAreRight /\ DeleteHasNone /\ ReadIsRight /\ InsertIsRight

LEMMA Bounds ==
  ASSUME FlowForm
  PROVE  tip \in Nat /\ flowsUpTo \in Nat /\ rebuild.window \in Nat /\ rewinds \in Nat
<1>1. tip \in {0} \cup Deposit /\ flowsUpTo \in {0} \cup Deposit /\ rewinds \in Nat
  BY DEF FlowForm
<1>2. rebuild.window \in {0} \cup Deposit
  BY DEF FlowForm, Rebuilds
<1>3. \A n \in {0} \cup Deposit : n \in Nat
  OBVIOUS
<1> QED BY <1>1, <1>2, <1>3

LEMMA VerifiedMeans == FlowsAreRight => VerifiedIsMatched
  BY DEF VerifiedIsMatched, Verifies, FlowsAreRight, Counts

LEMMA AmountsAdd ==
  /\ Amounts({}) = 0
  /\ \A bs \in SUBSET Deposit : Amounts(bs) \in Nat
  /\ \A bs \in SUBSET Deposit, b \in Deposit :
       b \notin bs => Amounts(bs \cup {b}) = UsdOf[b] + Amounts(bs)
<1>1. Amounts({}) = 0
  BY SumOfNone DEF Amounts
<1>2. ASSUME NEW bs \in SUBSET Deposit
      PROVE  /\ Amounts(bs) \in Nat
             /\ \A b \in Deposit : b \notin bs => Amounts(bs \cup {b}) = UsdOf[b] + Amounts(bs)
  <2>1. IsFiniteSet(bs)
    BY FS_Subset, BridgeAssumption
  <2>2. \A b \in Deposit : UsdOf[b] \in Nat /\ UsdOf[b] \in Int
    BY DepositAssumption
  <2>3. Amounts(bs) \in Nat
    BY <2>1, <2>2, SumIsNatural DEF Amounts
  <2>4. ASSUME NEW b \in Deposit, b \notin bs
        PROVE  Amounts(bs \cup {b}) = UsdOf[b] + Amounts(bs)
    <3>1. \A y \in bs \cup {b} : UsdOf[y] \in Int
      BY <2>2
    <3> QED BY <2>1, <2>4, <3>1, SumAdds DEF Amounts
  <2> QED BY <2>3, <2>4
<1> QED BY <1>1, <1>2

LEMMA FlowChanges ==
  ASSUME NEW r \in Flow, NEW l, NEW m,
         NEW changed, changed = [r EXCEPT !.pending = l, !.verified = @ + m]
  PROVE  changed = [ins |-> r.ins, pending |-> l, verified |-> r.verified + m]
  BY DEF Flow

(* A row that is right stays so when a match is added to both. *)
LEMMA MatchVerifies ==
  ASSUME Counted(flows), NEW w \in Wallet, NEW matched \in SUBSET Deposit,
         NEW b \in Deposit \ matched
  PROVE  LET after == Verified(w, UsdOf[b]) IN
         /\ Counted(after) /\ after[w] # NoFlow
         /\ \A v \in Wallet : v # w => after[v] = flows[v]
         /\ \A last \in Nat : Counts(flows[w], matched, last) =>
                              Counts(after[w], matched \cup {b}, last)
<1> DEFINE row == IF flows[w] = NoFlow THEN [NoFlow EXCEPT !.verified = 0] ELSE flows[w]
           less == Max({0, row.pending - 1})
           new == [ins |-> row.ins, pending |-> less, verified |-> row.verified + UsdOf[b]]
           after == Verified(w, UsdOf[b])
<1>1. IsFiniteSet(Deposit) /\ Cardinality(Deposit) \in Nat /\ UsdOf[b] \in Nat
  BY BridgeAssumption, DepositAssumption, FS_CardinalityType
<1>2. row \in Flow /\ row.verified >= 0
  BY <1>1 DEF Counted, NoFlow, Flow
<1>3. less \in 0 .. Cardinality(Deposit)
  <2>1. row.pending \in 0 .. Cardinality(Deposit)
    BY <1>2 DEF Flow
  <2> HIDE DEF row
  <2>2. \E x \in {0, row.pending - 1} : \A y \in {0, row.pending - 1} : y <= x
    BY <1>1, <2>1
  <2>3. /\ less \in {0, row.pending - 1}
        /\ \A y \in {0, row.pending - 1} : y <= less
    BY <2>2 DEF Max
  <2> QED BY <1>1, <2>1, <2>3
<1>4. after = [flows EXCEPT ![w] = new]
  <2>1. after = [flows EXCEPT ![w] = [row EXCEPT !.pending = less, !.verified = @ + UsdOf[b]]]
    BY DEF Verified
  <2>2. [row EXCEPT !.pending = less, !.verified = @ + UsdOf[b]] = new
    <3> HIDE DEF less, row
    <3> QED BY <1>2, FlowChanges
  <2> HIDE DEF new, after, less, row
  <2> QED BY <2>1, <2>2
<1>5. new \in Flow /\ new.verified >= 0 /\ new.verified = row.verified + UsdOf[b]
  <2> HIDE DEF less, row
  <2> QED BY <1>1, <1>2, <1>3 DEF Flow
<1>6. new # NoFlow
  <2>1. NoFlow.verified = -1
    BY DEF NoFlow
  <2> HIDE DEF new
  <2> QED BY <1>5, <2>1
<1>7. flows \in [Wallet -> Flow]
  BY DEF Counted
<1>8. /\ after \in [Wallet -> Flow] /\ after[w] = new
      /\ \A v \in Wallet : v # w => after[v] = flows[v]
  <2> HIDE DEF new, after
  <2> QED BY <1>4, <1>5, <1>7
<1>9. Counted(after)
  <2> HIDE DEF new, after
  <2> QED BY <1>5, <1>8 DEF Counted
<1>10. ASSUME NEW last \in Nat, Counts(flows[w], matched, last)
       PROVE  Counts(after[w], matched \cup {b}, last)
  <2>0. PICK bs \in SUBSET matched :
          /\ \A o \in matched : o <= last => o \in bs
          /\ IF flows[w] = NoFlow THEN bs = {} ELSE flows[w].verified = Amounts(bs)
    BY <1>10 DEF Counts
  <2>1. row.verified = Amounts(bs)
    <3>1. CASE flows[w] = NoFlow
      <4>1. bs = {} /\ row.verified = 0
        BY <2>0, <3>1 DEF NoFlow
      <4> QED BY <4>1, AmountsAdd
    <3>2. CASE flows[w] # NoFlow
      BY <2>0, <3>2
    <3> QED BY <3>1, <3>2
  <2>2. Amounts(bs \cup {b}) = UsdOf[b] + Amounts(bs) /\ Amounts(bs) \in Nat
    <3>1. bs \in SUBSET Deposit /\ b \notin bs
      BY <2>0
    <3> QED BY <3>1, AmountsAdd
  <2> HIDE DEF new, after, row
  <2>3. after[w] # NoFlow /\ after[w].verified = Amounts(bs \cup {b})
    BY <1>1, <1>5, <1>6, <1>8, <2>1, <2>2
  <2>4. /\ bs \cup {b} \in SUBSET (matched \cup {b})
        /\ \A o \in matched \cup {b} : o <= last => o \in bs \cup {b}
    BY <2>0
  <2> QED BY <2>3, <2>4 DEF Counts
<1> HIDE DEF after, new
<1> QED BY <1>6, <1>8, <1>9, <1>10 DEF after

(* The matched activities of a wallet. *)
LEMMA Ins ==
  /\ \A w \in Wallet : Matched(w) = {b \in Deposit : WalletOf[b] = w /\ activity[b].status = "MATCHED"}
  /\ \A w \in Wallet : Matched(w) \in SUBSET Deposit
  BY DEF Matched

LEMMA InsNext ==
  \A w \in Wallet : Matched(w)' = {b \in Deposit : WalletOf[b] = w /\ activity'[b].status = "MATCHED"}
  BY DEF Matched

(* No totals are right of no block. *)
LEMMA NoneCounted ==
  ASSUME NEW matched \in SUBSET Deposit PROVE Counts(NoFlow, matched, 0)
<1>1. {} \in SUBSET matched /\ \A b \in matched : b <= 0 => b \in {}
  OBVIOUS
<1> QED BY <1>1 DEF Counts

LEMMA SameMatches ==
  ASSUME \A b \in Deposit : activity[b].status = "MATCHED" <=> activity'[b].status = "MATCHED"
  PROVE  \A w \in Wallet : Matched(w)' = Matched(w)
<1> SUFFICES ASSUME NEW w \in Wallet PROVE Matched(w)' = Matched(w)
  OBVIOUS
<1>1. Matched(w) = {b \in Deposit : WalletOf[b] = w /\ activity[b].status = "MATCHED"}
  BY Ins
<1>2. Matched(w)' = {b \in Deposit : WalletOf[b] = w /\ activity'[b].status = "MATCHED"}
  BY InsNext
<1> QED BY <1>1, <1>2

(* A step that leaves totals and rebuild alone, and neither makes a match nor takes
   one back. *)
LEMMA FlowsKeep ==
  ASSUME FlowInv, FlowForm', UNCHANGED <<flows, flowsAsOf, flowsUpTo, rewinds, rebuild>>,
         \A b \in Deposit : activity[b].status = "MATCHED" <=> activity'[b].status = "MATCHED"
  PROVE  FlowInv'
<1>1. \A w \in Wallet : Matched(w)' = Matched(w)
  BY SameMatches
<1>2. FlowsAreRight'
  BY <1>1 DEF FlowInv, FlowsAreRight, Counts
<1>3. ReadIsRight'
  BY <1>1 DEF FlowInv, ReadIsRight, Counts
<1>4. InsertIsRight'
  BY <1>1 DEF FlowInv, InsertIsRight, Counts
<1>5. DeleteHasNone'
  BY DEF FlowInv, DeleteHasNone
<1> QED BY <1>2, <1>3, <1>4, <1>5 DEF FlowInv

LEMMA RightKeeps ==
  ASSUME FlowInv, UNCHANGED <<activity, flows, flowsAsOf, flowsUpTo, rewinds>>
  PROVE  FlowsAreRight' /\ \A w \in Wallet : Matched(w)' = Matched(w)
<1>1. \A w \in Wallet : Matched(w)' = Matched(w)
  BY SameMatches
<1> QED BY <1>1 DEF FlowInv, FlowsAreRight, Counts

LEMMA FlowInit == ASSUME Init PROVE FlowInv
<1>1. /\ late = {} /\ tip = 0 /\ rewinds = 0 /\ rebuild = NoRebuild
      /\ flowsAsOf = 0 /\ flowsUpTo = 0
      /\ activity = [b \in Deposit |-> NoActivity] /\ flows = [w \in Wallet |-> NoFlow]
  BY DEF Init, EthInit, StarkInit, AccountingInit
<1>2. NoFlow \in Flow /\ Cardinality(Deposit) \in Nat
  BY BridgeAssumption, FS_CardinalityType DEF NoFlow, Flow
<1>3. /\ NoRebuild.step = "none" /\ NoRebuild.asOf = 0 /\ NoRebuild.rows = [w \in Wallet |-> NoFlow]
      /\ NoRebuild \in Rebuilds
  BY <1>2 DEF NoRebuild, Rebuilds
<1>4. Counted([w \in Wallet |-> NoFlow])
  BY <1>2 DEF Counted
<1>5. FlowForm
  <2>1. \A b \in Deposit : activity[b].status = "none" /\ b > tip
    BY <1>1 DEF NoActivity
  <2>2. Counted(flows) /\ Counted(rebuild.rows)
    BY <1>1, <1>3, <1>4
  <2>3. tip \in {0} \cup Deposit /\ 1 .. tip \subseteq Deposit /\ late \subseteq Height
    BY <1>1
  <2>4. rewinds \in Nat /\ flowsAsOf \in Nat /\ flowsAsOf <= rewinds /\ flowsUpTo \in {0} \cup Deposit
    BY <1>1
  <2>5. rebuild \in Rebuilds /\ rebuild.asOf <= rewinds
    BY <1>1, <1>3
  <2> QED BY <2>1, <2>2, <2>3, <2>4, <2>5 DEF FlowForm
<1>6. FlowsAreRight
  BY <1>1, Ins, NoneCounted DEF FlowsAreRight
<1> QED BY <1>1, <1>3, <1>5, <1>6 DEF FlowInv, DeleteHasNone, ReadIsRight, InsertIsRight

LEMMA EthStepFlows == ASSUME Inv, Inv', FlowInv, EthStep PROVE FlowInv'
<1>1. UNCHANGED <<tip, activity, flows, flowsAsOf, flowsUpTo, rewinds, rebuild>>
  BY DEF EthStep, starkVars
<1>2. late' \subseteq Height
  <2>1. late \subseteq Height /\ Len(eth) <= MaxEthBlocks /\ Len(eth) \in Nat
    BY LenProperties DEF FlowInv, FlowForm, Inv, Form
  <2>2. CASE ReplaceBlock
    <3>1. Len(eth) > 0 /\ late' \subseteq late \cup {Len(eth)}
      BY <2>2 DEF ReplaceBlock
    <3> QED BY <2>1, <3>1
  <2>3. CASE ~ReplaceBlock
    <3>1. late' = late
      BY <2>3 DEF EthStep, EthNext, MineBlock, BeginRange, StoreEthBlock, FetchLogs,
                  StoreTransaction, TransactionFails, CommitRange, RangeLost
    <3> QED BY <2>1, <3>1
  <2> QED BY <2>2, <2>3
<1>3. FlowForm'
  BY <1>1, <1>2 DEF FlowInv, FlowForm, Counted
<1> QED BY <1>1, <1>3, FlowsKeep

LEMMA StoreStepFlows == ASSUME Inv, Inv', FlowInv, StoreStep PROVE FlowInv'
<1>1. /\ tip + 1 \in Deposit /\ tip' = tip + 1 /\ late' = late
      /\ activity' = [activity EXCEPT ![tip + 1] = Unmatched]
      /\ UNCHANGED <<flows, flowsAsOf, flowsUpTo, rewinds, rebuild>>
  BY DEF StoreStep, StoreBlock, ethVars
<1>2. activity \in [Deposit -> [status : Statuses, event : Key \cup {NoKey}, time : Int]]
  BY DEF Inv, Form
<1>3. /\ activity'[tip + 1].status = "PENDING" /\ activity[tip + 1].status = "none"
      /\ \A b \in Deposit : b # tip + 1 => activity'[b] = activity[b]
  <2>1. /\ tip \in Nat
        /\ \A b \in Deposit : activity[b].status = "none" <=> b > tip
    BY Bounds DEF FlowInv, FlowForm
  <2> QED BY <1>1, <1>2, <2>1 DEF Unmatched
<1>4. FlowForm'
  <2>1. tip \in Nat /\ 1 .. tip + 1 \subseteq Deposit
    BY <1>1, Bounds DEF FlowInv, FlowForm
  <2>2. \A b \in Deposit : activity'[b].status = "none" <=> b > tip + 1
    <3> SUFFICES ASSUME NEW b \in Deposit PROVE activity'[b].status = "none" <=> b > tip + 1
      OBVIOUS
    <3>1. b \in Nat
      OBVIOUS
    <3>2. CASE b = tip + 1
      BY <1>3, <2>1, <3>2
    <3>3. CASE b # tip + 1
      <4>1. activity'[b] = activity[b]
        BY <1>3, <3>3
      <4>2. activity[b].status = "none" <=> b > tip
        BY DEF FlowInv, FlowForm
      <4> QED BY <2>1, <3>1, <3>3, <4>1, <4>2
    <3> QED BY <3>2, <3>3
  <2>3. Counted(flows)' /\ Counted(rebuild.rows)'
    BY <1>1 DEF FlowInv, FlowForm, Counted
  <2> QED BY <1>1, <2>1, <2>2, <2>3 DEF FlowInv, FlowForm
<1> QED BY <1>1, <1>3, <1>4, FlowsKeep

(* After a rewind or a second decoding what is known of the totals is void. *)
LEMMA Voids ==
  ASSUME FlowInv, FlowForm', rewinds' = rewinds + 1, flowsAsOf' = flowsAsOf, rebuild' = rebuild
  PROVE  FlowInv'
<1>1. flowsAsOf' # rewinds' /\ rebuild'.asOf # rewinds'
  BY DEF FlowInv, FlowForm, Rebuilds
<1> QED BY <1>1 DEF FlowInv, FlowsAreRight, DeleteHasNone, ReadIsRight, InsertIsRight

LEMMA RewindStepFlows == ASSUME Inv, FlowInv, RewindStep PROVE FlowInv'
<1>1. PICK from \in 1 .. tip :
        /\ tip' = from - 1
        /\ activity' = [b \in Deposit |-> IF b >= from THEN NoActivity ELSE activity[b]]
  BY DEF RewindStep, Rewind
<1>2. /\ flows' = [w \in Wallet |-> NoFlow] /\ rewinds' = rewinds + 1
      /\ UNCHANGED <<late, flowsAsOf, flowsUpTo, rebuild>>
  BY DEF RewindStep, Rewind, ethVars
<1>3. FlowForm'
  <2>1. tip \in Nat /\ 1 .. tip \subseteq Deposit /\ rewinds \in Nat
    BY DEF FlowInv, FlowForm
  <2>2. tip' \in {0} \cup Deposit /\ 1 .. tip' \subseteq Deposit
    BY <1>1, <2>1
  <2>3. \A b \in Deposit : activity'[b].status = "none" <=> b > tip'
    <3>1. \A b \in Deposit : b \in Nat /\ (activity[b].status = "none" <=> b > tip)
      BY DEF FlowInv, FlowForm
    <3>2. \A b \in Deposit : activity'[b] = IF b >= from THEN NoActivity ELSE activity[b]
      BY <1>1
    <3> QED BY <1>1, <2>1, <3>1, <3>2 DEF NoActivity
  <2>4. Counted(flows)'
    <3>1. NoFlow \in Flow /\ Cardinality(Deposit) \in Nat
      BY BridgeAssumption, FS_CardinalityType DEF NoFlow, Flow
    <3> QED BY <1>2, <3>1 DEF Counted
  <2>5. Counted(rebuild.rows)'
    BY <1>2 DEF FlowInv, FlowForm, Counted
  <2>6. flowsAsOf <= rewinds + 1 /\ rebuild.asOf <= rewinds + 1
    BY <2>1 DEF FlowInv, FlowForm, Rebuilds
  <2> QED BY <1>2, <2>1, <2>2, <2>3, <2>4, <2>5, <2>6 DEF FlowInv, FlowForm
<1> QED BY <1>2, <1>3, Voids

LEMMA RedecodeStepFlows == ASSUME Inv, Inv', FlowInv, RedecodeStep PROVE FlowInv'
<1>1. PICK b \in 1 .. tip : activity' = [activity EXCEPT ![b] = Unmatched]
  BY DEF RedecodeStep, Redecode
<1>2. rewinds' = rewinds + 1 /\ UNCHANGED <<late, tip, flows, flowsAsOf, flowsUpTo, rebuild>>
  BY DEF RedecodeStep, Redecode, ethVars
<1>3. /\ tip \in Nat /\ b \in Deposit /\ rewinds \in Nat
      /\ activity'[b].status = "PENDING" /\ activity[b].status # "none"
      /\ \A o \in Deposit : o # b => activity'[o] = activity[o]
  <2>1. activity \in [Deposit -> [status : Statuses, event : Key \cup {NoKey}, time : Int]]
    BY DEF Inv, Form
  <2>2. tip \in Nat /\ b \in Deposit /\ rewinds \in Nat
    BY DEF FlowInv, FlowForm
  <2>3. activity[b].status # "none"
    <3>0. FlowForm
      BY DEF FlowInv
    <3>1. \A o \in Deposit : activity[o].status = "none" <=> o > tip
      BY <3>0 DEF FlowForm
    <3>2. ~(b > tip)
      BY <1>1, <2>2
    <3> QED BY <2>2, <3>1, <3>2
  <2>4. activity'[b] = Unmatched /\ \A o \in Deposit : o # b => activity'[o] = activity[o]
    BY <1>1, <2>1, <2>2
  <2> QED BY <2>2, <2>3, <2>4 DEF Unmatched
<1>4. FlowForm'
  <2>1. \A o \in Deposit : activity'[o].status = "none" <=> o > tip
    <3>1. \A o \in Deposit : activity[o].status = "none" <=> o > tip
      BY DEF FlowInv, FlowForm
    <3> QED BY <1>3, <3>1
  <2>2. flowsAsOf <= rewinds + 1 /\ rebuild.asOf <= rewinds + 1
    BY <1>3 DEF FlowInv, FlowForm, Rebuilds
  <2> QED BY <1>2, <1>3, <2>1, <2>2 DEF FlowInv, FlowForm, Counted
<1> QED BY <1>2, <1>4, Voids

(* A match goes to a wallet whose totals the rebuild does not hold. *)
LEMMA MatchFlows ==
  ASSUME Inv, Inv', FlowInv, MatchDeposit(rebuild.held), UNCHANGED rebuild
  PROVE  FlowInv'
<1>1. PICK k \in Earliest(pass.todo) : \E b \in Found(k) :
        /\ WalletOf[b] \notin rebuild.held
        /\ activity' = MatchedActivity(k, b) /\ flows' = Verified(WalletOf[b], UsdOf[k[2]])
  BY DEF MatchDeposit
<1>2. PICK b \in Found(k) :
        /\ WalletOf[b] \notin rebuild.held
        /\ activity' = MatchedActivity(k, b) /\ flows' = Verified(WalletOf[b], UsdOf[k[2]])
  BY <1>1
<1> DEFINE w == WalletOf[b]
<1>3. k \in Key
  BY <1>1 DEF Inv, Form, Earliest
<1>4. b \in Deposit /\ activity[b].status = "PENDING" /\ UsdOf[b] = UsdOf[k[2]]
  BY <1>3, FoundFits DEF Inv
<1>5. UNCHANGED <<late, tip, flowsAsOf, flowsUpTo, rewinds, rebuild>>
  BY DEF MatchDeposit
<1>6. /\ activity'[b].status = "MATCHED"
      /\ \A o \in Deposit : o # b => activity'[o] = activity[o]
  <2>1. activity \in [Deposit -> [status : Statuses, event : Key \cup {NoKey}, time : Int]]
    BY DEF Inv, Form
  <2> QED BY <1>2, <1>4, <2>1 DEF MatchedActivity
<1>7. w \in Wallet
  BY <1>4, DepositAssumption
<1>8. Matched(w) \in SUBSET Deposit /\ b \notin Matched(w)
  BY <1>4, <1>7, Ins
<1>9. Matched(w)' = Matched(w) \cup {b}
  <2>1. Matched(w) = {o \in Deposit : WalletOf[o] = w /\ activity[o].status = "MATCHED"}
    BY <1>7, Ins
  <2>2. Matched(w)' = {o \in Deposit : WalletOf[o] = w /\ activity'[o].status = "MATCHED"}
    BY <1>7, InsNext
  <2> QED BY <1>4, <1>6, <2>1, <2>2
<1>10. ASSUME NEW v \in Wallet, v # w PROVE Matched(v)' = Matched(v)
  <2>1. Matched(v) = {o \in Deposit : WalletOf[o] = v /\ activity[o].status = "MATCHED"}
    BY Ins
  <2>2. Matched(v)' = {o \in Deposit : WalletOf[o] = v /\ activity'[o].status = "MATCHED"}
    BY InsNext
  <2> QED BY <1>4, <1>6, <1>10, <2>1, <2>2
<1>11. /\ Counted(flows)' /\ flows'[w] # NoFlow
       /\ \A v \in Wallet : v # w => flows'[v] = flows[v]
       /\ \A last \in Nat : Counts(flows[w], Matched(w), last) =>
                            Counts(flows'[w], Matched(w) \cup {b}, last)
  <2>1. flows' = Verified(w, UsdOf[b]) /\ Counted(flows)
    BY <1>2, <1>4 DEF FlowInv, FlowForm
  <2> DEFINE after == Verified(w, UsdOf[b])
             matched == Matched(w)
  <2>2. /\ Counted(after) /\ after[w] # NoFlow
        /\ \A v \in Wallet : v # w => after[v] = flows[v]
        /\ \A last \in Nat : Counts(flows[w], matched, last) =>
                             Counts(after[w], matched \cup {b}, last)
    <3>1. matched \in SUBSET Deposit /\ b \in Deposit \ matched
      BY <1>4, <1>8
    <3> HIDE DEF matched, w, after
    <3>2. w \in Wallet
      BY <1>7 DEF w
    <3> QED BY <2>1, <3>1, <3>2, MatchVerifies DEF after
  <2>3. flows' = after
    BY <2>1
  <2> HIDE DEF after
  <2>4. Counted(flows)'
    BY <2>2, <2>3 DEF Counted
  <2> QED BY <2>2, <2>3, <2>4
<1>12. FlowForm'
  <2>1. \A o \in Deposit : activity'[o].status = "none" <=> o > tip
    <3>1. \A o \in Deposit : activity[o].status = "none" <=> o > tip
      BY DEF FlowInv, FlowForm
    <3> QED BY <1>4, <1>6, <3>1
  <2>2. Counted(rebuild.rows)'
    BY <1>5 DEF FlowInv, FlowForm, Counted
  <2> QED BY <1>5, <1>11, <2>1, <2>2 DEF FlowInv, FlowForm
<1>13. ASSUME NEW v \in Wallet, NEW last \in Nat, Counts(flows[v], Matched(v), last)
       PROVE  Counts(flows'[v], Matched(v)', last)
  <2>1. CASE v = w
    BY <1>9, <1>11, <1>13, <2>1
  <2>2. CASE v # w
    BY <1>10, <1>11, <1>13, <2>2
  <2> QED BY <2>1, <2>2
<1>14. flowsUpTo \in Nat /\ rebuild.window \in Nat
  BY Bounds DEF FlowInv
<1>15. FlowsAreRight'
  <2> SUFFICES ASSUME flowsAsOf = rewinds, NEW v \in Wallet
               PROVE  Counts(flows'[v], Matched(v)', flowsUpTo)
    BY <1>5 DEF FlowsAreRight, Counts
  <2> QED BY <1>13, <1>14 DEF FlowInv, FlowsAreRight
<1>16. ReadIsRight'
  <2> SUFFICES ASSUME rebuild.step = "read", rebuild.asOf = rewinds, NEW v \in Wallet \ rebuild.held
               PROVE  Counts(flows'[v], Matched(v)', 0)
    BY <1>5 DEF ReadIsRight, Counts
  <2> QED BY <1>13 DEF FlowInv, ReadIsRight
<1>17. InsertIsRight'
  <2> SUFFICES ASSUME rebuild.step = "insert", rebuild.asOf = rewinds, NEW v \in Wallet
               PROVE  IF v \in rebuild.held \/ flows'[v] = NoFlow
                      THEN Counts(rebuild.rows[v], Matched(v)', rebuild.window)
                      ELSE rebuild.rows[v] = NoFlow => Counts(flows'[v], Matched(v)', rebuild.window)
    BY <1>5 DEF InsertIsRight, Counts
  <2>0. IF v \in rebuild.held \/ flows[v] = NoFlow
        THEN Counts(rebuild.rows[v], Matched(v), rebuild.window)
        ELSE rebuild.rows[v] = NoFlow => Counts(flows[v], Matched(v), rebuild.window)
    BY DEF FlowInv, InsertIsRight
  <2>1. CASE v # w
    BY <1>10, <1>11, <2>0, <2>1
  <2>2. CASE v = w
    <3> SUFFICES ASSUME rebuild.rows[v] = NoFlow
                 PROVE  Counts(flows'[v], Matched(v)', rebuild.window)
      BY <1>2, <1>11, <2>2
    <3>1. Counts(flows[v], Matched(v), rebuild.window)
      <4>1. CASE flows[v] = NoFlow
        BY <2>0, <4>1
      <4>2. CASE flows[v] # NoFlow
        BY <1>2, <2>0, <2>2, <4>2
      <4> QED BY <4>1, <4>2
    <3> QED BY <1>13, <1>14, <3>1
  <2> QED BY <2>1, <2>2
<1>18. DeleteHasNone'
  BY <1>5 DEF FlowInv, DeleteHasNone
<1> QED BY <1>12, <1>15, <1>16, <1>17, <1>18 DEF FlowInv

LEMMA MatchStepFlows == ASSUME Inv, Inv', FlowInv, MatchStep PROVE FlowInv'
<1>1. CASE MatchDeposit(rebuild.held)
  BY <1>1, MatchFlows DEF MatchStep
<1>2. CASE BeginPass \/ LeaveEvent \/ PassFails
  <2>1. UNCHANGED <<late, tip, activity, flows, flowsAsOf, flowsUpTo, rewinds, rebuild>>
    BY <1>2 DEF BeginPass, LeaveEvent, PassFails, ethVars, starkVars, MatchStep
  <2>2. FlowForm'
    BY <2>1 DEF FlowInv, FlowForm, Counted
  <2> QED BY <2>1, <2>2, FlowsKeep
<1>3. CASE EndPass
  <2>1. UNCHANGED <<late, tip, flows, flowsAsOf, flowsUpTo, rewinds, rebuild>>
    BY <1>3 DEF EndPass, MatchStep
  <2>2. PICK bs \in SUBSET WaitingActivities : activity' = StaleActivities(bs)
    BY <1>3 DEF EndPass
  <2>3. \A b \in Deposit : /\ activity[b].status = "MATCHED" <=> activity'[b].status = "MATCHED"
                           /\ activity[b].status = "none" <=> activity'[b].status = "none"
    <3>1. activity \in [Deposit -> [status : Statuses, event : Key \cup {NoKey}, time : Int]]
      BY DEF Inv, Form
    <3> QED BY <2>2, <3>1 DEF StaleActivities, WaitingActivities
  <2>4. FlowForm'
    BY <2>1, <2>3 DEF FlowInv, FlowForm, Counted
  <2> QED BY <2>1, <2>3, <2>4, FlowsKeep
<1> QED BY <1>1, <1>2, <1>3 DEF MatchStep, Matching

(* What a rebuild reads: rows right of the matches up to its window, and none only for
   a wallet that has no match up to there. *)
LEMMA TotalsAreRight ==
  ASSUME NEW last \in Nat
  PROVE  /\ Counted(Totals(last))
         /\ \A w \in Wallet :
              /\ Counts(Totals(last)[w], Matched(w), last)
              /\ Totals(last)[w] = NoFlow => \A b \in Matched(w) : ~(b <= last)
<1>1. IsFiniteSet(Deposit) /\ Cardinality(Deposit) \in Nat
  BY BridgeAssumption, FS_CardinalityType
<1>2. ASSUME NEW bs \in SUBSET Deposit
      PROVE  Cardinality(bs) \in 0 .. Cardinality(Deposit) /\ Amounts(bs) \in Nat
  <2>1. IsFiniteSet(bs) /\ Cardinality(bs) <= Cardinality(Deposit)
    BY <1>1, FS_Subset
  <2>2. Cardinality(bs) \in Nat
    BY <2>1, FS_CardinalityType
  <2> QED BY <1>1, <2>1, <2>2, AmountsAdd
<1>3. NoFlow \in Flow /\ NoFlow.verified = -1
  BY <1>1 DEF NoFlow, Flow
<1>4. ASSUME NEW w \in Wallet
      PROVE  LET made == Totals(last)[w] IN
             /\ made \in Flow /\ (made = NoFlow \/ made.verified >= 0)
             /\ Counts(made, Matched(w), last)
             /\ made = NoFlow => \A b \in Matched(w) : ~(b <= last)
  <2> DEFINE stored == {b \in Stored(w) : b <= last}
             pending == {b \in stored : activity[b].status = "PENDING"}
             matched == {b \in stored : activity[b].status = "MATCHED"}
             row == [ins |-> Cardinality(stored), pending |-> Cardinality(pending),
                     verified |-> Amounts(matched)]
             made == Totals(last)[w]
  <2>1. made = IF stored = {} THEN NoFlow ELSE row
    BY DEF Totals
  <2>2. stored \in SUBSET Deposit /\ pending \in SUBSET Deposit /\ matched \in SUBSET Deposit
    BY DEF Stored
  <2>3. row \in Flow /\ row.verified >= 0 /\ row.verified = Amounts(matched)
    <3> HIDE DEF stored, pending, matched
    <3> QED BY <1>2, <2>2 DEF Flow
  <2>4. row # NoFlow
    <3> HIDE DEF row
    <3> QED BY <1>2, <1>3, <2>2, <2>3
  <2>5. matched \subseteq Matched(w) /\ \A b \in Matched(w) : b <= last => b \in matched
    BY DEF Matched, Stored
  <2>6. matched \subseteq stored
    OBVIOUS
  <2> HIDE DEF row, matched, stored, made
  <2>7. CASE stored = {}
    <3>1. made = NoFlow /\ matched = {}
      BY <2>1, <2>6, <2>7
    <3> QED BY <1>3, <2>5, <3>1 DEF Counts, made
  <2>8. CASE stored # {}
    <3>1. made = row
      BY <2>1, <2>8
    <3> QED BY <2>3, <2>4, <2>5, <3>1 DEF Counts, made
  <2> QED BY <2>7, <2>8
<1>5. Counted(Totals(last))
  <2> DEFINE totals == Totals(last)
  <2>1. DOMAIN totals = Wallet /\ totals = [w \in Wallet |-> totals[w]]
    BY DEF Totals
  <2>2. \A w \in Wallet : totals[w] \in Flow /\ (totals[w] = NoFlow \/ totals[w].verified >= 0)
    BY <1>4
  <2> HIDE DEF totals
  <2>3. totals \in [Wallet -> Flow]
    BY <2>1, <2>2
  <2>4. Counted(totals)
    BY <2>2, <2>3 DEF Counted
  <2> QED BY <2>4 DEF totals
<1> QED BY <1>4, <1>5

LEMMA RebuildEnds ==
  ASSUME FlowInv, rebuild' = NoRebuild, UNCHANGED <<late, tip, activity, rewinds>>,
         flowsAsOf' \in Nat, flowsAsOf' <= rewinds, flowsUpTo' \in {0} \cup Deposit,
         Counted(flows)',
         flowsAsOf' = rewinds => \A w \in Wallet : Counts(flows'[w], Matched(w), flowsUpTo')
  PROVE  FlowInv'
<1>1. NoFlow \in Flow
  BY BridgeAssumption, FS_CardinalityType DEF NoFlow, Flow
<1>2. /\ rebuild'.step = "none" /\ rebuild'.asOf = 0 /\ rebuild'.rows = [w \in Wallet |-> NoFlow]
      /\ rebuild' \in Rebuilds
  BY <1>1 DEF NoRebuild, Rebuilds
<1>3. Counted(rebuild.rows)'
  BY <1>1, <1>2 DEF Counted
<1>4. rewinds \in Nat
  BY DEF FlowInv, FlowForm
<1>5. FlowForm'
  BY <1>2, <1>3, <1>4 DEF FlowInv, FlowForm
<1>6. FlowsAreRight'
  BY DEF FlowsAreRight, Counts, Matched
<1> QED BY <1>2, <1>5, <1>6 DEF FlowInv, DeleteHasNone, ReadIsRight, InsertIsRight

LEMMA BeginFlows == ASSUME FlowInv, BeginRebuild PROVE FlowInv'
<1>1. UNCHANGED <<late, tip, activity, flows, flowsAsOf, flowsUpTo, rewinds>>
  BY DEF BeginRebuild, ethVars, starkVars
<1>2. PICK window \in IF RequireL1 THEN 0 .. tip ELSE {tip} :
        rebuild' = [NoRebuild EXCEPT !.step = "delete", !.window = window]
  BY DEF BeginRebuild
<1>3. window \in {0} \cup Deposit
  <2>1. tip \in {0} \cup Deposit /\ 1 .. tip \subseteq Deposit
    BY DEF FlowInv, FlowForm
  <2>2. window \in 0 .. tip
    BY <2>1
  <2> QED BY <2>1, <2>2
<1>4. NoFlow \in Flow
  BY BridgeAssumption, FS_CardinalityType DEF NoFlow, Flow
<1>5. rebuild' = [step |-> "delete", window |-> window, held |-> {},
                  rows |-> [w \in Wallet |-> NoFlow], asOf |-> 0]
  BY <1>2 DEF NoRebuild
<1>6. rebuild' \in Rebuilds
  BY <1>3, <1>4, <1>5 DEF Rebuilds
<1>7. /\ Counted(rebuild.rows)' /\ rebuild'.asOf = 0 /\ rebuild'.step = "delete"
      /\ \A w \in Wallet : rebuild'.rows[w] = NoFlow
  BY <1>4, <1>5 DEF Counted
<1>8. FlowForm'
  BY <1>1, <1>6, <1>7 DEF FlowInv, FlowForm, Counted
<1>9. FlowsAreRight'
  BY <1>1, RightKeeps
<1> QED BY <1>7, <1>8, <1>9 DEF FlowInv, DeleteHasNone, ReadIsRight, InsertIsRight

(* Nothing is claimed of what was there before the deletion. *)
LEMMA DeleteKeepsFlows == ASSUME FlowInv, DeleteFlows PROVE FlowInv'
<1> DEFINE gone == {w \in Wallet : HasFlow(w)}
           step == IF rebuild.window = 0 THEN "insert" ELSE "read"
<1>0. Counted(flows) /\ Counted(rebuild.rows) /\ rewinds \in Nat /\ rebuild \in Rebuilds
  BY DEF FlowInv, FlowForm
<1>1. UNCHANGED <<late, tip, activity, flows, flowsAsOf, flowsUpTo, rewinds>>
  BY DEF DeleteFlows, ethVars, starkVars
<1>2. rebuild' = [step |-> step, window |-> rebuild.window, held |-> gone,
                  rows |-> rebuild.rows, asOf |-> rewinds]
  BY <1>0 DEF DeleteFlows, Rebuilds
<1>3. gone \subseteq Wallet /\ step \in {"read", "insert"} /\ (step = "insert" => rebuild.window = 0)
  OBVIOUS
<1>4. \A w \in Wallet \ gone : flows[w] = NoFlow
  BY DEF HasFlow
<1> HIDE DEF gone, step
<1>5. rebuild' \in Rebuilds /\ rebuild'.asOf = rewinds
  BY <1>0, <1>2, <1>3 DEF Rebuilds
<1>6. FlowForm'
  BY <1>0, <1>1, <1>2, <1>5 DEF FlowInv, FlowForm, Counted
<1>7. FlowsAreRight'
  BY <1>1, RightKeeps
<1>8. \A w \in Wallet : Counts(NoFlow, Matched(w), 0)
  BY Ins, NoneCounted
<1>9. ReadIsRight'
  <2> SUFFICES ASSUME NEW w \in Wallet \ gone PROVE Counts(flows[w], Matched(w), 0)
    BY <1>1, <1>2, RightKeeps DEF ReadIsRight
  <2> QED BY <1>4, <1>8
<1>10. InsertIsRight'
  <2> SUFFICES ASSUME step = "insert", NEW w \in Wallet
               PROVE  IF w \in gone \/ flows[w] = NoFlow
                      THEN Counts(rebuild.rows[w], Matched(w), rebuild.window)
                      ELSE rebuild.rows[w] = NoFlow => Counts(flows[w], Matched(w), rebuild.window)
    BY <1>1, <1>2, RightKeeps DEF InsertIsRight
  <2>1. rebuild.rows[w] = NoFlow
    BY DEF FlowInv, DeleteHasNone, DeleteFlows
  <2> QED BY <1>3, <1>4, <1>8, <2>1
<1> QED BY <1>2, <1>3, <1>6, <1>7, <1>9, <1>10 DEF FlowInv, DeleteHasNone

LEMMA ReadKeepsFlows == ASSUME FlowInv, ReadActivities PROVE FlowInv'
<1> DEFINE totals == Totals(rebuild.window)
<1>0. /\ Counted(flows) /\ rewinds \in Nat /\ rebuild \in Rebuilds
      /\ rebuild.window \in Nat /\ rebuild.step = "read"
  BY DEF FlowInv, FlowForm, Rebuilds, ReadActivities
<1>1. UNCHANGED <<late, tip, activity, flows, flowsAsOf, flowsUpTo, rewinds>>
  BY DEF ReadActivities, ethVars, starkVars
<1>2. /\ Counted(totals)
      /\ \A w \in Wallet : /\ Counts(totals[w], Matched(w), rebuild.window)
                           /\ totals[w] = NoFlow => \A b \in Matched(w) : ~(b <= rebuild.window)
  BY <1>0, TotalsAreRight
<1>3. rebuild' = [step |-> "insert", window |-> rebuild.window, held |-> rebuild.held,
                  rows |-> totals, asOf |-> rebuild.asOf]
  BY <1>0 DEF ReadActivities, Rebuilds
<1> HIDE DEF totals
<1>4. rebuild' \in Rebuilds
  BY <1>0, <1>2, <1>3 DEF Rebuilds, Counted
<1>5. FlowForm'
  BY <1>0, <1>1, <1>2, <1>3, <1>4 DEF FlowInv, FlowForm, Counted
<1>6. FlowsAreRight'
  BY <1>1, RightKeeps
<1>7. InsertIsRight'
  <2> SUFFICES ASSUME rebuild.asOf = rewinds, NEW w \in Wallet
               PROVE  IF w \in rebuild.held \/ flows[w] = NoFlow
                      THEN Counts(totals[w], Matched(w), rebuild.window)
                      ELSE totals[w] = NoFlow => Counts(flows[w], Matched(w), rebuild.window)
    BY <1>1, <1>3, RightKeeps DEF InsertIsRight
  <2>1. w \notin rebuild.held => Counts(flows[w], Matched(w), 0)
    BY <1>0 DEF FlowInv, ReadIsRight
  <2>2. ASSUME w \notin rebuild.held, totals[w] = NoFlow
        PROVE  Counts(flows[w], Matched(w), rebuild.window)
    <3>1. PICK bs \in SUBSET Matched(w) :
            IF flows[w] = NoFlow THEN bs = {} ELSE flows[w].verified = Amounts(bs)
      BY <2>1, <2>2 DEF Counts
    <3> QED BY <1>2, <2>2, <3>1 DEF Counts
  <2> QED BY <1>2, <2>2
<1> QED BY <1>3, <1>5, <1>6, <1>7 DEF FlowInv, DeleteHasNone, ReadIsRight

LEMMA InsertKeepsFlows == ASSUME FlowInv, InsertFlows PROVE FlowInv'
<1>0. Counted(flows) /\ Counted(rebuild.rows)
  BY DEF FlowInv, FlowForm
<1>1. /\ rebuild.step = "insert" /\ rebuild' = NoRebuild
      /\ flowsAsOf' = rebuild.asOf /\ flowsUpTo' = rebuild.window
      /\ flows' = [w \in Wallet |-> IF rebuild.rows[w] # NoFlow \/ w \in rebuild.held
                                    THEN rebuild.rows[w] ELSE flows[w]]
      /\ \A w \in Wallet : rebuild.rows[w] # NoFlow => flows[w] = NoFlow \/ w \in rebuild.held
      /\ UNCHANGED <<late, tip, activity, rewinds>>
  BY DEF InsertFlows, Clashing, HasFlow, ethVars
<1>2. Counted(flows)'
  BY <1>0, <1>1 DEF Counted
<1>3. rebuild.asOf \in Nat /\ rebuild.asOf <= rewinds /\ rebuild.window \in {0} \cup Deposit
  BY DEF FlowInv, FlowForm, Rebuilds
<1>4. ASSUME rebuild.asOf = rewinds, NEW w \in Wallet
      PROVE  Counts(flows'[w], Matched(w), rebuild.window)
  <2>1. IF w \in rebuild.held \/ flows[w] = NoFlow
        THEN Counts(rebuild.rows[w], Matched(w), rebuild.window)
        ELSE rebuild.rows[w] = NoFlow => Counts(flows[w], Matched(w), rebuild.window)
    BY <1>1, <1>4 DEF FlowInv, InsertIsRight
  <2>2. CASE rebuild.rows[w] # NoFlow \/ w \in rebuild.held
    BY <1>1, <2>1, <2>2
  <2>3. CASE rebuild.rows[w] = NoFlow /\ w \notin rebuild.held
    <3>1. flows'[w] = flows[w]
      BY <1>1, <2>3
    <3>2. Counts(flows[w], Matched(w), rebuild.window)
      BY <2>1, <2>3
    <3> QED BY <3>1, <3>2
  <2> QED BY <2>2, <2>3
<1> QED BY <1>1, <1>2, <1>3, <1>4, RebuildEnds

LEMMA RebuildStepFlows == ASSUME FlowInv, RebuildStep PROVE FlowInv'
<1>1. CASE InsertClashes \/ RebuildFails
  <2>1. rebuild' = NoRebuild /\ UNCHANGED <<late, tip, activity, flows, flowsAsOf, flowsUpTo, rewinds>>
    BY <1>1 DEF InsertClashes, RebuildFails, ethVars, starkVars
  <2>2. flowsAsOf \in Nat /\ flowsAsOf <= rewinds /\ flowsUpTo \in {0} \cup Deposit /\ Counted(flows)'
    BY <2>1 DEF FlowInv, FlowForm, Counted
  <2>3. flowsAsOf = rewinds => \A w \in Wallet : Counts(flows[w], Matched(w), flowsUpTo)
    BY DEF FlowInv, FlowsAreRight
  <2> QED BY <2>1, <2>2, <2>3, RebuildEnds
<1> QED BY <1>1, BeginFlows, DeleteKeepsFlows, ReadKeepsFlows, InsertKeepsFlows
        DEF RebuildStep, Rebuilding

THEOREM FlowsAlways == Spec => [](Inv /\ FlowInv)
<1>1. Init => Inv /\ FlowInv
  BY InitHolds, FlowInit
<1>2. ASSUME Inv, FlowInv, [Next]_vars PROVE Inv' /\ FlowInv'
  <2>1. Inv'
    BY <1>2, StepKeeps
  <2>2. CASE UNCHANGED vars
    <3>1. UNCHANGED <<late, tip, activity, flows, flowsAsOf, flowsUpTo, rewinds, rebuild>>
      BY <2>2 DEF vars, ethVars, starkVars
    <3>2. FlowForm'
      BY <1>2, <3>1 DEF FlowInv, FlowForm, Counted
    <3> QED BY <1>2, <2>1, <3>1, <3>2, FlowsKeep
  <2> QED BY <1>2, <2>1, <2>2, EthStepFlows, StoreStepFlows, RewindStepFlows, RedecodeStepFlows,
             MatchStepFlows, RebuildStepFlows DEF Next
<1>3. Inv /\ FlowInv /\ [Next]_vars => (Inv /\ FlowInv)'
  BY <1>2
<1> QED BY <1>1, <1>3, PTL DEF Spec

(* From the first rebuild after a rewind or a second decoding on, the verified inflow
   of every wallet counts each match up to the block that rebuild went to, and any
   other of its matches at most once, for any interleaving of passes, rebuilds and
   commits (refreshBridgeAccounting and updateBridgeFlowSnapshot). *)
THEOREM TotalsStayVerified == Spec => []VerifiedIsMatched
<1>1. Inv /\ FlowInv => VerifiedIsMatched
  BY VerifiedMeans DEF FlowInv
<1> QED BY <1>1, FlowsAlways, PTL

(* The tables and what the three jobs hold keep their types; every block up to the tip,
   and no other, has its activity (StoreBlock, deleteReconciliationWindow). *)
THEOREM BridgeIsTyped == Spec => []BridgeTypeOK
<1>1. ASSUME Inv, FlowInv PROVE BridgeTypeOK
  <2>1. /\ cursor \in 0 .. Len(eth) /\ link \in [Trade -> Key \cup {NoKey}]
        /\ events \in [Key -> [status : Statuses, bridge : Deposit \cup {NoBridge}, time : Int]]
        /\ activity \in [Deposit -> [status : Statuses, event : Key \cup {NoKey}, time : Int]]
        /\ pass.todo \subseteq Key
    BY <1>1 DEF Inv, Form
  <2>2. /\ late \subseteq Height /\ tip \in {0} \cup Deposit
        /\ \A b \in Deposit : activity[b].status = "none" <=> b > tip
        /\ flows \in [Wallet -> Flow] /\ rebuild.held \subseteq Wallet
        /\ rebuild.window \in {0} \cup Deposit /\ flowsUpTo \in {0} \cup Deposit
    BY <1>1 DEF FlowInv, FlowForm, Counted, Rebuilds
  <2> QED BY <2>1, <2>2 DEF BridgeTypeOK, Statuses
<1>2. Inv /\ FlowInv => BridgeTypeOK
  BY <1>1
<1> QED BY <1>2, FlowsAlways, PTL

=============================================================================
