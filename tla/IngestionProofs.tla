-------------------------- MODULE IngestionProofs --------------------------
(***************************************************************************)
(* Proofs about Ingestion, for every tree of blocks, every bound and both  *)
(* modes of the indexer: what the journal and the derived rows keep when   *)
(* the indexer's commits, the promoter's walk, its rewind and its replay   *)
(* interleave in any order and fail anywhere.  But for type correctness,   *)
(* the deployment is one that already has an anchor (Seeded): without one  *)
(* the store does lose heights: the rewind leaves a NULL checkpoint, over  *)
(* which the indexer may commit any block.  First, what one transaction of *)
(* the journal keeps, whichever process runs it, and what the indexer      *)
(* keeps when it runs alone.                                               *)
(***************************************************************************)
EXTENDS Ingestion, IndexerAlone, Induction

USE TreeAssumption DEF Height, Lane, L1, L2

(* What is known of the lines of blocks: derived by induction on the tree from
   the equation they are defined by. *)
LEMMA Lines ==
  /\ Line \in [Block -> SUBSET Block]
  /\ \A b \in Block :
       /\ Line[b] = {b} \cup IF Parent[b] = None THEN {} ELSE Line[Parent[b]]
       /\ \A n \in 0..Num[b] : \E c \in Line[b] : Num[c] = n
       /\ \A c \in Line[b] : Num[c] <= Num[b] /\ Line[c] \subseteq Line[b]
       /\ \A c, d \in Line[b] : /\ Num[c] = Num[d] => c = d
                                /\ Num[c] <= Num[d] => c \in Line[d]
  <1>1. IsTree(Block, Num, Parent, None)
    BY DEF IsTree
  <1>2. IsLine(Block, Parent, None, Line)
    BY LineAssumption DEF IsLine
  <1>3. Line \in [Block -> SUBSET Block]
    BY LineAssumption
  <1>4. \A b \in Block :
          Line[b] = {b} \cup IF Parent[b] = None THEN {} ELSE Line[Parent[b]]
    BY LineAssumption
  <1> HIDE TreeAssumption DEF Height
  <1>5. \A b \in Block :
       /\ \A n \in 0..Num[b] : \E c \in Line[b] : Num[c] = n
       /\ \A c \in Line[b] : Num[c] <= Num[b] /\ Line[c] \subseteq Line[b]
       /\ \A c, d \in Line[b] : /\ Num[c] = Num[d] => c = d
                                /\ Num[c] <= Num[d] => c \in Line[d]
    BY <1>1, <1>2, LineOfTree
  <1> QED BY <1>3, <1>4, <1>5

(***************************************************************************)
(* The transactions of module Journal                                      *)
(***************************************************************************)

(* A payload is a record, NULL is not. *)
LEMMA PayloadIsNotNone == None \notin Payload
  BY NoneAssumption

(* A commit, whichever process runs it, keeps the rows well formed. *)
LEMMA ProcessAcceptedBlockType ==
  ASSUME JournalTypeOK, NEW p \in Payload, ProcessAcceptedBlock(p)
  PROVE  JournalTypeOK'
  <1>1. p.block \in Block /\ p.status \in Lane
    BY DEF Payload
  <1>2. cp' \in [Lane -> Block \cup {None}]
    BY <1>1 DEF JournalTypeOK, ProcessAcceptedBlock, CheckpointsAfter
  <1>3. journal' \in [Block -> RowState]
    BY <1>1 DEF JournalTypeOK, ProcessAcceptedBlock, JournalWith, RowState
  <1>4. /\ finality' \in [Block -> Lane \cup {None}]
        /\ derived' \in [Height -> Block \cup {None}]
        /\ rawFinality' \in [Height -> Lane \cup {None}]
        /\ locked' \in SUBSET Height
    BY <1>1 DEF JournalTypeOK, ProcessAcceptedBlock
  <1> QED BY <1>2, <1>3, <1>4 DEF JournalTypeOK

(* So does a promotion. *)
LEMMA PromoteBlockToL1Type ==
  ASSUME JournalTypeOK, NEW b \in Block, PromoteBlockToL1(b)
  PROVE  JournalTypeOK'
  BY DEF JournalTypeOK, PromoteBlockToL1

(* A commit leaves one active row per height: the row it supersedes is orphaned
   in the same transaction. *)
LEMMA CommitKeepsOneActiveRow ==
  ASSUME JournalTypeOK, OneActiveRow, NEW p \in Payload, ProcessAcceptedBlock(p)
  PROVE  OneActiveRow'
  <1>1. p.block \in Block
    BY DEF Payload
  <1>2. journal' = JournalWith(p.block)
    BY DEF ProcessAcceptedBlock
  <1> SUFFICES ASSUME NEW b \in Block, NEW c \in Block, Num[b] = Num[c],
                      journal'[b] = "active", journal'[c] = "active"
               PROVE  b = c
    BY DEF OneActiveRow
  <1>3. CASE Num[b] = Num[p.block]
    <2>1. b = p.block
      BY <1>1, <1>2, <1>3 DEF JournalWith
    <2>2. c = p.block
      BY <1>1, <1>2, <1>3 DEF JournalWith
    <2> QED BY <2>1, <2>2
  <1>4. CASE Num[b] # Num[p.block]
    <2>1. journal[b] = "active" /\ journal[c] = "active"
      BY <1>1, <1>2, <1>4 DEF JournalWith
    <2> QED BY <2>1 DEF OneActiveRow
  <1> QED BY <1>3, <1>4

(* A commit leaves no hole: it stores the height after the checkpoint, and only
   touches that height. *)
LEMMA CommitKeepsStoredWithoutGaps ==
  ASSUME JournalTypeOK, StoredWithoutGaps, NEW p \in Payload,
         ProcessAcceptedBlock(p),
         cp[L2] = None => Num[p.block] = FirstBlock
  PROVE  StoredWithoutGaps'
  <1> DEFINE n == Num[p.block]
  <1>1. p.block \in Block /\ n \in Height
    BY DEF Payload
  <1>2. /\ journal' = JournalWith(p.block)
        /\ derived' = [derived EXCEPT ![n] = p.block]
        /\ cp'[L2] = p.block
    BY DEF ProcessAcceptedBlock, CheckpointsAfter
  <1>3. FirstBlock \in Height
    BY JournalAssumption DEF FirstBlock
  <1> SUFFICES ASSUME NEW h \in FirstBlock..n
               PROVE  \E b \in Block : /\ Num[b] = h /\ journal'[b] = "active"
                                       /\ derived'[h] = b
    BY <1>2 DEF StoredWithoutGaps, FirstBlock
  <1>4. CASE h = n
    <2>1. journal'[p.block] = "active" /\ derived'[n] = p.block
      BY <1>1, <1>2 DEF JournalWith, JournalTypeOK
    <2> QED BY <1>1, <1>4, <2>1
  <1>5. CASE h # n
    <2>1. cp[L2] # None
      BY <1>1, <1>3, <1>5
    <2>2. n = Num[cp[L2]] + 1 /\ cp[L2] \in Block
      BY <2>1 DEF ProcessAcceptedBlock, SequentialProgress, JournalTypeOK
    <2>3. h \in FirstBlock..Num[cp[L2]] /\ h \in Height
      BY <1>1, <1>3, <1>5, <2>2
    <2>4. PICK b \in Block : Num[b] = h /\ journal[b] = "active" /\ derived[h] = b
      BY <2>1, <2>3 DEF StoredWithoutGaps
    <2>5. journal'[b] = "active"
      BY <1>1, <1>2, <1>5, <2>4 DEF JournalWith
    <2>6. derived'[h] = b
      BY <1>2, <1>5, <2>3, <2>4 DEF JournalTypeOK
    <2> QED BY <2>4, <2>5, <2>6
  <1> QED BY <1>4, <1>5

(* A commit writes the status of its payload on the journal row and on the raw
   rows alike. *)
LEMMA CommitKeepsFinalityAgrees ==
  ASSUME JournalTypeOK, FinalityAgrees, NEW p \in Payload, ProcessAcceptedBlock(p)
  PROVE  FinalityAgrees'
  <1>1. p.block \in Block /\ Num[p.block] \in Height
    BY DEF Payload
  <1> SUFFICES ASSUME NEW b \in Block, journal'[b] = "active",
                      derived'[Num[b]] = b
               PROVE  rawFinality'[Num[b]] = finality'[b]
    BY DEF FinalityAgrees
  <1>2. CASE Num[b] = Num[p.block]
    <2>1. b = p.block
      BY <1>1, <1>2 DEF ProcessAcceptedBlock, JournalTypeOK
    <2> QED BY <1>1, <2>1 DEF ProcessAcceptedBlock, JournalTypeOK
  <1>3. CASE Num[b] # Num[p.block]
    <2>1. journal[b] = "active" /\ derived[Num[b]] = b
      BY <1>1, <1>3 DEF ProcessAcceptedBlock, JournalWith, JournalTypeOK
    <2>2. rawFinality[Num[b]] = finality[b]
      BY <2>1 DEF FinalityAgrees
    <2> QED BY <1>1, <1>3, <2>2 DEF ProcessAcceptedBlock, JournalTypeOK
  <1> QED BY <1>2, <1>3

(***************************************************************************)
(* The steps of the node and of the indexer                                *)
(***************************************************************************)

(* A height up to the node's head has a block there, and that block's number is
   the height asked for: what normalizeFetchedBlock checks of every answer. *)
LEMMA RemoteBlockNumber ==
  ASSUME head \in Block, NEW n \in 0..RemoteTip
  PROVE  RemoteBlock(n) \in Line[head] /\ RemoteBlock(n) \in Block
         /\ Num[RemoteBlock(n)] = n
  BY Lines DEF RemoteBlock, RemoteTip

(* An answer is a payload of the height asked for. *)
LEMMA RemotePayloadType ==
  ASSUME head \in Block, NEW n \in 0..RemoteTip
  PROVE  RemotePayload(n) \in Payload /\ Num[RemotePayload(n).block] = n
  BY RemoteBlockNumber DEF RemotePayload, RemoteStatus, Payload

(* The node's own steps. *)
LEMMA ChainType ==
  ASSUME ChainTypeOK, ChainNext
  PROVE  ChainTypeOK'
  <1> USE DEF ChainTypeOK
  <1>1. CASE Extend
    BY <1>1 DEF Extend
  <1>2. CASE Reorg
    BY <1>2, ChainAssumption DEF Reorg
  <1>3. CASE AdvanceL1
    <2>1. Num[l1Head] + 1 \in 0..RemoteTip
      BY <1>3 DEF AdvanceL1, RemoteTip
    <2> QED BY <1>3, <2>1, RemoteBlockNumber DEF AdvanceL1
  <1> QED BY <1>1, <1>2, <1>3 DEF ChainNext

(* The batch's variables, once dropped, are well formed. *)
LEMMA BackToPollType ==
  ASSUME BackToPoll, faults' \in 0..MaxFaults
  PROVE  IndexerTypeOK'
  BY DEF BackToPoll, IndexerTypeOK

(* The indexer's steps. *)
LEMMA IndexerType ==
  ASSUME ChainTypeOK, JournalTypeOK, IndexerTypeOK, IndexerNext
  PROVE  JournalTypeOK' /\ IndexerTypeOK'
  <1> USE IndexerAssumption
  <1>0. head \in Block /\ RemoteTip \in Height
    BY DEF ChainTypeOK, RemoteTip
  <1>1. CASE PollHeight
    BY <1>0, <1>1 DEF PollHeight, IndexerTypeOK, JournalTypeOK, dbVars
  <1>2. CASE PlanBatch
    <2>1. JournalTypeOK'
      BY <1>2 DEF PlanBatch, JournalTypeOK, dbVars
    <2>2. CASE NextBlock > latest
      BY <1>2, <2>1, <2>2, BackToPollType DEF PlanBatch, IndexerTypeOK
    <2>3. CASE ~(NextBlock > latest)
      <3>1. NextBlock \in Nat
        BY JournalAssumption DEF NextBlock, JournalTypeOK
      <3>2. /\ NextBlock <= latest /\ latest \in Height
            /\ NextBlock + BatchSize - 1 >= NextBlock
        BY <2>3, <3>1 DEF IndexerTypeOK
      <3>3. cursor' = NextBlock /\ batchEnd' \in Height /\ cursor' <= batchEnd'
        BY <1>2, <2>3, <3>1, <3>2 DEF PlanBatch
      <3> QED BY <1>2, <2>1, <2>3, <3>1, <3>2, <3>3 DEF PlanBatch, IndexerTypeOK
    <2> QED BY <2>2, <2>3
  <1>3. CASE FetchBlock
    <2>1. PICK n \in Wanted : /\ n <= RemoteTip
                              /\ fetched' = fetched \cup {RemotePayload(n)}
                              /\ ixPc' \in {"fetch", "commit"}
      BY <1>3 DEF FetchBlock
    <2>2. n \in 0..RemoteTip
      BY <1>0, <2>1 DEF Wanted, IndexerTypeOK
    <2>3. RemotePayload(n) \in Payload
      BY <1>0, <2>2, RemotePayloadType
    <2> QED BY <1>3, <2>1, <2>3 DEF FetchBlock, IndexerTypeOK, JournalTypeOK, dbVars
  <1>4. CASE FetchMissing
    BY <1>4, BackToPollType DEF FetchMissing, IndexerTypeOK, JournalTypeOK, dbVars
  <1>5. CASE CommitBlock
    <2>1. PICK p \in fetched :
            /\ ProcessAcceptedBlock(p)
            /\ \/ BackToPoll
               \/ /\ cursor # batchEnd
                  /\ ixPc' \in {"commit", "fetch"}
                  /\ cursor' = cursor + 1
                  /\ fetched' = fetched \ {p}
                  /\ UNCHANGED <<latest, batchEnd>>
      BY <1>5 DEF CommitBlock
    <2>2. p \in Payload
      BY DEF IndexerTypeOK
    <2>3. JournalTypeOK'
      BY <2>1, <2>2, ProcessAcceptedBlockType
    <2>4. CASE BackToPoll
      BY <1>5, <2>3, <2>4, BackToPollType DEF CommitBlock, IndexerTypeOK
    <2>5. CASE ~BackToPoll
      BY <1>5, <2>1, <2>3, <2>5 DEF CommitBlock, IndexerTypeOK
    <2> QED BY <2>4, <2>5
  <1>6. CASE CommitRejected
    BY <1>6, BackToPollType DEF CommitRejected, IndexerTypeOK, JournalTypeOK, dbVars
  <1>7. CASE IndexerFails
    BY <1>7, BackToPollType DEF IndexerFails, IndexerTypeOK, JournalTypeOK, dbVars
  <1> QED BY <1>1, <1>2, <1>3, <1>4, <1>5, <1>6, <1>7 DEF IndexerNext, IndexerStep

----------------------------------------------------------------------------
(* The indexer alone. *)

(* What a commit of the indexer alone keeps: no hole, no second row, and the
   stored blocks up to the checkpoint hang together. *)
LEMMA CommitKeepsLinkedChain ==
  ASSUME JournalTypeOK, OneActiveRow, LinkedChain, NEW p \in Payload,
         ProcessAcceptedBlock(p),
         cp[L2] = None => Num[p.block] = FirstBlock
  PROVE  LinkedChain'
  <1> DEFINE n == Num[p.block]
  <1>1. p.block \in Block /\ n \in Height /\ FirstBlock \in Height
    BY JournalAssumption DEF Payload, FirstBlock
  <1>2. journal' = JournalWith(p.block) /\ cp'[L2] = p.block
    BY DEF ProcessAcceptedBlock, CheckpointsAfter
  <1>3. journal'[p.block] = "active"
    BY <1>1, <1>2 DEF JournalWith
  <1> SUFFICES ASSUME NEW b \in Block, journal'[b] = "active",
                      Num[b] \in (FirstBlock + 1)..n
               PROVE  Parent[b] # None /\ journal'[Parent[b]] = "active"
    BY <1>2, <1>3 DEF LinkedChain, FirstBlock
  <1>4. b # Root /\ Parent[b] \in Block /\ Num[Parent[b]] = Num[b] - 1
    BY <1>1
  <1>5. cp[L2] # None
    BY <1>1
  <1>6. n = Num[cp[L2]] + 1 /\ Parent[p.block] = cp[L2] /\ cp[L2] \in Block
    BY <1>5 DEF ProcessAcceptedBlock, SequentialProgress, JournalTypeOK
  <1>7. CASE Num[b] = n
    <2>1. b = p.block
      BY <1>1, <1>2, <1>7 DEF JournalWith
    <2>2. journal[Parent[b]] = "active"
      BY <1>5, <1>6, <2>1 DEF LinkedChain
    <2>3. Num[Parent[b]] # n
      BY <1>1, <1>4, <1>7
    <2> QED BY <1>2, <1>4, <2>2, <2>3 DEF JournalWith
  <1>8. CASE Num[b] # n
    <2>1. journal[b] = "active" /\ Num[b] \in (FirstBlock + 1)..Num[cp[L2]]
      BY <1>1, <1>2, <1>6, <1>8 DEF JournalWith
    <2>2. journal[Parent[b]] = "active"
      BY <1>5, <2>1 DEF LinkedChain
    <2>3. Num[Parent[b]] # n
      BY <1>1, <1>4, <1>6, <2>1
    <2> QED BY <1>2, <1>4, <2>2, <2>3 DEF JournalWith
  <1> QED BY <1>7, <1>8

(* While there is no checkpoint the batch starts at INDEXER_START_BLOCK, and a
   batch that waits for its first commit was planned without one. *)
FirstBatch == ixPc \in {"fetch", "commit"} /\ cp[L2] = None => cursor = FirstBlock

AloneInv == /\ AloneTypeOK /\ OneActiveRow /\ StoredWithoutGaps /\ LinkedChain
            /\ FirstBatch
            /\ Seeded => cp[L2] # None

(* Without the promoter, the stored blocks form one gapless chain that ends in
   the checkpoint, for every fork the node may show and every fault. *)
THEOREM AloneStoresOneChain ==
  AloneSpec => [](OneActiveRow /\ StoredWithoutGaps /\ LinkedChain)
  <1>1. AloneInit => AloneInv
    <2> SUFFICES ASSUME AloneInit PROVE AloneInv
      OBVIOUS
    <2>1. AloneTypeOK
      BY ChainAssumption, IndexerAssumption
      DEF AloneInit, AloneTypeOK, ChainInit, ChainTypeOK, JournalInit,
          JournalTypeOK, IsSeed, RowState, IndexerInit, IndexerTypeOK
    <2>2. /\ journal = [b \in Block |-> IF IsSeed(b) THEN "active" ELSE "absent"]
          /\ cp[L2] = IF Seeded THEN Root ELSE None
          /\ derived = [h \in Height |-> IF Seeded /\ h = 0 THEN Root ELSE None]
      BY DEF AloneInit, JournalInit
    <2>3. OneActiveRow
      BY <2>2 DEF OneActiveRow, IsSeed
    <2>4. StoredWithoutGaps
      BY <2>2 DEF StoredWithoutGaps, FirstBlock, IsSeed
    <2>5. LinkedChain
      BY <2>2 DEF LinkedChain, FirstBlock, IsSeed
    <2>6. FirstBatch /\ (Seeded => cp[L2] # None)
      BY <2>2 DEF FirstBatch, AloneInit, IndexerInit
    <2> QED BY <2>1, <2>3, <2>4, <2>5, <2>6 DEF AloneInv
  <1>2. AloneInv /\ [AloneNext]_aloneVars => AloneInv'
    <2> SUFFICES ASSUME AloneInv, [AloneNext]_aloneVars PROVE AloneInv'
      OBVIOUS
    <2>0. ChainTypeOK /\ JournalTypeOK /\ IndexerTypeOK
      BY DEF AloneInv, AloneTypeOK
    <2>1. ASSUME UNCHANGED dbVars, AloneTypeOK', FirstBatch' PROVE AloneInv'
      BY <2>1 DEF AloneInv, dbVars, OneActiveRow, StoredWithoutGaps, LinkedChain,
         FirstBlock
    <2>2. CASE ChainNext /\ UNCHANGED <<dbVars, ixVars, faults>>
      <3>1. AloneTypeOK'
        BY <2>0, <2>2, ChainType
        DEF AloneTypeOK, JournalTypeOK, IndexerTypeOK, dbVars, ixVars
      <3>2. FirstBatch'
        BY <2>2 DEF AloneInv, FirstBatch, FirstBlock, dbVars, ixVars
      <3> QED BY <2>1, <2>2, <3>1, <3>2
    <2>3. CASE UNCHANGED aloneVars
      <3>1. AloneTypeOK'
        BY <2>0, <2>3 DEF AloneTypeOK, ChainTypeOK, JournalTypeOK, IndexerTypeOK,
           aloneVars, chainVars, dbVars, ixVars
      <3>2. FirstBatch'
        BY <2>3 DEF AloneInv, FirstBatch, FirstBlock, aloneVars, dbVars, ixVars
      <3> QED BY <2>1, <2>3, <3>1, <3>2 DEF aloneVars
    <2>4. CASE IndexerNext /\ UNCHANGED chainVars
      <3>1. AloneTypeOK'
        BY <2>0, <2>4, IndexerType DEF AloneTypeOK, ChainTypeOK, chainVars
      <3>2. CASE CommitBlock
        <4>1. PICK p \in fetched : Num[p.block] = cursor /\ ProcessAcceptedBlock(p)
          BY <3>2 DEF CommitBlock
        <4>2. p \in Payload /\ p.block \in Block
          BY <2>0 DEF IndexerTypeOK, Payload
        <4>3. cp[L2] = None => Num[p.block] = FirstBlock
          BY <3>2, <4>1 DEF AloneInv, FirstBatch, CommitBlock
        <4>4. cp'[L2] # None
          BY <4>1, <4>2 DEF ProcessAcceptedBlock, CheckpointsAfter
        <4> QED BY <2>0, <3>1, <4>1, <4>2, <4>3, <4>4, CommitKeepsOneActiveRow,
                   CommitKeepsStoredWithoutGaps, CommitKeepsLinkedChain
                DEF AloneInv, FirstBatch
      <3>3. CASE PlanBatch
        <4>1. FirstBatch'
          BY <3>3 DEF PlanBatch, BackToPoll, FirstBatch, NextBlock, FirstBlock,
             AloneInv, dbVars
        <4> QED BY <2>1, <3>1, <3>3, <4>1 DEF PlanBatch
      <3>4. CASE PollHeight \/ FetchBlock
        <4>1. FirstBatch'
          BY <3>4 DEF PollHeight, FetchBlock, FirstBatch, FirstBlock, AloneInv, dbVars
        <4> QED BY <2>1, <3>1, <3>4, <4>1 DEF PollHeight, FetchBlock
      <3>5. CASE FetchMissing \/ CommitRejected \/ IndexerFails
        <4>1. FirstBatch' /\ UNCHANGED dbVars
          BY <3>5 DEF FetchMissing, CommitRejected, IndexerFails, BackToPoll, FirstBatch
        <4> QED BY <2>1, <3>1, <4>1
      <3> QED BY <2>4, <3>2, <3>3, <3>4, <3>5 DEF IndexerNext, IndexerStep
    <2> QED BY <2>2, <2>3, <2>4 DEF AloneNext
  <1>3. AloneInv => OneActiveRow /\ StoredWithoutGaps /\ LinkedChain
    BY DEF AloneInv
  <1> QED BY <1>1, <1>2, <1>3, PTL DEF AloneSpec

(***************************************************************************)
(* Type correctness                                                        *)
(***************************************************************************)

(* The variables of a pass, once dropped, are well formed. *)
LEMMA EndOfPassType ==
  ASSUME EndOfPass, recon' \in {"none", "REPLAYING", "RESOLVED", "FAILED"}
  PROVE  PromoterTypeOK'
  BY DEF EndOfPass, PromoterTypeOK

(* The promoter's steps. *)
LEMMA PromoterType ==
  ASSUME ChainTypeOK, JournalTypeOK, PromoterTypeOK,
         PromoterStep \/ RewindRetry \/ PromoterFails
  PROVE  JournalTypeOK' /\ PromoterTypeOK'
  <1>0. head \in Block /\ RemoteTip \in Height
    BY DEF ChainTypeOK, RemoteTip
  <1>a. ReplayFrom \in 0..(MaxHeight + 1)
    BY DEF ReplayFrom, PromoterTypeOK
  <1>b. ASSUME EndOfPass, recon' = recon \/ recon' \in {"FAILED", "RESOLVED"}
        PROVE  PromoterTypeOK'
    BY <1>b, EndOfPassType DEF PromoterTypeOK
  <1>1. CASE ReadAnchor
    BY <1>1 DEF ReadAnchor, PromoterTypeOK, JournalTypeOK, dbVars
  <1>2. CASE ReadL2Tip
    <2>1. JournalTypeOK'
      BY <1>2 DEF ReadL2Tip, JournalTypeOK, dbVars
    <2>2. CASE cp[L2] = None
      BY <1>2, <1>b, <2>1, <2>2 DEF ReadL2Tip
    <2>3. CASE cp[L2] # None
      BY <1>2, <2>1, <2>3 DEF ReadL2Tip, PromoterTypeOK, JournalTypeOK
    <2> QED BY <2>2, <2>3
  <1>3. CASE ReadRemoteTip
    BY <1>0, <1>3 DEF ReadRemoteTip, PromoterTypeOK, JournalTypeOK, dbVars
  <1>4. CASE LoadActiveJournalWindow
    BY <1>4 DEF LoadActiveJournalWindow, PromoterTypeOK, JournalTypeOK, dbVars
  <1>5. CASE WindowDone
    BY <1>5, <1>b DEF WindowDone, JournalTypeOK, dbVars
  <1>6. CASE CompareRow
    <2>1. JournalTypeOK' /\ recon' = recon
      BY <1>6 DEF CompareRow, JournalTypeOK, dbVars
    <2>2. \/ EndOfPass
          \/ /\ fpPc' \in {"promote", "rewind"}
             /\ UNCHANGED <<anchor, l2Tip, remoteTip, window, replayAt, replayed>>
      BY <1>6 DEF CompareRow
    <2> QED BY <1>b, <2>1, <2>2 DEF PromoterTypeOK
  <1>7. CASE CompareMissing
    BY <1>7, <1>b DEF CompareMissing, JournalTypeOK, dbVars
  <1>8. CASE PromoteRow
    <2>1. PICK b \in window : PromoteBlockToL1(b) /\ window' = window \ {b}
      BY <1>8 DEF PromoteRow
    <2>2. b \in Block
      BY DEF PromoterTypeOK
    <2>3. JournalTypeOK'
      BY <2>1, <2>2, PromoteBlockToL1Type
    <2> QED BY <1>8, <2>1, <2>3 DEF PromoteRow, PromoterTypeOK
  <1>9. CASE RewindDelete
    BY <1>9 DEF RewindDelete, PromoterTypeOK, JournalTypeOK
  <1>10. CASE RewindCommit
    <2>1. JournalTypeOK'
      BY <1>10 DEF RewindCommit, Delete, JournalTypeOK, RowState, PromoterTypeOK
    <2> QED BY <1>10, <1>a, <2>1 DEF RewindCommit, PromoterTypeOK
  <1>11. CASE RewindRetry
    BY <1>11 DEF RewindRetry, PromoterTypeOK, JournalTypeOK
  <1>12. CASE ReadReplayTip
    BY <1>0, <1>12 DEF ReadReplayTip, PromoterTypeOK, JournalTypeOK, dbVars
  <1>13. CASE ReplayFetch
    <2>1. replayAt \in 0..RemoteTip
      BY <1>0, <1>13 DEF ReplayFetch, PromoterTypeOK
    <2>2. RemotePayload(replayAt) \in Payload
      BY <1>0, <2>1, RemotePayloadType
    <2>3. RemotePayload(replayAt) # None
      BY <2>2, PayloadIsNotNone
    <2> QED BY <1>0, <1>13, <2>1, <2>2, <2>3
         DEF ReplayFetch, PromoterTypeOK, JournalTypeOK, dbVars
  <1>14. CASE ReplayCommit
    <2>1. replayed \in Payload /\ replayAt \in Height
      BY <1>14 DEF ReplayCommit, PromoterTypeOK
    <2>2. JournalTypeOK'
      BY <1>14, <2>1, ProcessAcceptedBlockType DEF ReplayCommit
    <2> QED BY <1>14, <2>1, <2>2 DEF ReplayCommit, PromoterTypeOK
  <1>15. CASE ReplayRejected
    BY <1>15, <1>b DEF ReplayRejected, JournalTypeOK, dbVars
  <1>16. CASE ReplayFinished
    BY <1>16, <1>b DEF ReplayFinished, JournalTypeOK, dbVars
  <1>17. CASE PromoterFails
    <2>1. JournalTypeOK'
      BY <1>17 DEF PromoterFails, JournalTypeOK
    <2>2. recon' = recon \/ recon' \in {"FAILED", "RESOLVED"}
      BY <1>17 DEF PromoterFails, PassFails, PromoterCrashes
    <2> QED BY <1>17, <1>b, <2>1, <2>2 DEF PromoterFails
  <1> QED BY <1>1, <1>2, <1>3, <1>4, <1>5, <1>6, <1>7, <1>8, <1>9, <1>10, <1>11,
            <1>12, <1>13, <1>14, <1>15, <1>16, <1>17 DEF PromoterStep

(* Every variable keeps its type in every run. *)
THEOREM TypeCorrect == Spec => []TypeOK
  <1>1. Init => TypeOK
    <2> SUFFICES ASSUME Init PROVE TypeOK
      OBVIOUS
    <2>1. ChainTypeOK
      BY ChainAssumption DEF Init, ChainInit, ChainTypeOK
    <2>2. JournalTypeOK
      BY DEF Init, JournalInit, JournalTypeOK, IsSeed, RowState
    <2>3. IndexerTypeOK
      BY IndexerAssumption DEF Init, IndexerInit, IndexerTypeOK
    <2>4. PromoterTypeOK
      BY DEF Init, PromoterInit, PromoterTypeOK
    <2> QED BY <2>1, <2>2, <2>3, <2>4 DEF TypeOK
  <1>2. TypeOK /\ [Next]_vars => TypeOK'
    <2> SUFFICES ASSUME TypeOK, [Next]_vars PROVE TypeOK'
      OBVIOUS
    <2>0. ChainTypeOK /\ JournalTypeOK /\ IndexerTypeOK /\ PromoterTypeOK
      BY DEF TypeOK
    <2>1. CASE ChainNext /\ UNCHANGED <<dbVars, ixVars, fpVars, faults>>
      BY <2>0, <2>1, ChainType DEF TypeOK, JournalTypeOK, IndexerTypeOK,
         PromoterTypeOK, dbVars, ixVars, fpVars
    <2>2. CASE IndexerNext /\ UNCHANGED <<chainVars, fpVars>>
      BY <2>0, <2>2, IndexerType DEF TypeOK, ChainTypeOK, PromoterTypeOK,
         chainVars, fpVars
    <2>3. CASE /\ PromoterStep \/ RewindRetry \/ PromoterFails
               /\ UNCHANGED <<chainVars, ixVars>>
               /\ faults' \in 0..MaxFaults
      BY <2>0, <2>3, PromoterType DEF TypeOK, ChainTypeOK, IndexerTypeOK,
         chainVars, ixVars
    <2>4. CASE UNCHANGED vars
      BY <2>0, <2>4 DEF TypeOK, ChainTypeOK, JournalTypeOK, IndexerTypeOK,
         PromoterTypeOK, vars, chainVars, dbVars, ixVars, fpVars
    <2>5. (RewindRetry \/ PromoterFails) => faults' \in 0..MaxFaults
      BY <2>0, IndexerAssumption DEF RewindRetry, PromoterFails, IndexerTypeOK
    <2>6. faults' = faults => faults' \in 0..MaxFaults
      BY <2>0 DEF IndexerTypeOK
    <2> QED BY <2>1, <2>2, <2>3, <2>4, <2>5, <2>6 DEF Next
  <1> QED BY <1>1, <1>2, PTL DEF Spec

(***************************************************************************)
(* The stored blocks                                                       *)
(***************************************************************************)

----------------------------------------------------------------------------
(* The inductive invariant.  The promoter acts on what it read earlier: the
   anchor, the L2 tip, the rows of the window.  Meanwhile only commits happen,
   and they are above the tip, so what it read is still so. *)

(* Both checkpoints exist, and so does the anchor of a pass. *)
CheckpointsExist == /\ cp[L1] # None /\ cp[L2] # None
                    /\ fpPc # "idle" => anchor # None

Walking == fpPc \in {"readRemote", "load", "compare", "promote", "rewind",
                     "rewindCommit"}
InWindow == fpPc \in {"compare", "promote", "rewind", "rewindCommit"}

TipIsStored == Walking => l2Tip <= Num[cp[L2]]

WindowIsStored == InWindow =>
  \A b \in window : /\ journal[b] = "active"
                    /\ Num[b] \in (Num[anchor] + 1)..l2Tip

RowIsPending == fpPc \in {"promote", "rewind", "rewindCommit"} => window # {}

LocksAboveAnchor == locked # {} =>
  fpPc = "rewindCommit" /\ \A h \in locked : h > Num[anchor]

PassInv == /\ CheckpointsExist /\ TipIsStored /\ WindowIsStored /\ RowIsPending
           /\ LocksAboveAnchor

StoreInv == OneActiveRow /\ StoredWithoutGaps /\ FinalityAgrees

IInv == TypeOK /\ PassInv /\ StoreInv

----------------------------------------------------------------------------

(* A commit above the tip the pass has read disturbs nothing the pass relies
   on. *)
LEMMA CommitKeepsPass ==
  ASSUME TypeOK, PassInv, NEW p \in Payload, ProcessAcceptedBlock(p),
         UNCHANGED <<fpPc, anchor, l2Tip, window>>
  PROVE  PassInv'
  <1>1. JournalTypeOK /\ PromoterTypeOK
    BY DEF TypeOK
  <1>2. p.block \in Block /\ cp[L2] \in Block /\ cp[L2] # None
    BY <1>1 DEF Payload, PassInv, CheckpointsExist, JournalTypeOK
  <1>3. Num[p.block] = Num[cp[L2]] + 1 /\ cp'[L2] = p.block
    BY <1>2 DEF ProcessAcceptedBlock, SequentialProgress, CheckpointsAfter
  <1>4. CheckpointsExist'
    BY <1>2 DEF PassInv, CheckpointsExist, ProcessAcceptedBlock, CheckpointsAfter
  <1>5. TipIsStored'
    BY <1>1, <1>2, <1>3 DEF PassInv, TipIsStored, Walking, PromoterTypeOK
  <1>6. WindowIsStored'
    <2> SUFFICES ASSUME InWindow, NEW b \in window
                 PROVE  journal'[b] = "active" /\ Num[b] \in (Num[anchor] + 1)..l2Tip
      BY DEF WindowIsStored, InWindow
    <2>1. journal[b] = "active" /\ Num[b] \in (Num[anchor] + 1)..l2Tip /\ b \in Block
      BY <1>1 DEF PassInv, WindowIsStored, PromoterTypeOK
    <2>2. l2Tip <= Num[cp[L2]]
      BY DEF PassInv, TipIsStored, Walking, InWindow
    <2>3. Num[b] # Num[p.block]
      BY <1>1, <1>2, <1>3, <2>1, <2>2 DEF PromoterTypeOK
    <2> QED BY <1>2, <2>1, <2>3 DEF ProcessAcceptedBlock, JournalWith
  <1>7. RowIsPending' /\ LocksAboveAnchor'
    BY DEF PassInv, RowIsPending, LocksAboveAnchor, ProcessAcceptedBlock
  <1> QED BY <1>4, <1>5, <1>6, <1>7 DEF PassInv

(* A commit keeps the stored blocks. *)
LEMMA CommitKeepsStore ==
  ASSUME TypeOK, PassInv, StoreInv, NEW p \in Payload, ProcessAcceptedBlock(p)
  PROVE  StoreInv'
  BY CommitKeepsOneActiveRow, CommitKeepsStoredWithoutGaps,
     CommitKeepsFinalityAgrees
  DEF TypeOK, PassInv, CheckpointsExist, StoreInv

(* The pass ends: nothing it read matters any more. *)
LEMMA EndOfPassKeepsPass ==
  ASSUME PassInv, EndOfPass, locked' = {}, cp' = cp
  PROVE  PassInv'
  BY DEF PassInv, EndOfPass, CheckpointsExist, TipIsStored, Walking,
     WindowIsStored, InWindow, RowIsPending, LocksAboveAnchor

(* Steps that write no row keep the stored blocks. *)
LEMMA SameRowsKeepStore ==
  ASSUME StoreInv, UNCHANGED <<cp, journal, finality, derived, rawFinality>>
  PROVE  StoreInv'
  BY DEF StoreInv, OneActiveRow, StoredWithoutGaps, FinalityAgrees, FirstBlock

(* The rewind: the rows above the anchor go, those up to it stay. *)
LEMMA RewindKeepsStore ==
  ASSUME Seeded, IInv, RewindCommit
  PROVE  StoreInv' /\ PassInv'
  <1>1. JournalTypeOK /\ PromoterTypeOK /\ PassInv /\ StoreInv
    BY DEF IInv, TypeOK
  <1>2. /\ anchor \in Block /\ cp[L2] \in Block /\ cp[L2] # None
        /\ ReplayFrom = Num[anchor] + 1
    BY <1>1 DEF PassInv, CheckpointsExist, RewindCommit, PromoterTypeOK,
       JournalTypeOK, ReplayFrom
  <1>3. Num[anchor] < Num[cp[L2]]
    <2>1. PICK b \in window : Num[b] \in (Num[anchor] + 1)..l2Tip
      BY <1>1 DEF PassInv, RowIsPending, WindowIsStored, InWindow, RewindCommit
    <2>2. l2Tip <= Num[cp[L2]]
      BY <1>1 DEF PassInv, TipIsStored, Walking, RewindCommit
    <2> QED BY <1>1, <1>2, <2>1, <2>2 DEF PromoterTypeOK
  <1>4. /\ cp' = [cp EXCEPT ![L2] = anchor]
        /\ \A b \in Block : journal'[b] = "active" => journal[b] = "active"
        /\ \A b \in Block : journal[b] = "active" /\ Num[b] <= Num[anchor]
                              => journal'[b] = "active"
    BY <1>2 DEF RewindCommit
  <1>5. /\ \A h \in Height : h <= Num[anchor] => derived'[h] = derived[h]
        /\ \A h \in Height : derived'[h] # None =>
             derived'[h] = derived[h] /\ rawFinality'[h] = rawFinality[h]
    <2>1. \A h \in locked : h > Num[anchor]
      BY <1>1 DEF PassInv, LocksAboveAnchor
    <2> QED BY <1>1, <1>2, <2>1 DEF RewindCommit, Delete, JournalTypeOK
  <1>6. OneActiveRow'
    BY <1>1, <1>4 DEF StoreInv, OneActiveRow
  <1>7. StoredWithoutGaps'
    <2> SUFFICES ASSUME NEW h \in FirstBlock..Num[anchor]
                 PROVE  \E b \in Block : /\ Num[b] = h /\ journal'[b] = "active"
                                         /\ derived'[h] = b
      BY <1>1, <1>4 DEF StoredWithoutGaps, FirstBlock, JournalTypeOK
    <2>1. h \in FirstBlock..Num[cp[L2]] /\ h \in Height /\ h <= Num[anchor]
      BY <1>2, <1>3 DEF FirstBlock
    <2>2. PICK b \in Block : Num[b] = h /\ journal[b] = "active" /\ derived[h] = b
      BY <1>1, <1>2, <2>1 DEF StoreInv, StoredWithoutGaps
    <2> QED BY <1>4, <1>5, <2>1, <2>2
  <1>8. FinalityAgrees'
    <2> SUFFICES ASSUME NEW b \in Block, journal'[b] = "active",
                        derived'[Num[b]] = b
                 PROVE  rawFinality'[Num[b]] = finality'[b]
      BY DEF FinalityAgrees
    <2>1. /\ derived'[Num[b]] = derived[Num[b]]
          /\ rawFinality'[Num[b]] = rawFinality[Num[b]]
      BY <1>5
    <2>2. journal[b] = "active" /\ finality' = finality
      BY <1>4 DEF RewindCommit
    <2> QED BY <1>1, <2>1, <2>2 DEF StoreInv, FinalityAgrees
  <1>9. PassInv'
    BY <1>1, <1>2, <1>4 DEF RewindCommit, PassInv, CheckpointsExist, TipIsStored,
       Walking, WindowIsStored, InWindow, RowIsPending, LocksAboveAnchor,
       JournalTypeOK
  <1> QED BY <1>6, <1>7, <1>8, <1>9 DEF StoreInv

(* A promotion writes the same finality on the journal row and on the raw rows
   of its height, and both belong to the same block. *)
LEMMA PromoteKeepsStore ==
  ASSUME IInv, PromoteRow
  PROVE  StoreInv' /\ PassInv'
  <1>1. JournalTypeOK /\ PromoterTypeOK /\ PassInv /\ StoreInv
    BY DEF IInv, TypeOK
  <1>2. PICK b \in window : PromoteBlockToL1(b) /\ window' = window \ {b}
    BY DEF PromoteRow
  <1>3. b \in Block /\ journal[b] = "active"
    BY <1>1 DEF PromoterTypeOK, PassInv, WindowIsStored, InWindow, PromoteRow
  <1>4. cp'[L2] = cp[L2] /\ cp'[L1] = b /\ b # None
    BY <1>1, <1>2, <1>3 DEF PromoteBlockToL1, JournalTypeOK
  <1>5. OneActiveRow' /\ StoredWithoutGaps'
    BY <1>1, <1>2, <1>4 DEF StoreInv, OneActiveRow, StoredWithoutGaps,
       PromoteBlockToL1, FirstBlock
  <1>6. FinalityAgrees'
    <2> SUFFICES ASSUME NEW c \in Block, journal[c] = "active",
                        derived[Num[c]] = c
                 PROVE  rawFinality'[Num[c]] = finality'[c]
      BY <1>2 DEF FinalityAgrees, PromoteBlockToL1
    <2>1. rawFinality[Num[c]] = finality[c]
      BY <1>1 DEF StoreInv, FinalityAgrees
    <2>2. CASE Num[c] = Num[b]
      <3>1. c = b
        BY <1>1, <1>3, <2>2 DEF StoreInv, OneActiveRow
      <3> QED BY <1>1, <1>2, <1>3, <3>1 DEF PromoteBlockToL1, JournalTypeOK
    <2>3. CASE Num[c] # Num[b]
      BY <1>1, <1>2, <1>3, <2>1, <2>3 DEF PromoteBlockToL1, JournalTypeOK
    <2> QED BY <2>2, <2>3
  <1>7. PassInv'
    <2>1. fpPc = "promote" /\ fpPc' = "compare"
          /\ UNCHANGED <<anchor, l2Tip, journal, locked>>
      BY <1>2 DEF PromoteRow, PromoteBlockToL1
    <2> QED BY <1>1, <1>2, <1>4, <2>1 DEF PassInv, CheckpointsExist, TipIsStored,
         Walking, WindowIsStored, InWindow, RowIsPending, LocksAboveAnchor
  <1> QED BY <1>5, <1>6, <1>7 DEF StoreInv

(* The promoter's steps. *)
LEMMA PromoterKeepsInv ==
  ASSUME Seeded, IInv, PromoterStep \/ RewindRetry \/ PromoterFails
  PROVE  PassInv' /\ StoreInv'
  <1>0. JournalTypeOK /\ PromoterTypeOK /\ PassInv /\ StoreInv
    BY DEF IInv, TypeOK
  <1>a. fpPc # "rewindCommit" => locked = {}
    BY <1>0 DEF PassInv, LocksAboveAnchor
  <1>b. ASSUME EndOfPass, UNCHANGED dbVars, fpPc # "rewindCommit"
        PROVE  PassInv' /\ StoreInv'
    BY <1>0, <1>a, <1>b, EndOfPassKeepsPass, SameRowsKeepStore DEF dbVars
  <1> DEFINE Same == UNCHANGED dbVars
  <1>c. ASSUME Same PROVE StoreInv'
    BY <1>0, <1>c, SameRowsKeepStore DEF dbVars
  <1>1. CASE ReadAnchor
    BY <1>0, <1>1, <1>c DEF ReadAnchor, dbVars, PassInv, CheckpointsExist,
       TipIsStored, Walking, WindowIsStored, InWindow, RowIsPending,
       LocksAboveAnchor
  <1>2. CASE ReadL2Tip
    <2>1. /\ Same /\ fpPc = "readTip" /\ fpPc' = "readRemote"
          /\ l2Tip' = Num[cp[L2]]
          /\ UNCHANGED <<anchor, remoteTip, window>>
      BY <1>0, <1>2 DEF ReadL2Tip, PassInv, CheckpointsExist
    <2> QED BY <1>0, <1>c, <2>1 DEF dbVars, PassInv, CheckpointsExist,
         TipIsStored, Walking, WindowIsStored, InWindow, RowIsPending,
         LocksAboveAnchor, JournalTypeOK
  <1>3. CASE ReadRemoteTip
    BY <1>0, <1>3, <1>c DEF ReadRemoteTip, dbVars, PassInv, CheckpointsExist,
       TipIsStored, Walking, WindowIsStored, InWindow, RowIsPending,
       LocksAboveAnchor
  <1>4. CASE LoadActiveJournalWindow
    <2>1. anchor # None /\ ReplayFrom = Num[anchor] + 1
      BY <1>0, <1>4 DEF LoadActiveJournalWindow, PassInv, CheckpointsExist,
         ReplayFrom
    <2>2. WindowIsStored'
      BY <1>4, <2>1 DEF LoadActiveJournalWindow, WindowIsStored, dbVars
    <2> QED BY <1>0, <1>4, <1>c, <2>2 DEF LoadActiveJournalWindow, dbVars, PassInv,
         CheckpointsExist, TipIsStored, Walking, RowIsPending, LocksAboveAnchor
  <1>5. CASE WindowDone \/ CompareMissing \/ ReplayRejected \/ ReplayFinished
    BY <1>b, <1>5 DEF WindowDone, CompareMissing, ReplayRejected, ReplayFinished
  <1>6. CASE CompareRow
    <2>1. Same /\ fpPc = "compare" /\ window # {}
      BY <1>6 DEF CompareRow
    <2>2. \/ EndOfPass
          \/ /\ fpPc' \in {"promote", "rewind"}
             /\ UNCHANGED <<anchor, l2Tip, remoteTip, window, replayAt, replayed>>
      BY <1>6 DEF CompareRow
    <2>3. CASE ~EndOfPass
      BY <1>0, <1>c, <2>1, <2>2, <2>3 DEF dbVars, PassInv, CheckpointsExist,
         TipIsStored, Walking, WindowIsStored, InWindow, RowIsPending,
         LocksAboveAnchor
    <2> QED BY <1>b, <2>1, <2>2, <2>3
  <1>7. CASE PromoteRow
    BY <1>7, PromoteKeepsStore
  <1>8. CASE RewindDelete
    <2>1. anchor \in Block /\ ReplayFrom = Num[anchor] + 1
      BY <1>0, <1>8 DEF RewindDelete, PassInv, CheckpointsExist, ReplayFrom,
         PromoterTypeOK
    <2>2. \A h \in locked' : h > Num[anchor]
      BY <1>8, <2>1 DEF RewindDelete
    <2>3. StoreInv'
      BY <1>0, <1>8, SameRowsKeepStore DEF RewindDelete
    <2> QED BY <1>0, <1>8, <2>2, <2>3 DEF RewindDelete, PassInv, CheckpointsExist,
         TipIsStored, Walking, WindowIsStored, InWindow, RowIsPending,
         LocksAboveAnchor
  <1>9. CASE RewindCommit
    BY <1>9, RewindKeepsStore
  <1>10. CASE RewindRetry
    <2>1. StoreInv'
      BY <1>0, <1>10, SameRowsKeepStore DEF RewindRetry
    <2> QED BY <1>0, <1>10, <2>1 DEF RewindRetry, PassInv, CheckpointsExist,
         TipIsStored, Walking, WindowIsStored, InWindow, RowIsPending,
         LocksAboveAnchor
  <1>11. CASE ReadReplayTip \/ ReplayFetch
    BY <1>0, <1>11, <1>c DEF ReadReplayTip, ReplayFetch, dbVars, PassInv,
       CheckpointsExist, TipIsStored, Walking, WindowIsStored, InWindow,
       RowIsPending, LocksAboveAnchor
  <1>12. CASE ReplayCommit
    <2>1. replayed \in Payload /\ ProcessAcceptedBlock(replayed)
      BY <1>0, <1>12 DEF ReplayCommit, PromoterTypeOK
    <2>2. StoreInv'
      BY <1>0, <2>1, CommitKeepsStore DEF IInv
    <2>3. cp'[L1] # None /\ cp'[L2] # None
      BY <1>0, <2>1 DEF ProcessAcceptedBlock, CheckpointsAfter, PassInv,
         CheckpointsExist, Payload
    <2>4. locked' = {}
      BY <1>a, <1>12, <2>1 DEF ReplayCommit, ProcessAcceptedBlock
    <2> QED BY <1>0, <1>12, <2>2, <2>3, <2>4 DEF ReplayCommit, PassInv,
         CheckpointsExist, TipIsStored, Walking, WindowIsStored, InWindow,
         RowIsPending, LocksAboveAnchor
  <1>13. CASE PromoterFails
    BY <1>0, <1>13, EndOfPassKeepsPass, SameRowsKeepStore DEF PromoterFails
  <1> QED BY <1>1, <1>2, <1>3, <1>4, <1>5, <1>6, <1>7, <1>8, <1>9, <1>10, <1>11,
            <1>12, <1>13 DEF PromoterStep

(* Every step keeps the inductive invariant. *)
LEMMA StepKeepsInv ==
  ASSUME Seeded, IInv, [Next]_vars
  PROVE  PassInv' /\ StoreInv'
  <1>0. TypeOK /\ JournalTypeOK /\ IndexerTypeOK /\ PassInv /\ StoreInv
    BY DEF IInv, TypeOK
  <1>1. ASSUME UNCHANGED <<dbVars, fpVars>> PROVE PassInv' /\ StoreInv'
    BY <1>0, <1>1, SameRowsKeepStore DEF dbVars, fpVars, PassInv, CheckpointsExist,
       TipIsStored, Walking, WindowIsStored, InWindow, RowIsPending,
       LocksAboveAnchor
  <1>2. CASE IndexerNext /\ UNCHANGED <<chainVars, fpVars>>
    <2>1. CASE CommitBlock
      <3>1. PICK p \in fetched : ProcessAcceptedBlock(p)
        BY <2>1 DEF CommitBlock
      <3>2. p \in Payload
        BY <1>0 DEF IndexerTypeOK
      <3> QED BY <1>0, <1>2, <3>1, <3>2, CommitKeepsPass, CommitKeepsStore DEF fpVars
    <2>2. CASE ~CommitBlock
      <3>1. UNCHANGED dbVars
        BY <1>2, <2>2 DEF IndexerNext, IndexerStep, PollHeight, PlanBatch,
           FetchBlock, FetchMissing, CommitRejected, IndexerFails
      <3> QED BY <1>1, <1>2, <3>1
    <2> QED BY <2>1, <2>2
  <1>3. CASE PromoterStep \/ RewindRetry \/ PromoterFails
    BY <1>3, PromoterKeepsInv
  <1>4. CASE UNCHANGED vars
    BY <1>1, <1>4 DEF vars
  <1> QED BY <1>1, <1>2, <1>3, <1>4 DEF Next

(* The database an anchored deployment starts from satisfies it. *)
LEMMA InitSatisfiesInv == ASSUME Seeded, Init PROVE PassInv /\ StoreInv
  <1>1. /\ journal = [b \in Block |-> IF b = Root THEN "active" ELSE "absent"]
        /\ cp = [l \in Lane |-> Root]
        /\ derived = [h \in Height |-> IF h = 0 THEN Root ELSE None]
        /\ finality = [b \in Block |-> IF b = Root THEN L1 ELSE None]
        /\ rawFinality = [h \in Height |-> IF h = 0 THEN L1 ELSE None]
        /\ locked = {} /\ fpPc = "idle"
    BY DEF Init, JournalInit, IsSeed, PromoterInit
  <1>2. OneActiveRow /\ FinalityAgrees
    BY <1>1 DEF OneActiveRow, FinalityAgrees
  <1>3. StoredWithoutGaps
    BY <1>1 DEF StoredWithoutGaps, FirstBlock
  <1>4. PassInv
    BY <1>1 DEF PassInv, CheckpointsExist, TipIsStored, Walking, WindowIsStored,
       InWindow, RowIsPending, LocksAboveAnchor
  <1> QED BY <1>2, <1>3, <1>4 DEF StoreInv

(* The inductive invariant holds in every run of an anchored deployment. *)
THEOREM Invariance == ASSUME Seeded PROVE Spec => []IInv
  <1>1. Init => PassInv /\ StoreInv
    BY InitSatisfiesInv
  <1>2. TypeOK /\ (PassInv /\ StoreInv) /\ [Next]_vars => (PassInv /\ StoreInv)'
    BY StepKeepsInv DEF IInv
  <1>3. IInv <=> TypeOK /\ (PassInv /\ StoreInv)
    BY DEF IInv
  <1> QED BY <1>1, <1>2, <1>3, TypeCorrect, PTL DEF Spec

(* No height up to the checkpoint is missing or mixed, and its finality is told
   the same way twice, in every run of an anchored deployment. *)
THEOREM StoreIsSound ==
  ASSUME Seeded
  PROVE  Spec => [](OneActiveRow /\ StoredWithoutGaps /\ FinalityAgrees)
  <1>1. IInv => OneActiveRow /\ StoredWithoutGaps /\ FinalityAgrees
    BY DEF IInv, StoreInv
  <1> QED BY <1>1, Invariance, PTL

(* Never two active rows of one height, in every run of an anchored deployment:
   markConflictingBlockRows and the rewind between them leave one. *)
THEOREM OneRowPerHeight == ASSUME Seeded PROVE Spec => []OneActiveRow
  <1>1. Spec => [](OneActiveRow /\ StoredWithoutGaps /\ FinalityAgrees)
    BY StoreIsSound
  <1> QED BY <1>1, PTL

(* The journal and the raw tables never tell a different finality of a stored
   block, although the promotion finds the one by hash and the other by number. *)
THEOREM FinalityIsToldOnce == ASSUME Seeded PROVE Spec => []FinalityAgrees
  <1>1. Spec => [](OneActiveRow /\ StoredWithoutGaps /\ FinalityAgrees)
    BY StoreIsSound
  <1> QED BY <1>1, PTL

(***************************************************************************)
(* What the store says about finality. A status answered by the node may   *)
(* be old when it is written; it is never wrong, because what the node has *)
(* accepted on L1 stays accepted. Then the moves of the L2 checkpoint, only *)
(* to a child or back to a final block, and with them the refinement of the *)
(* log of module BlockLog.                                                 *)
(***************************************************************************)

Final(b) == b \in Line[l1Head]
FinalAnswer(p) == p.status = L1 => Final(p.block)

(* Everything said to be accepted on L1, wherever it is kept: in the node, the
   checkpoints, the journal, the payloads in flight, the pass. *)
FinalInv ==
  /\ l1Head \in Line[head]
  /\ Final(cp[L1])
  /\ \A b \in Block : finality[b] = L1 => Final(b)
  /\ \A p \in fetched : FinalAnswer(p)
  /\ replayed # None => FinalAnswer(replayed)
  /\ fpPc # "idle" => Final(anchor)
  /\ fpPc = "promote" => \A b \in window : IsNextRow(b) => Final(b)

(* The line of final blocks only grows. *)
LEMMA FinalGrows ==
  ASSUME ChainTypeOK, l1Head \in Line[head], ChainNext
  PROVE  l1Head' \in Line[head'] /\ Line[l1Head] \subseteq Line[l1Head']
  <1> USE Lines DEF ChainTypeOK
  <1>1. CASE Extend
    <2>1. head' \in Block /\ Parent[head'] = head /\ head # None /\ l1Head' = l1Head
      BY <1>1 DEF Extend
    <2>2. Line[head'] = {head'} \cup Line[head]
      BY <2>1
    <2> QED BY <2>1, <2>2
  <1>2. CASE Reorg
    BY <1>2 DEF Reorg
  <1>3. CASE AdvanceL1
    <2>1. Num[l1Head] + 1 \in 0..RemoteTip /\ head' = head
          /\ l1Head' = RemoteBlock(Num[l1Head] + 1)
      BY <1>3 DEF AdvanceL1, RemoteTip
    <2>2. l1Head' \in Line[head] /\ l1Head' \in Block
          /\ Num[l1Head'] = Num[l1Head] + 1
      BY <2>1, RemoteBlockNumber
    <2>3. Num[l1Head] <= Num[l1Head']
      BY <2>2
    <2>4. l1Head \in Line[l1Head']
      BY <2>2, <2>3
    <2> QED BY <2>1, <2>2, <2>4
  <1> QED BY <1>1, <1>2, <1>3 DEF ChainNext

(* What the node answers about finality is so. *)
LEMMA AnswersAreFinal ==
  ASSUME ChainTypeOK, l1Head \in Line[head], NEW n \in 0..RemoteTip
  PROVE  FinalAnswer(RemotePayload(n))
  <1>1. RemoteBlock(n) \in Line[head] /\ Num[RemoteBlock(n)] = n
    BY RemoteBlockNumber DEF ChainTypeOK
  <1>2. RemoteStatus(n) = L1 => n <= Num[l1Head]
    BY DEF RemoteStatus
  <1> QED BY <1>1, <1>2, Lines
       DEF FinalAnswer, Final, RemotePayload, ChainTypeOK

(* A commit writes the status it was answered, on the row and as the L1
   checkpoint. *)
LEMMA CommitKeepsFinal ==
  ASSUME JournalTypeOK, FinalInv, NEW p \in Payload, FinalAnswer(p),
         ProcessAcceptedBlock(p), UNCHANGED l1Head
  PROVE  Final(cp[L1])' /\ \A b \in Block : finality'[b] = L1 => Final(b)'
  BY DEF FinalInv, FinalAnswer, Final, ProcessAcceptedBlock, CheckpointsAfter,
     JournalTypeOK, Payload

(* The node's steps only make more blocks final. *)
LEMMA ChainKeepsFinal ==
  ASSUME TypeOK, FinalInv, ChainNext, UNCHANGED <<dbVars, ixVars, fpVars>>
  PROVE  FinalInv'
  <1>1. l1Head' \in Line[head'] /\ Line[l1Head] \subseteq Line[l1Head']
    BY FinalGrows DEF TypeOK, FinalInv
  <1>2. UNCHANGED <<cp, finality, fetched, replayed, fpPc, anchor, window>>
    BY DEF dbVars, ixVars, fpVars
  <1> QED BY <1>1, <1>2 DEF FinalInv, Final, FinalAnswer, IsNextRow

(* The indexer's steps. *)
LEMMA IndexerKeepsFinal ==
  ASSUME TypeOK, FinalInv, IndexerNext, UNCHANGED <<chainVars, fpVars>>
  PROVE  FinalInv'
  <1>0. /\ UNCHANGED <<head, l1Head, replayed, fpPc, anchor, window>>
        /\ ChainTypeOK /\ JournalTypeOK /\ IndexerTypeOK
    BY DEF chainVars, fpVars, TypeOK
  <1>1. ASSUME UNCHANGED dbVars, \A p \in fetched' : FinalAnswer(p)
        PROVE  FinalInv'
    BY <1>0, <1>1 DEF FinalInv, Final, FinalAnswer, IsNextRow, dbVars
  <1>2. CASE FetchBlock
    <2>1. PICK n \in Wanted : n <= RemoteTip
                              /\ fetched' = fetched \cup {RemotePayload(n)}
      BY <1>2 DEF FetchBlock
    <2>2. n \in 0..RemoteTip
      BY <1>0, <2>1 DEF Wanted, IndexerTypeOK, RemoteTip, ChainTypeOK
    <2>3. FinalAnswer(RemotePayload(n))
      BY <1>0, <2>2, AnswersAreFinal DEF FinalInv
    <2> QED BY <1>1, <1>2, <2>1, <2>3 DEF FetchBlock, FinalInv
  <1>3. CASE CommitBlock
    <2>1. PICK p \in fetched : ProcessAcceptedBlock(p) /\ fetched' \subseteq fetched
      BY <1>3 DEF CommitBlock, BackToPoll
    <2>2. p \in Payload /\ FinalAnswer(p)
      BY <1>0, <2>1 DEF IndexerTypeOK, FinalInv
    <2>3. Final(cp[L1])' /\ \A b \in Block : finality'[b] = L1 => Final(b)'
      BY <1>0, <2>1, <2>2, CommitKeepsFinal
    <2> QED BY <1>0, <2>1, <2>3 DEF FinalInv, Final, FinalAnswer, IsNextRow
  <1>4. CASE PollHeight \/ PlanBatch \/ FetchMissing \/ CommitRejected \/ IndexerFails
    <2>1. UNCHANGED dbVars /\ fetched' \subseteq fetched
      BY <1>4 DEF PollHeight, PlanBatch, FetchMissing, CommitRejected,
         IndexerFails, BackToPoll
    <2> QED BY <1>1, <2>1 DEF FinalInv
  <1> QED BY <1>2, <1>3, <1>4 DEF IndexerNext, IndexerStep

(* The promoter's steps. *)
LEMMA PromoterKeepsFinal ==
  ASSUME IInv, FinalInv, PromoterStep \/ RewindRetry \/ PromoterFails,
         UNCHANGED <<chainVars, ixVars>>
  PROVE  FinalInv'
  <1>0. /\ UNCHANGED <<head, l1Head, fetched>>
        /\ TypeOK /\ ChainTypeOK /\ JournalTypeOK /\ PromoterTypeOK
        /\ PassInv /\ StoreInv
    BY DEF chainVars, ixVars, IInv, TypeOK
  <1>1. ASSUME UNCHANGED <<cp, finality>>, EndOfPass PROVE FinalInv'
    BY <1>0, <1>1 DEF FinalInv, Final, FinalAnswer, EndOfPass
  <1>2. ASSUME UNCHANGED finality, cp'[L1] = cp[L1],
               UNCHANGED <<anchor, replayed>>, fpPc # "idle", fpPc' # "promote"
        PROVE  FinalInv'
    BY <1>0, <1>2 DEF FinalInv, Final, FinalAnswer
  <1>3. CASE ReadAnchor
    BY <1>0, <1>3 DEF ReadAnchor, dbVars, FinalInv, Final, FinalAnswer
  <1>4. CASE ReadL2Tip \/ ReadRemoteTip \/ LoadActiveJournalWindow \/ RewindDelete
             \/ RewindRetry \/ ReadReplayTip
    BY <1>1, <1>2, <1>4 DEF ReadL2Tip, ReadRemoteTip, LoadActiveJournalWindow,
       RewindDelete, RewindRetry, ReadReplayTip, dbVars
  <1>5. CASE WindowDone \/ CompareMissing \/ ReplayRejected \/ ReplayFinished
             \/ PromoterFails
    BY <1>1, <1>5 DEF WindowDone, CompareMissing, ReplayRejected, ReplayFinished,
       PromoterFails, dbVars
  <1>6. CASE CompareRow
    <2>1. PICK b \in window :
            /\ IsNextRow(b) /\ Num[b] <= RemoteTip
            /\ \/ EndOfPass
               \/ /\ RemotePayload(Num[b]).block = b
                  /\ RemotePayload(Num[b]).status = L1
                  /\ fpPc' = "promote"
                  /\ UNCHANGED <<anchor, window, replayed>>
               \/ fpPc' = "rewind" /\ UNCHANGED <<anchor, window, replayed>>
      <3>1. PICK b \in window :
              /\ IsNextRow(b) /\ Num[b] <= RemoteTip
              /\ IF RemotePayload(Num[b]).block = b
                    /\ RemotePayload(Num[b]).status # L1
                   THEN EndOfPass
                   ELSE /\ fpPc' = IF RemotePayload(Num[b]).block = b
                                     THEN "promote" ELSE "rewind"
                        /\ UNCHANGED <<anchor, l2Tip, remoteTip, window,
                                       replayAt, replayed>>
        BY <1>6 DEF CompareRow
      <3> QED BY <3>1
    <2>2. UNCHANGED dbVars /\ fpPc = "compare"
      BY <1>6 DEF CompareRow
    <2>3. CASE /\ RemotePayload(Num[b]).block = b
               /\ RemotePayload(Num[b]).status = L1
               /\ fpPc' = "promote"
               /\ UNCHANGED <<anchor, window, replayed>>
      <3>1. Num[b] \in 0..RemoteTip /\ b \in Block
        BY <1>0, <2>1 DEF PromoterTypeOK, RemoteTip, ChainTypeOK
      <3>2. Final(b)
        BY <1>0, <2>3, <3>1, AnswersAreFinal DEF FinalInv, FinalAnswer
      <3>3. ASSUME NEW c \in window, IsNextRow(c) PROVE c = b
        <4>1. Num[c] = Num[b] /\ c \in Block
          BY <1>0, <2>1, <3>1, <3>3 DEF IsNextRow, PromoterTypeOK
        <4>2. journal[c] = "active" /\ journal[b] = "active"
          BY <1>0, <2>2 DEF PassInv, WindowIsStored, InWindow
        <4> QED BY <1>0, <3>1, <4>1, <4>2 DEF StoreInv, OneActiveRow
      <3> QED BY <1>0, <2>2, <2>3, <3>2, <3>3 DEF FinalInv, Final, FinalAnswer,
           IsNextRow, dbVars
    <2> QED BY <1>1, <1>2, <2>1, <2>2, <2>3 DEF dbVars
  <1>7. CASE PromoteRow
    <2>1. PICK b \in window : IsNextRow(b) /\ PromoteBlockToL1(b)
      BY <1>7 DEF PromoteRow
    <2>2. Final(b) /\ b \in Block
      BY <1>0, <1>7, <2>1 DEF PromoteRow, FinalInv, PromoterTypeOK
    <2> QED BY <1>0, <1>7, <2>1, <2>2 DEF PromoteRow, PromoteBlockToL1, FinalInv,
         Final, FinalAnswer, JournalTypeOK
  <1>8. CASE RewindCommit
    <2>1. cp'[L1] = cp[L1]
      BY <1>0, <1>8 DEF RewindCommit, JournalTypeOK
    <2> QED BY <1>2, <1>8, <2>1 DEF RewindCommit
  <1>9. CASE ReplayFetch
    <2>1. replayAt \in 0..RemoteTip
      BY <1>0, <1>9 DEF ReplayFetch, PromoterTypeOK, RemoteTip, ChainTypeOK
    <2>2. FinalAnswer(RemotePayload(replayAt))
      BY <1>0, <2>1, AnswersAreFinal DEF FinalInv
    <2> QED BY <1>0, <1>9, <2>2 DEF ReplayFetch, dbVars, FinalInv, Final, FinalAnswer
  <1>10. CASE ReplayCommit
    <2>1. replayed \in Payload /\ replayed # None
      BY <1>0, <1>10 DEF ReplayCommit, PromoterTypeOK
    <2>2. Final(cp[L1])' /\ \A b \in Block : finality'[b] = L1 => Final(b)'
      BY <1>0, <1>10, <2>1, CommitKeepsFinal DEF ReplayCommit, FinalInv
    <2> QED BY <1>0, <1>10, <2>2 DEF ReplayCommit, FinalInv, Final, FinalAnswer
  <1> QED BY <1>3, <1>4, <1>5, <1>6, <1>7, <1>8, <1>9, <1>10 DEF PromoterStep

(* All that is said to be final is final, in every run of an anchored
   deployment. *)
LEMMA FinalInvariance == ASSUME Seeded PROVE Spec => []FinalInv
  <1>1. Init => FinalInv
    <2> SUFFICES ASSUME Init PROVE FinalInv
      OBVIOUS
    <2>1. /\ head = Root /\ l1Head = Root /\ cp[L1] = Root
          /\ \A b \in Block : finality[b] = L1 => b = Root
          /\ fetched = {} /\ replayed = None /\ fpPc = "idle"
      BY NoneAssumption
      DEF Init, ChainInit, JournalInit, IsSeed, IndexerInit, PromoterInit
    <2>2. Root \in Line[Root]
      BY Lines
    <2> QED BY <2>1, <2>2 DEF FinalInv, Final
  <1>2. IInv /\ FinalInv /\ [Next]_vars => FinalInv'
    <2> SUFFICES ASSUME IInv, FinalInv, [Next]_vars PROVE FinalInv'
      OBVIOUS
    <2>0. TypeOK
      BY DEF IInv
    <2>1. CASE UNCHANGED vars
      BY <2>1 DEF vars, chainVars, dbVars, ixVars, fpVars, FinalInv, Final,
         FinalAnswer, IsNextRow
    <2> QED BY <2>0, <2>1, ChainKeepsFinal, IndexerKeepsFinal, PromoterKeepsFinal
         DEF Next
  <1> QED BY <1>1, <1>2, Invariance, PTL DEF Spec

(* What is stored as accepted on L1 is on the node's chain and accepted on L1,
   and so is the anchor. *)
THEOREM FinalityIsTrue ==
  ASSUME Seeded
  PROVE  Spec => [](FinalIsCanonical /\ AnchorIsFinal)
  <1>1. TypeOK /\ FinalInv => FinalIsCanonical /\ AnchorIsFinal
    <2> SUFFICES ASSUME TypeOK, FinalInv PROVE FinalIsCanonical /\ AnchorIsFinal
      OBVIOUS
    <2>1. head \in Block /\ l1Head \in Block
      BY DEF TypeOK, ChainTypeOK
    <2> QED BY <2>1, Lines DEF FinalInv, Final, FinalIsCanonical,
         AnchorIsFinal
  <1> QED BY <1>1, TypeCorrect, FinalInvariance, PTL

(* The L1 checkpoint never names a block the node could still replace, in every
   run of an anchored deployment, whichever of the two processes wrote it. *)
THEOREM AnchorStaysFinal == ASSUME Seeded PROVE Spec => []AnchorIsFinal
  <1>1. Spec => [](FinalIsCanonical /\ AnchorIsFinal)
    BY FinalityIsTrue
  <1> QED BY <1>1, PTL

-----------------------------------------------------------------------------
(* How one step may move the stored blocks. *)
Grows == /\ cp[L2]' \in Block /\ Parent[cp[L2]'] = cp[L2]
         /\ journal' = JournalWith(cp[L2]')
ShrinksToAnchor ==
  /\ cp[L2]' = anchor /\ anchor \in Block
  /\ Final(anchor) /\ Num[anchor] < Num[cp[L2]]
  /\ \A b \in Block : Num[b] <= Num[anchor] =>
       (journal'[b] = "active" <=> journal[b] = "active")
Stays == cp[L2]' = cp[L2] /\ journal' = journal

(* A commit, in a deployment that has a checkpoint, grows the log. *)
LEMMA CommitGrows ==
  ASSUME JournalTypeOK, cp[L2] # None, NEW p \in Payload, ProcessAcceptedBlock(p)
  PROVE  Grows
  BY DEF Grows, ProcessAcceptedBlock, SequentialProgress, CheckpointsAfter, Payload,
     JournalTypeOK

(* The rewind shrinks it to the anchor of the pass. *)
LEMMA RewindShrinks ==
  ASSUME IInv, FinalInv, RewindCommit
  PROVE  ShrinksToAnchor
  <1>1. JournalTypeOK /\ PromoterTypeOK /\ PassInv /\ fpPc = "rewindCommit"
    BY DEF IInv, TypeOK, RewindCommit
  <1>2. /\ anchor \in Block /\ cp[L2] \in Block
        /\ ReplayFrom = Num[anchor] + 1 /\ Final(anchor)
    BY <1>1 DEF PassInv, CheckpointsExist, PromoterTypeOK, JournalTypeOK, FinalInv,
       ReplayFrom
  <1>3. PICK b \in window : Num[b] \in (Num[anchor] + 1)..l2Tip
    BY <1>1 DEF PassInv, RowIsPending, WindowIsStored, InWindow
  <1>4. l2Tip <= Num[cp[L2]]
    BY <1>1 DEF PassInv, TipIsStored, Walking
  <1>5. Num[anchor] < Num[cp[L2]]
    BY <1>1, <1>2, <1>3, <1>4 DEF PromoterTypeOK
  <1>6. cp'[L2] = anchor
    BY <1>1 DEF RewindCommit, JournalTypeOK
  <1>7. \A c \in Block : Num[c] <= Num[anchor] =>
          (journal'[c] = "active" <=> journal[c] = "active")
    BY <1>2 DEF RewindCommit
  <1> QED BY <1>2, <1>5, <1>6, <1>7 DEF ShrinksToAnchor

(* Every step does one of the three. *)
LEMMA StepShape ==
  ASSUME IInv, FinalInv, [Next]_vars
  PROVE  Grows \/ ShrinksToAnchor \/ Stays
  <1>0. JournalTypeOK /\ IndexerTypeOK /\ PromoterTypeOK /\ cp[L2] # None
    BY DEF IInv, TypeOK, PassInv, CheckpointsExist
  <1>1. CASE IndexerNext /\ UNCHANGED <<chainVars, fpVars>>
    <2>1. CASE CommitBlock
      <3>1. PICK p \in fetched : ProcessAcceptedBlock(p)
        BY <2>1 DEF CommitBlock
      <3> QED BY <1>0, <3>1, CommitGrows DEF IndexerTypeOK
    <2>2. CASE ~CommitBlock
      BY <1>1, <2>2 DEF IndexerNext, IndexerStep, PollHeight, PlanBatch, FetchBlock,
         FetchMissing, CommitRejected, IndexerFails, dbVars, Stays
    <2> QED BY <2>1, <2>2
  <1>2. CASE PromoterStep \/ RewindRetry \/ PromoterFails
    <2>1. CASE RewindCommit
      BY <2>1, RewindShrinks
    <2>2. CASE ReplayCommit
      BY <1>0, <2>2, CommitGrows DEF ReplayCommit, PromoterTypeOK
    <2>3. CASE PromoteRow
      BY <1>0, <2>3 DEF PromoteRow, PromoteBlockToL1, JournalTypeOK, Stays
    <2>4. CASE ~(RewindCommit \/ ReplayCommit \/ PromoteRow)
      BY <1>2, <2>4 DEF PromoterStep, ReadAnchor, ReadL2Tip, ReadRemoteTip,
         LoadActiveJournalWindow, WindowDone, CompareRow, CompareMissing,
         RewindDelete, RewindRetry, ReadReplayTip, ReplayFetch, ReplayRejected,
         ReplayFinished, PromoterFails, dbVars, Stays
    <2> QED BY <2>1, <2>2, <2>3, <2>4
  <1>3. CASE UNCHANGED <<cp, journal>>
    BY <1>3 DEF Stays
  <1> QED BY <1>1, <1>2, <1>3 DEF Next, vars, dbVars

(* The checkpoint moves to a child, or back to a block accepted on L1. *)
THEOREM CheckpointMovesCorrectly == ASSUME Seeded PROVE Spec => CheckpointMoves
  <1>1. IInv /\ FinalInv /\ [Next]_vars =>
          [cp[L2]' # cp[L2] =>
             \/ cp[L2]' # None /\ Parent[cp[L2]'] = cp[L2]
             \/ cp[L2]' \in Line[l1Head] /\ Num[cp[L2]'] < Num[cp[L2]]]_vars
    BY StepShape DEF Grows, ShrinksToAnchor, Stays, Final
  <1> QED BY <1>1, Invariance, FinalInvariance, PTL DEF Spec, CheckpointMoves

----------------------------------------------------------------------------
(* Refinement. *)

(* The stored block of a height is the active row of that height. *)
LEMMA StoredIsActive ==
  ASSUME OneActiveRow, NEW b \in Block, journal[b] = "active"
  PROVE  Stored(Num[b]) = b
  <1>1. \A c \in Block : journal[c] = "active" /\ Num[c] = Num[b] => c = b
    BY DEF OneActiveRow
  <1> QED BY <1>1 DEF Stored

(* The same, after a step. *)
LEMMA StoredIsActiveNext ==
  ASSUME OneActiveRow', NEW b \in Block, journal'[b] = "active"
  PROVE  Stored(Num[b])' = b
  <1>1. \A c \in Block : journal'[c] = "active" /\ Num[c] = Num[b] => c = b
    BY DEF OneActiveRow
  <1> QED BY <1>1 DEF Stored

(* Initial states map to initial states. *)
LEMMA InitRefines == ASSUME Seeded, Init PROVE Log!Init
  <1>1. FirstBlock = 0 /\ logTop = 0 /\ journal[Root] = "active"
    BY DEF Init, JournalInit, IsSeed, FirstBlock, logTop
  <1>2. OneActiveRow
    BY InitSatisfiesInv DEF StoreInv
  <1>3. Stored(0) = Root
    BY <1>1, <1>2, StoredIsActive
  <1> QED BY <1>1, <1>3 DEF Log!Init, storedLog

(* Every step maps to a step of the log or to a stutter. *)
LEMMA StepRefines ==
  ASSUME Seeded, IInv, IInv', FinalInv, [Next]_vars
  PROVE  [Log!Next]_<<logTop, storedLog>>
  <1>0. /\ JournalTypeOK /\ cp[L2] \in Block /\ cp[L2] # None
        /\ OneActiveRow /\ OneActiveRow' /\ StoredWithoutGaps
        /\ FirstBlock = 0 /\ FirstBlock' = 0
    BY DEF IInv, TypeOK, JournalTypeOK, PassInv, CheckpointsExist, StoreInv,
       FirstBlock
  <1>1. logTop = Num[cp[L2]] /\ storedLog = [h \in 0..logTop |-> Stored(h)]
    BY <1>0 DEF logTop, storedLog
  <1>2. ASSUME cp[L2]' \in Block
        PROVE  logTop' = Num[cp[L2]'] /\ storedLog' = [h \in 0..logTop' |-> Stored(h)']
    BY <1>0, <1>2 DEF logTop, storedLog
  <1>3. ASSUME NEW h \in 0..logTop
        PROVE  \E b \in Block : Num[b] = h /\ journal[b] = "active" /\ Stored(h) = b
    <2>1. PICK b \in Block : Num[b] = h /\ journal[b] = "active"
      BY <1>0, <1>1 DEF StoredWithoutGaps
    <2> QED BY <1>0, <2>1, StoredIsActive
  <1>4. CASE Grows
    <2>0. PICK c \in Block : /\ cp[L2]' = c
                            /\ Num[c] = logTop + 1 /\ logTop' = Num[c]
                            /\ logTop' <= MaxHeight
      BY <1>0, <1>1, <1>2, <1>4 DEF Grows
    <2>1. /\ c \in Block /\ Num[c] = logTop + 1 /\ logTop' = Num[c]
          /\ logTop' <= MaxHeight /\ logTop \in Nat
      BY <1>0, <1>1, <2>0, TreeAssumption DEF Height
    <2>2. Stored(Num[c])' = c
      <3>1. journal'[c] = "active"
        BY <1>4, <2>0 DEF Grows, JournalWith
      <3> QED BY <1>0, <2>1, <3>1, StoredIsActiveNext
    <2>3. ASSUME NEW h \in 0..logTop PROVE Stored(h)' = storedLog[h]
      <3>1. PICK b \in Block : /\ Num[b] = h /\ journal[b] = "active"
                              /\ Stored(h) = b
        BY <1>3
      <3>2. journal'[b] = "active"
        BY <1>0, <1>1, <1>4, <2>1, <3>1 DEF Grows, JournalWith
      <3> QED BY <1>0, <1>1, <3>1, <3>2, StoredIsActiveNext
    <2>4. storedLog' = [h \in 0..logTop' |-> IF h = logTop' THEN c ELSE storedLog[h]]
      <3>1. storedLog' = [h \in 0..logTop' |-> Stored(h)']
        BY <1>2, <2>0
      <3>2. ASSUME NEW h \in 0..logTop'
            PROVE  Stored(h)' = IF h = logTop' THEN c ELSE storedLog[h]
        <4>1. CASE h = logTop'
          BY <4>1, <2>1, <2>2
        <4>2. CASE h # logTop'
          <5>1. h \in 0..logTop
            BY <4>2, <2>1
          <5> QED BY <4>2, <5>1, <2>3
        <4> QED BY <4>1, <4>2
      <3> QED BY <3>1, <3>2
    <2>5. Log!Append(c)
      BY <1>0, <1>1, <2>1, <2>4 DEF Log!Append
    <2> QED BY <2>1, <2>5 DEF Log!Next
  <1>5. CASE ShrinksToAnchor
    <2>1. logTop' = Num[anchor] /\ Num[anchor] < logTop /\ Num[anchor] \in Nat
          /\ cp[L2]' \in Block
      BY <1>1, <1>2, <1>5 DEF ShrinksToAnchor
    <2>2. ASSUME NEW h \in 0..Num[anchor] PROVE Stored(h)' = storedLog[h]
      <3>1. h \in 0..logTop
        BY <1>0, <1>1, <2>1
      <3>2. PICK b \in Block : /\ Num[b] = h /\ journal[b] = "active"
                              /\ Stored(h) = b
        BY <1>3, <3>1
      <3>3. journal'[b] = "active"
        BY <1>5, <3>2 DEF ShrinksToAnchor
      <3> QED BY <1>0, <1>1, <3>1, <3>2, <3>3, StoredIsActiveNext
    <2>3. storedLog' = [h \in 0..Num[anchor] |-> storedLog[h]]
      BY <1>2, <2>1, <2>2
    <2>4. Log!Cut(Num[anchor])
      BY <1>0, <2>1, <2>3 DEF Log!Cut
    <2>5. Num[anchor] \in FirstBlock..(logTop - 1)
      BY <1>0, <1>1, <2>1
    <2> QED BY <2>4, <2>5 DEF Log!Next
  <1>6. CASE Stays
    <2>1. logTop' = logTop
      BY <1>0, <1>1, <1>2, <1>6 DEF Stays
    <2>2. \A h : Stored(h)' = Stored(h)
      BY <1>6 DEF Stays, Stored
    <2>3. storedLog' = storedLog
      BY <1>0, <1>1, <1>2, <1>6, <2>1, <2>2 DEF Stays
    <2> QED BY <2>1, <2>3
  <1> QED BY <1>4, <1>5, <1>6, StepShape

(* The indexer and the promoter together implement the log without gaps. *)
THEOREM StoreImplementsLog == ASSUME Seeded PROVE Spec => LogSpec
  <1>1. Init => Log!Init
    BY InitRefines
  <1>2. IInv /\ IInv' /\ FinalInv /\ [Next]_vars => [Log!Next]_<<logTop, storedLog>>
    BY StepRefines
  <1> QED BY <1>1, <1>2, Invariance, FinalInvariance, PTL DEF Spec, LogSpec, Log!Spec
=============================================================================
