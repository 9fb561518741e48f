------------------------------ MODULE Journal ------------------------------
(***************************************************************************)
(* The Postgres rows the canonical pipeline owns, and the transactions     *)
(* that write them: processAcceptedBlock (core/block-processor.js), shared *)
(* by the indexer and by the promoter's replay, and promoteBlockToL1       *)
(* (jobs/finality-promoter.js).  One transaction is one action.            *)
(***************************************************************************)
EXTENDS BlockTree

CONSTANTS Seeded,      \* TRUE: Root is already indexed and anchored at the start
          StartBlock   \* INDEXER_START_BLOCK, used while no checkpoint exists

ASSUME JournalAssumption == Seeded \in BOOLEAN /\ StartBlock \in Height

VARIABLES
  cp,           \* stark_index_state: last processed block of each lane
  journal,      \* stark_block_journal: a block's row, absent, active or orphaned
  finality,     \* stark_block_journal.finality_status
  derived,      \* block whose raw, trade, price and transfer rows fill a height
  rawFinality,  \* finality_status of stark_tx_raw / stark_event_raw at a height
  locked        \* heights whose derived rows an open transaction has deleted

dbVars == <<cp, journal, finality, derived, rawFinality, locked>>

RowState == {"absent", "active", "orphaned"}

JournalTypeOK ==
  /\ cp \in [Lane -> Block \cup {None}]
  /\ journal \in [Block -> RowState]
  /\ finality \in [Block -> Lane \cup {None}]
  /\ derived \in [Height -> Block \cup {None}]
  /\ rawFinality \in [Height -> Lane \cup {None}]
  /\ locked \in SUBSET Height

IsSeed(b) == Seeded /\ b = Root

JournalInit ==
  /\ cp = [l \in Lane |-> IF Seeded THEN Root ELSE None]
  /\ journal = [b \in Block |-> IF IsSeed(b) THEN "active" ELSE "absent"]
  /\ finality = [b \in Block |-> IF IsSeed(b) THEN L1 ELSE None]
  /\ derived = [h \in Height |-> IF Seeded /\ h = 0 THEN Root ELSE None]
  /\ rawFinality = [h \in Height |-> IF Seeded /\ h = 0 THEN L1 ELSE None]
  /\ locked = {}

FirstBlock == IF Seeded THEN 0 ELSE StartBlock

(* determineNextBlock *)
NextBlock == IF cp[L2] = None THEN StartBlock ELSE Num[cp[L2]] + 1

\* Mutants of SequentialProgress: the height only has to grow; the parent is not
\* compared; the block at the checkpoint may be stored again.
SequentialAnyGap(b) == cp[L2] # None => Num[b] > Num[cp[L2]]
SequentialNoParent(b) == cp[L2] # None => Num[b] = Num[cp[L2]] + 1
SequentialAgain(b) ==
  cp[L2] # None => \/ Num[b] = Num[cp[L2]] + 1 /\ Parent[b] = cp[L2]
                   \/ Num[b] = Num[cp[L2]]

(* assertSequentialProgress: without a checkpoint any block is accepted. *)
SequentialProgress(b) ==
  cp[L2] # None => Num[b] = Num[cp[L2]] + 1 /\ Parent[b] = cp[L2]

\* Mutant of JournalWith: the row of the other fork stays active.
JournalWithBoth(b) == [journal EXCEPT ![b] = "active"]

(* markConflictingBlockRows followed by upsertBlockJournal *)
JournalWith(b) ==
  [x \in Block |-> IF x = b THEN "active"
                   ELSE IF Num[x] = Num[b] /\ journal[x] = "active" THEN "orphaned"
                   ELSE journal[x]]

\* Mutant of CheckpointsAfter: the L1 lane mirrors every commit.
CheckpointsMirrored(p) == [l \in Lane |-> p.block]

(* advanceCheckpoint of the L2 lane, mirrored on the L1 lane when the payload
   already was accepted on L1; neither update looks at the old value. *)
CheckpointsAfter(p) ==
  [l \in Lane |-> IF l = L2 \/ p.status = L1 THEN p.block ELSE cp[l]]

(* The transaction of processAcceptedBlock.  It waits for row locks on the
   derived rows it is about to clear. *)
ProcessAcceptedBlock(p) ==
  /\ SequentialProgress(p.block)
  /\ Num[p.block] \notin locked
  /\ journal' = JournalWith(p.block)
  /\ finality' = [finality EXCEPT ![p.block] = p.status]
  /\ derived' = [derived EXCEPT ![Num[p.block]] = p.block]
  /\ rawFinality' = [rawFinality EXCEPT ![Num[p.block]] = p.status]
  /\ cp' = CheckpointsAfter(p)
  /\ UNCHANGED locked

\* Mutant of PromoteBlockToL1: the raw rows keep their status.
PromoteJournalOnly(b) == /\ finality' = [finality EXCEPT ![b] = L1]
                         /\ cp' = [cp EXCEPT ![L1] = b]
                         /\ UNCHANGED <<journal, derived, rawFinality, locked>>

(* promoteBlockToL1: the journal row is found by number and hash, the raw rows
   by number, and the L1 checkpoint is set whatever it was. *)
PromoteBlockToL1(b) ==
  /\ finality' = [finality EXCEPT ![b] = L1]
  /\ rawFinality' = [rawFinality EXCEPT ![Num[b]] =
                       IF derived[Num[b]] = None THEN None ELSE L1]
  /\ cp' = [cp EXCEPT ![L1] = b]
  /\ UNCHANGED <<journal, derived, locked>>

(***************************************************************************)
(* What the rows promise, whoever writes them                              *)
(***************************************************************************)

(* At most one active journal row per height, the promise of the journal's
   unique index (Docs/phase1.md 6.2), without which a commit would abort. *)
OneActiveRow == \A b, c \in Block :
  journal[b] = "active" /\ journal[c] = "active" /\ Num[b] = Num[c] => b = c

(* Every height up to the checkpoint is stored: it has an active row, and its
   derived rows are those of that very block.  Commits of two processes, the
   rewind between them and every crash leave no hole and no mixed height. *)
StoredWithoutGaps == cp[L2] # None =>
  \A h \in FirstBlock..Num[cp[L2]] :
    \E b \in Block : Num[b] = h /\ journal[b] = "active" /\ derived[h] = b

(* Parent-child continuity: the stored blocks up to the checkpoint are a chain
   that ends in the checkpoint, so no stored block hangs from one that is not
   stored, whatever forks the node showed while they were fetched. *)
LinkedChain == cp[L2] # None =>
  /\ journal[cp[L2]] = "active"
  /\ \A b \in Block :
       journal[b] = "active" /\ Num[b] \in (FirstBlock + 1)..Num[cp[L2]]
         => Parent[b] # None /\ journal[Parent[b]] = "active"

(* The finality kept with the raw rows of a height is the one of the journal row
   they belong to, although one is found by number and the other by hash. *)
FinalityAgrees == \A b \in Block :
  journal[b] = "active" /\ derived[Num[b]] = b => rawFinality[Num[b]] = finality[b]
=============================================================================
