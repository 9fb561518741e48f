---------------------------- MODULE BlockIndexer ----------------------------
(***************************************************************************)
(* The main loop of bin/start-indexer.js: read the node's height, read the *)
(* checkpoint, then fetch and commit up to BatchSize blocks.  In turbo     *)
(* mode the whole batch is fetched before its first block is committed.    *)
(***************************************************************************)
EXTENDS Journal, StarknetChain

CONSTANTS BatchSize,   \* INDEXER_CATCHUP_BATCH_SIZE / the turbo prefetch window
          TurboMode,   \* INDEXER_TURBO_MODE
          MaxFaults    \* bound: crashes and failed calls, of both processes

ASSUME IndexerAssumption ==
  /\ BatchSize \in Nat \ {0}
  /\ TurboMode \in BOOLEAN
  /\ MaxFaults \in Nat

VARIABLES
  ixPc,       \* the await the loop is at
  latest,     \* latestAcceptedBlock
  cursor,     \* next block of the batch
  batchEnd,   \* last block of the batch
  fetched,    \* payloads fetched and not yet committed
  faults      \* faults so far, a bound and no state of the program

ixVars == <<ixPc, latest, cursor, batchEnd, fetched>>

IndexerTypeOK ==
  /\ ixPc \in {"poll", "plan", "fetch", "commit"}
  /\ latest \in Height
  /\ cursor \in 0..(MaxHeight + 1)
  /\ batchEnd \in Height
  /\ fetched \in SUBSET Payload
  /\ ixPc \in {"fetch", "commit"} => cursor <= batchEnd
  /\ faults \in 0..MaxFaults

IndexerInit == /\ ixPc = "poll"
               /\ latest = 0 /\ cursor = 0 /\ batchEnd = 0
               /\ fetched = {}
               /\ faults = 0

(* The batch's variables go out of scope: the catch block, a restart by PM2 and
   the end of a batch all come back to the top of the loop. *)
BackToPoll == /\ ixPc' = "poll"
              /\ latest' = 0 /\ cursor' = 0 /\ batchEnd' = 0
              /\ fetched' = {}

PollHeight == /\ ixPc = "poll"
              /\ ixPc' = "plan"
              /\ latest' = RemoteTip
              /\ UNCHANGED <<cursor, batchEnd, fetched, faults, dbVars>>

\* Mutant of PlanBatch: the batch is not cut at the node's height.
PlanWholeBatch ==
  /\ ixPc = "plan"
  /\ IF NextBlock > latest
       THEN BackToPoll
       ELSE /\ ixPc' = "fetch"
            /\ cursor' = NextBlock
            /\ batchEnd' = NextBlock + BatchSize - 1
            /\ latest' = 0
            /\ UNCHANGED fetched
  /\ UNCHANGED <<faults, dbVars>>

(* getCheckpoint and determineNextBlock; at the head the loop sleeps. *)
PlanBatch ==
  /\ ixPc = "plan"
  /\ IF NextBlock > latest
       THEN BackToPoll
       ELSE /\ ixPc' = "fetch"
            /\ cursor' = NextBlock
            /\ batchEnd' = IF latest < NextBlock + BatchSize - 1
                             THEN latest ELSE NextBlock + BatchSize - 1
            /\ latest' = 0
            /\ UNCHANGED fetched
  /\ UNCHANGED <<faults, dbVars>>

HasPayload(n) == \E p \in fetched : Num[p.block] = n

(* The heights whose fetch is under way: prefetchAcceptedBlockPayloads runs
   several at once, in no fixed order. *)
Wanted == IF TurboMode THEN {n \in cursor..batchEnd : ~HasPayload(n)}
                       ELSE {cursor}

FetchBlock ==
  /\ ixPc = "fetch"
  /\ \E n \in Wanted :
       /\ n <= RemoteTip
       /\ fetched' = fetched \cup {RemotePayload(n)}
       /\ ixPc' = IF Wanted = {n} THEN "commit" ELSE "fetch"
  /\ UNCHANGED <<latest, cursor, batchEnd, faults, dbVars>>

(* The node's head fell below the height since it was polled: the call fails. *)
FetchMissing == /\ ixPc = "fetch"
                /\ \E n \in Wanted : n > RemoteTip
                /\ BackToPoll
                /\ UNCHANGED <<faults, dbVars>>

CommitBlock ==
  /\ ixPc = "commit"
  /\ \E p \in fetched :
       /\ Num[p.block] = cursor
       /\ ProcessAcceptedBlock(p)
       /\ IF cursor = batchEnd
            THEN BackToPoll
            ELSE /\ ixPc' = IF TurboMode THEN "commit" ELSE "fetch"
                 /\ cursor' = cursor + 1
                 /\ fetched' = fetched \ {p}
                 /\ UNCHANGED <<latest, batchEnd>>
  /\ UNCHANGED faults

(* "Checkpoint gap detected" or "Parent hash mismatch": the transaction rolls
   back, the rest of the batch is dropped. *)
CommitRejected ==
  /\ ixPc = "commit"
  /\ \E p \in fetched : Num[p.block] = cursor /\ ~SequentialProgress(p.block)
  /\ BackToPoll
  /\ UNCHANGED <<faults, dbVars>>

(* Any other error of an RPC call or of the transaction, or the process dying:
   nothing was committed, and the loop starts over. *)
IndexerFails == /\ ixPc # "poll"
                /\ faults < MaxFaults
                /\ faults' = faults + 1
                /\ BackToPoll
                /\ UNCHANGED dbVars

IndexerStep == \/ PollHeight \/ PlanBatch \/ FetchBlock \/ FetchMissing
               \/ CommitBlock \/ CommitRejected

IndexerNext == IndexerStep \/ IndexerFails
=============================================================================
