-------------------------- MODULE ParallelBackfill --------------------------
(***************************************************************************)
(* scripts/turbo-backfill.js and scripts/promote-backfill-checkpoint.js.   *)
(* Containers lease worker slots from the database; the owner of a slot    *)
(* commits the blocks of the slot's chunk under a checkpoint key of the    *)
(* slot's own; when all chunks are done, the main checkpoint is promoted   *)
(* to the end of the range.  A lease is a row with a time: it can run out  *)
(* under a live owner, and it outlives a dead one.                         *)
(***************************************************************************)
EXTENDS StarknetChain

CONSTANTS
  Worker,         \* containers of the backfill-worker service
  TotalWorkers,   \* BACKFILL_TOTAL_WORKERS, the number of slots
  BackfillStart,  \* BACKFILL_START_BLOCK
  BackfillEnd,    \* BACKFILL_END_BLOCK
  ChunkSize,      \* BACKFILL_CHUNK_SIZE
  Lookahead,      \* heights that the current and the prefetched batch can hold
  UseUnlogged,    \* BACKFILL_USE_UNLOGGED_TABLES
  RestoreLogged,  \* BACKFILL_RESTORE_LOGGED_ON_COMPLETE
  Operator,       \* TRUE: containers may be stopped and started by hand
  MaxFaults,      \* bound: crashes, failed calls, late refreshes, operator's acts
  Dead            \* owner_id of a process that no longer exists

ASSUME BackfillAssumption ==
  /\ TotalWorkers \in Nat \ {0} /\ ChunkSize \in Nat \ {0}
  /\ Lookahead \in Nat \ {0} /\ MaxFaults \in Nat
  /\ BackfillStart \in Height /\ BackfillEnd \in BackfillStart..MaxHeight
  /\ Operator \in BOOLEAN /\ UseUnlogged \in BOOLEAN /\ RestoreLogged \in BOOLEAN
  /\ None \notin Worker /\ Dead \notin Worker /\ Dead # None

Slot == 1..TotalWorkers

(* resolveChunkRange; a slot whose range would start behind the end has none. *)
ChunkStart(s) == BackfillStart + (s - 1) * ChunkSize

ChunkEnd(s) == IF BackfillEnd < ChunkStart(s) + ChunkSize - 1
                 THEN BackfillEnd ELSE ChunkStart(s) + ChunkSize - 1

HasRange(s) == ChunkStart(s) <= BackfillEnd
Chunk(s) == ChunkStart(s)..ChunkEnd(s)

VARIABLES
  claim,      \* stark_backfill_worker_claims: owner_id of each slot's row
  overdue,    \* slots whose claim is older than the TTL
  wcp,        \* stark_index_state of each <prefix>-w<slot> key
  row,        \* stark_block_journal: active row of each height
  unlogged,   \* stark_block_journal is an UNLOGGED table
  emptied,    \* history: a database crash has emptied it
  main,       \* stark_index_state of the main key, as the promotion sets it
  wpc,        \* where each container's process is
  slot,       \* workerIndex
  cursor,     \* next block to commit
  fetched,    \* blocks of the current and the prefetched batch
  faults

claimVars == <<claim, overdue>>
storeVars == <<wcp, row, unlogged, emptied, main>>
workVars == <<slot, cursor, fetched>>
backfillVars == <<chainVars, claimVars, storeVars, wpc, workVars, faults>>

(* A worker never leaves its chunk: its next block is in the chunk, or the one
   behind the chunk's last. *)
BackfillTypeOK ==
  /\ ChainTypeOK
  /\ claim \in [Slot -> Worker \cup {None, Dead}]
  /\ overdue \in SUBSET Slot
  /\ wcp \in [Slot -> Block \cup {None}]
  /\ row \in [Height -> Block \cup {None}]
  /\ unlogged \in BOOLEAN /\ emptied \in BOOLEAN
  /\ main \in Block \cup {None}
  /\ wpc \in [Worker -> {"claiming", "begin", "run", "resync", "down", "done"}]
  /\ slot \in [Worker -> Slot]
  /\ cursor \in [Worker -> 0..(MaxHeight + 1)]
  /\ fetched \in [Worker -> SUBSET Block]
  /\ \A w \in Worker : wpc[w] \in {"run", "resync"} =>
       cursor[w] \in ChunkStart(slot[w])..(ChunkEnd(slot[w]) + 1)
  /\ faults \in 0..MaxFaults

(* The range was chosen at or below the node's head of some moment, and the
   containers are started together. *)
BackfillInit ==
  /\ head \in Block /\ l1Head = Root /\ reorgs = 0
  /\ claim = [s \in Slot |-> None]
  /\ overdue = {}
  /\ wcp = [s \in Slot |-> None]
  /\ row = [h \in Height |-> None]
  /\ unlogged = FALSE /\ emptied = FALSE
  /\ main = None
  /\ wpc = [w \in Worker |-> "claiming"]
  /\ slot = [w \in Worker |-> 1]
  /\ cursor = [w \in Worker |-> 0]
  /\ fetched = [w \in Worker |-> {}]
  /\ faults = 0

Fault == faults < MaxFaults /\ faults' = faults + 1

Goto(w, label) == wpc' = [wpc EXCEPT ![w] = label]

(* The process ends: its local variables are gone. *)
Ended(w, label) == /\ Goto(w, label)
                   /\ slot' = [slot EXCEPT ![w] = 1]
                   /\ cursor' = [cursor EXCEPT ![w] = 0]
                   /\ fetched' = [fetched EXCEPT ![w] = {}]

Owns(w, s) == claim[s] = w

(* DELETE of releaseWorkerClaim: the row of this slot, if it still is ours. *)
Released(w) == IF wpc[w] \in {"begin", "run", "resync"} /\ Owns(w, slot[w])
                 THEN [claim EXCEPT ![slot[w]] = None] ELSE claim

(* A claim whose owner died keeps an owner_id that nobody has any more. *)
Orphaned(w) == IF wpc[w] \in {"begin", "run", "resync"} /\ Owns(w, slot[w])
                 THEN [claim EXCEPT ![slot[w]] = Dead] ELSE claim

(***************************************************************************)
(* Leases                                                                  *)
(***************************************************************************)

(* claimWorkerIndexFromDb: claims older than the TTL are deleted, then the
   lowest free slot is taken; slots that others are claiming at the same time
   are skipped.  Without a free slot the loop sleeps. *)
ClaimSlot(w) ==
  /\ wpc[w] = "claiming"
  /\ LET free == {s \in Slot : claim[s] = None \/ s \in overdue}
         rivals == {v \in Worker \ {w} : wpc[v] = "claiming"}
     IN \E s \in free :
          /\ Cardinality({x \in free : x < s}) <= Cardinality(rivals)
          /\ claim' = [x \in Slot |-> IF x = s THEN w
                                      ELSE IF x \in overdue THEN None ELSE claim[x]]
          /\ slot' = [slot EXCEPT ![w] = s]
  /\ overdue' = {}
  /\ Goto(w, "begin")
  /\ UNCHANGED <<chainVars, storeVars, cursor, fetched, faults>>

(* A claim becomes older than the TTL: nobody refreshes that of a dead process,
   and a live one's refresh can be late. *)
ClaimExpires(s) ==
  /\ claim[s] # None /\ s \notin overdue
  /\ overdue' = overdue \cup {s}
  /\ IF claim[s] = Dead THEN UNCHANGED faults ELSE Fault
  /\ UNCHANGED <<chainVars, claim, storeVars, wpc, workVars>>

(* refreshWorkerClaim.  A claim that is lost ends the process with exit code 86. *)
RefreshClaim(w) ==
  /\ wpc[w] \in {"run", "resync"}
  /\ IF Owns(w, slot[w])
       THEN /\ slot[w] \in overdue
            /\ overdue' = overdue \ {slot[w]}
            /\ UNCHANGED <<wpc, workVars>>
       ELSE Ended(w, "down") /\ UNCHANGED overdue
  /\ UNCHANGED <<chainVars, claim, storeVars, faults>>

(***************************************************************************)
(* Working on a chunk                                                      *)
(***************************************************************************)

(* releaseWorkerClaim, then exit code 0: Docker leaves the container down. *)
ExitsClean(w) == /\ claim' = Released(w)
                 /\ overdue' = overdue \cap {s \in Slot : claim'[s] # None}
                 /\ Ended(w, "done")

(* Main up to its loop: a slot without a range is given back; otherwise the
   cursor comes from the slot's checkpoint and the leader, the owner of slot 1,
   makes the journal UNLOGGED. *)
BeginChunk(w) ==
  /\ wpc[w] = "begin"
  /\ IF HasRange(slot[w])
       THEN /\ Goto(w, "run")
            /\ cursor' = [cursor EXCEPT ![w] =
                            IF wcp[slot[w]] = None THEN ChunkStart(slot[w])
                                                   ELSE Num[wcp[slot[w]]] + 1]
            /\ unlogged' = (unlogged \/ (UseUnlogged /\ slot[w] = 1))
            /\ UNCHANGED <<claimVars, slot, fetched>>
       ELSE ExitsClean(w) /\ UNCHANGED unlogged
  /\ UNCHANGED <<chainVars, wcp, row, emptied, main, faults>>

\* Mutant of PrefetchBlock: a batch is not cut at the end of the chunk.
PrefetchBeyond(w) ==
  /\ wpc[w] = "run"
  /\ \E n \in cursor[w]..(cursor[w] + Lookahead - 1) :
       /\ n <= RemoteTip /\ \A b \in fetched[w] : Num[b] # n
       /\ fetched' = [fetched EXCEPT ![w] = @ \cup {RemoteBlock(n)}]
  /\ UNCHANGED <<chainVars, claimVars, storeVars, wpc, slot, cursor, faults>>

(* loadPrefetchBatch, of the batch to commit or of the one behind it: several
   heights are fetched at once, in no fixed order, while commits go on.  Above
   the node's head the loop waits. *)
PrefetchBlock(w) ==
  /\ wpc[w] = "run"
  /\ \E n \in Chunk(slot[w]) :
       /\ n \in cursor[w]..(cursor[w] + Lookahead - 1) /\ n <= RemoteTip
       /\ \A b \in fetched[w] : Num[b] # n
       /\ fetched' = [fetched EXCEPT ![w] = @ \cup {RemoteBlock(n)}]
  /\ UNCHANGED <<chainVars, claimVars, storeVars, wpc, slot, cursor, faults>>

\* Mutants of FollowsCheckpoint: the parent is not compared; nothing is.
FollowsNumber(s, b) == wcp[s] # None => Num[b] = Num[wcp[s]] + 1
FollowsAnything(s, b) == TRUE

(* assertSequentialProgress against the checkpoint of the slot's key. *)
FollowsCheckpoint(s, b) ==
  wcp[s] # None => Num[b] = Num[wcp[s]] + 1 /\ Parent[b] = wcp[s]

(* processAcceptedBlock under the slot's key; no L1 checkpoint is mirrored. *)
CommitChunkBlock(w) ==
  /\ wpc[w] = "run"
  /\ \E b \in fetched[w] :
       /\ Num[b] = cursor[w] /\ FollowsCheckpoint(slot[w], b)
       /\ row' = [row EXCEPT ![Num[b]] = b]
       /\ wcp' = [wcp EXCEPT ![slot[w]] = b]
       /\ fetched' = [fetched EXCEPT ![w] = @ \ {b}]
  /\ cursor' = [cursor EXCEPT ![w] = @ + 1]
  /\ UNCHANGED <<chainVars, claimVars, unlogged, emptied, main, wpc, slot, faults>>

(* The catch block drops both batches and aligns the cursor again. *)
CatchesError(w) == /\ wpc[w] = "run"
                   /\ Goto(w, "resync")
                   /\ fetched' = [fetched EXCEPT ![w] = {}]
                   /\ UNCHANGED <<chainVars, claimVars, storeVars, slot, cursor>>

(* Another owner of the slot was faster, or the node changed its fork. *)
ChunkBlockRejected(w) ==
  /\ \E b \in fetched[w] : Num[b] = cursor[w] /\ ~FollowsCheckpoint(slot[w], b)
  /\ CatchesError(w)
  /\ UNCHANGED faults

BatchFails(w) == CatchesError(w) /\ Fault

\* Mutant of ResyncCursor: the batch is tried again from where it was.
ResyncStays(w) ==
  /\ wpc[w] = "resync"
  /\ Goto(w, "run")
  /\ UNCHANGED <<chainVars, claimVars, storeVars, slot, cursor, fetched, faults>>

(* The cursor only moves forward, to the block after the checkpoint. *)
ResyncCursor(w) ==
  /\ wpc[w] = "resync"
  /\ Goto(w, "run")
  /\ cursor' = [cursor EXCEPT ![w] =
       IF wcp[slot[w]] # None /\ Num[wcp[slot[w]]] + 1 > @
         THEN Num[wcp[slot[w]]] + 1 ELSE @]
  /\ UNCHANGED <<chainVars, claimVars, storeVars, slot, fetched, faults>>

(* The resync fails too: the cursor stays at the start of the failed batch. *)
ResyncFails(w) ==
  /\ wpc[w] = "resync"
  /\ Goto(w, "run")
  /\ \E c \in ChunkStart(slot[w])..cursor[w] : cursor' = [cursor EXCEPT ![w] = c]
  /\ Fault
  /\ UNCHANGED <<chainVars, claimVars, storeVars, slot, fetched>>

(* The chunk is done: the leader may make the journal LOGGED again. *)
FinishChunk(w) ==
  /\ wpc[w] = "run" /\ cursor[w] > ChunkEnd(slot[w])
  /\ unlogged' = (unlogged /\ ~(RestoreLogged /\ UseUnlogged /\ slot[w] = 1))
  /\ ExitsClean(w)
  /\ UNCHANGED <<chainVars, wcp, row, emptied, main, faults>>

(***************************************************************************)
(* Processes, containers and the database                                  *)
(***************************************************************************)

(* SIGTERM: the loop ends after the current batch, and the same code follows. *)
Stop(w) == /\ wpc[w] = "run" /\ Operator
           /\ Fault
           /\ unlogged' = (unlogged /\ ~(RestoreLogged /\ UseUnlogged /\ slot[w] = 1))
           /\ ExitsClean(w)
           /\ UNCHANGED <<chainVars, wcp, row, emptied, main>>

(* The stale-worker exit, the unhandled rejection of a prefetch nobody awaits,
   a killed process: the claim stays.  A lost connection is thrown through the
   finally block, which may still release it.  Every exit code is not 0. *)
Crash(w) == /\ wpc[w] \in {"claiming", "begin", "run", "resync"}
            /\ Fault
            /\ claim' \in {Orphaned(w), Released(w)}
            /\ overdue' = overdue \cap {s \in Slot : claim'[s] # None}
            /\ Ended(w, "down")
            /\ UNCHANGED <<chainVars, storeVars>>

(* restart: on-failure *)
Restart(w) == /\ wpc[w] = "down"
              /\ Goto(w, "claiming")
              /\ UNCHANGED <<chainVars, claimVars, storeVars, workVars, faults>>

(* The operator starts a container that had ended with exit code 0. *)
Relaunch(w) == /\ wpc[w] = "done" /\ Operator
               /\ Fault
               /\ Goto(w, "claiming")
               /\ UNCHANGED <<chainVars, claimVars, storeVars, workVars>>

(* Postgres crashes and recovers: UNLOGGED tables come back empty.  Processes
   that notice the lost connection end; their claims are in a LOGGED table. *)
DbCrash ==
  /\ Fault
  /\ row' = IF unlogged THEN [h \in Height |-> None] ELSE row
  /\ emptied' = (emptied \/ unlogged)
  /\ \E hit \in SUBSET {w \in Worker : wpc[w] \notin {"down", "done"}} :
       /\ claim' = [s \in Slot |-> IF \E w \in hit : Owns(w, s) THEN Dead ELSE claim[s]]
       /\ wpc' = [w \in Worker |-> IF w \in hit THEN "down" ELSE wpc[w]]
       /\ slot' = [w \in Worker |-> IF w \in hit THEN 1 ELSE slot[w]]
       /\ cursor' = [w \in Worker |-> IF w \in hit THEN 0 ELSE cursor[w]]
       /\ fetched' = [w \in Worker |-> IF w \in hit THEN {} ELSE fetched[w]]
  /\ UNCHANGED <<chainVars, overdue, wcp, unlogged, main>>

(***************************************************************************)
(* promote-backfill-checkpoint.js: one transaction                         *)
(***************************************************************************)

(* buildWorkerRanges and validateWorkerRanges: the slots reach the end. *)
RangesCover == \E s \in Slot : HasRange(s) /\ ChunkEnd(s) = BackfillEnd

ChunkDone(s) == wcp[s] # None /\ Num[wcp[s]] = ChunkEnd(s)

(* loadCanonicalCoverage: as many active rows as there are heights. *)
CoverageComplete == \A h \in BackfillStart..BackfillEnd : row[h] # None

PromoteCheckpoint ==
  /\ main = None   \* bound: one promotion
  /\ RangesCover
  /\ \A s \in Slot : HasRange(s) => ChunkDone(s)
  /\ CoverageComplete
  /\ main' = row[BackfillEnd]
  /\ UNCHANGED <<chainVars, claimVars, wcp, row, unlogged, emptied, wpc, workVars, faults>>

WorkerStep(w) ==
  \/ ClaimSlot(w) \/ BeginChunk(w) \/ PrefetchBlock(w) \/ CommitChunkBlock(w)
  \/ ChunkBlockRejected(w) \/ ResyncCursor(w) \/ FinishChunk(w) \/ Restart(w)

WorkerFault(w) == BatchFails(w) \/ ResyncFails(w) \/ Stop(w) \/ Crash(w) \/ Relaunch(w)

NodeStep == /\ Extend \/ Reorg
            /\ UNCHANGED <<claimVars, storeVars, wpc, workVars, faults>>

BackfillNext == \/ \E w \in Worker : WorkerStep(w) \/ WorkerFault(w) \/ RefreshClaim(w)
                \/ \E s \in Slot : ClaimExpires(s)
                \/ NodeStep \/ DbCrash \/ PromoteCheckpoint

BackfillSpec == BackfillInit /\ [][BackfillNext]_backfillVars

(* Every process goes on, Docker restarts those that failed, time passes for the
   claims of the dead and the node's head grows.  Nothing is assumed of faults,
   of late refreshes or of the operator. *)
BackfillFairness ==
  /\ \A w \in Worker : WF_backfillVars(WorkerStep(w))
  /\ \A s \in Slot : WF_backfillVars(claim[s] = Dead /\ ClaimExpires(s))
  /\ WF_backfillVars(NodeStep)

FairBackfillSpec == BackfillSpec /\ BackfillFairness

(***************************************************************************)
(* Properties                                                              *)
(***************************************************************************)

(* What is stored of a chunk lies on one chain, that of its checkpoint, even when
   two owners work on it, each with prefetched blocks of its own, and whichever of
   them fails, restarts or aligns its cursor; only a crash of an UNLOGGED database
   makes holes in it. *)
ChunkIsChain == \A s \in Slot : wcp[s] # None =>
  /\ Num[wcp[s]] \in Chunk(s)
  /\ \A h \in ChunkStart(s)..Num[wcp[s]] :
       IF row[h] = None THEN emptied ELSE row[h] \in Line[wcp[s]]

(* The promotion is final, however the leases go on: the block that the promoter
   looks up in the journal is the checkpoint of the last slot, and from then on no
   owner that lost its lease puts a block fetched before, perhaps of another fork,
   over a promoted height; only a crash of an UNLOGGED journal takes rows away. *)
PromotionIsFinal ==
  [][/\ main' # None => \A s \in Slot : BackfillEnd \in Chunk(s) => main' = wcp'[s]
     /\ main # None => \A h \in BackfillStart..BackfillEnd :
          row'[h] = row[h] \/ (unlogged /\ row'[h] = None)]_backfillVars

(* The stored chunks implement the plan of module BackfillPlan. *)
progress == [s \in Slot |-> IF wcp[s] = None THEN ChunkStart(s) - 1 ELSE Num[wcp[s]]]
Plan == INSTANCE BackfillPlan WITH
          First <- [s \in Slot |-> ChunkStart(s)], Last <- [s \in Slot |-> ChunkEnd(s)],
          done <- progress, promoted <- main # None
PlanSpec == Plan!Spec

(* While nothing but crashes, late refreshes and failed calls happens, either all
   chunks are completed or every container has exited with code 0: no worker
   waits or repeats itself for ever. *)
AllDone == \A s \in Slot : HasRange(s) => ChunkDone(s)
CompletesOrExits == <>[](AllDone \/ \A w \in Worker : wpc[w] = "done")
=============================================================================
