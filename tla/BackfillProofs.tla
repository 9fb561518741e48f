--------------------------- MODULE BackfillProofs ---------------------------
(***************************************************************************)
(* Theorems of ParallelBackfill.  A commit is safe although a slot may     *)
(* have two owners because no cursor is ever ahead of the slot's           *)
(* checkpoint, and no worker holds a block of another chunk.               *)
(***************************************************************************)
EXTENDS ParallelBackfill, Induction

(* resolveChunkRange: a chunk lies in the range, and chunks do not overlap. *)
LEMMA ChunkBounds ==
  ASSUME NEW s \in Slot
  PROVE  /\ ChunkStart(s) \in Int /\ ChunkEnd(s) \in Int
         /\ BackfillStart <= ChunkStart(s) /\ ChunkEnd(s) <= BackfillEnd
         /\ ChunkStart(s) - 1 <= ChunkEnd(s) \/ ~HasRange(s)
  <1>1. BackfillStart \in Int /\ BackfillEnd \in Int /\ ChunkSize \in Nat \ {0}
    BY BackfillAssumption, TreeAssumption DEF Height
  <1>2. (s - 1) * ChunkSize \in Nat
    <2>1. s - 1 \in Nat
      BY BackfillAssumption DEF Slot
    <2> DEFINE k == s - 1
    <2>2. ASSUME NEW i \in Nat, NEW c \in Nat PROVE i * c \in Nat
      BY <2>2
    <2> QED BY <1>1, <2>1, <2>2
  <1> QED BY <1>1, <1>2 DEF ChunkStart, ChunkEnd, HasRange

LEMMA ChunksDisjoint ==
  ASSUME NEW s \in Slot, NEW t \in Slot, s < t
  PROVE  ChunkEnd(s) < ChunkStart(t)
  <1>1. s \in Int /\ t \in Int /\ ChunkSize \in Nat /\ BackfillStart \in Int
        /\ BackfillEnd \in Int
    BY BackfillAssumption, TreeAssumption DEF Height, Slot
  <1>2. ASSUME NEW i \in Int, NEW j \in Int, NEW c \in Nat, i < j
        PROVE  (i - 1) * c + c <= (j - 1) * c
    <2>1. (i - 1) * c + c = i * c
      BY <1>2
    <2>2. (j - 1) * c = i * c + (j - 1 - i) * c
      BY <1>2
    <2>3. (j - 1 - i) * c >= 0
      <3>1. j - 1 - i \in Nat
        BY <1>2
      <3>2. ASSUME NEW k \in Nat PROVE k * c >= 0
        BY <1>2, <3>2
      <3> QED BY <3>1, <3>2
    <2> QED BY <1>2, <2>1, <2>2, <2>3
  <1>3. (s - 1) * ChunkSize + ChunkSize <= (t - 1) * ChunkSize
    BY <1>1, <1>2
  <1>4. (s - 1) * ChunkSize \in Int /\ (t - 1) * ChunkSize \in Int
    BY <1>1
  <1> QED BY <1>1, <1>3, <1>4 DEF ChunkStart, ChunkEnd

(* What is known of the lines of blocks: derived by induction on the tree from
   the equation they are defined by. *)
LEMMA Lines ==
  /\ Line \in [Block -> SUBSET Block]
  /\ \A b \in Block :
       /\ Line[b] = {b} \cup IF Parent[b] = None THEN {} ELSE Line[Parent[b]]
       /\ \A n \in 0..Num[b] : \E c \in Line[b] : Num[c] = n
       /\ \A c \in Line[b] : Num[c] <= Num[b] /\ Line[c] \subseteq Line[b]
       /\ \A c, d \in Line[b] : /\ Num[c] = Num[d] => c = d
                                /\ Num[c] <= Num[d] => c \in Line[d]
  <1>1. IsTree(Block, Num, Parent, None)
    BY TreeAssumption DEF IsTree, Height
  <1>2. IsLine(Block, Parent, None, Line)
    BY LineAssumption DEF IsLine
  <1>3. Line \in [Block -> SUBSET Block]
    BY LineAssumption
  <1>4. \A b \in Block :
          Line[b] = {b} \cup IF Parent[b] = None THEN {} ELSE Line[Parent[b]]
    BY LineAssumption
  <1>5. \A b \in Block :
       /\ \A n \in 0..Num[b] : \E c \in Line[b] : Num[c] = n
       /\ \A c \in Line[b] : Num[c] <= Num[b] /\ Line[c] \subseteq Line[b]
       /\ \A c, d \in Line[b] : /\ Num[c] = Num[d] => c = d
                                /\ Num[c] <= Num[d] => c \in Line[d]
    BY <1>1, <1>2, LineOfTree
  <1> QED BY <1>3, <1>4, <1>5

(* A height up to the head has one block on the chain of the node. *)
LEMMA RemoteBlockOfHeight ==
  ASSUME head \in Block, NEW n \in 0..RemoteTip
  PROVE  RemoteBlock(n) \in Block /\ Num[RemoteBlock(n)] = n
  BY Lines DEF RemoteBlock, RemoteTip

(***************************************************************************)
(* The inductive invariant                                                 *)
(***************************************************************************)

Working(w) == wpc[w] \in {"run", "resync"}

(* A worker's blocks are of its chunk; nobody else holds any. *)
FetchedInChunk == \A w \in Worker :
  /\ wpc[w] = "run" => \A b \in fetched[w] : Num[b] \in Chunk(slot[w])
  /\ wpc[w] # "run" => fetched[w] = {}

(* The height behind which a slot's checkpoint is. *)
Reached(s) == IF wcp[s] = None THEN ChunkStart(s) - 1 ELSE Num[wcp[s]]

CursorBehind == \A w \in Worker :
  Working(w) => /\ HasRange(slot[w])
                /\ cursor[w] \in ChunkStart(slot[w])..(Reached(slot[w]) + 1)

CheckpointInChunk == \A s \in Slot : wcp[s] # None =>
  HasRange(s) /\ Num[wcp[s]] \in Chunk(s)

RowsAtTheirHeight == \A h \in Height : row[h] # None => Num[row[h]] = h

(* BackfillTypeOK without its last but one conjunct, which follows. *)
BTypes ==
  /\ ChainTypeOK
  /\ claim \in [Slot -> Worker \cup {None, Dead}]
  /\ overdue \in SUBSET Slot
  /\ wcp \in [Slot -> Block \cup {None}]
  /\ row \in [Height -> Block \cup {None}]
  /\ unlogged \in BOOLEAN /\ emptied \in BOOLEAN
  /\ main \in Block \cup {None}
  /\ wpc \in [Worker -> {"claiming", "begin", "run", "resync", "down", "done"}]
  /\ slot \in [Worker -> Slot]
  /\ cursor \in [Worker -> 0..(MaxHeight + 1)]
  /\ fetched \in [Worker -> SUBSET Block]
  /\ faults \in 0..MaxFaults

BInv == /\ BTypes /\ FetchedInChunk /\ CursorBehind /\ CheckpointInChunk
        /\ RowsAtTheirHeight

LEMMA BInvGivesType == BInv => BackfillTypeOK
  <1> SUFFICES ASSUME BInv PROVE BackfillTypeOK
    OBVIOUS
  <1>1. ASSUME NEW w \in Worker, wpc[w] \in {"run", "resync"}
        PROVE  cursor[w] \in ChunkStart(slot[w])..(ChunkEnd(slot[w]) + 1)
    <2>1. slot[w] \in Slot /\ HasRange(slot[w])
          /\ cursor[w] \in ChunkStart(slot[w])..(Reached(slot[w]) + 1)
      BY <1>1 DEF BInv, BTypes, CursorBehind, Working
    <2>2. /\ ChunkStart(slot[w]) \in Int /\ ChunkEnd(slot[w]) \in Int
          /\ ChunkStart(slot[w]) - 1 <= ChunkEnd(slot[w])
      BY <2>1, ChunkBounds
    <2>3. Reached(slot[w]) \in Int /\ Reached(slot[w]) <= ChunkEnd(slot[w])
      BY <2>1, <2>2 DEF Reached, BInv, CheckpointInChunk, Chunk
    <2> QED BY <2>1, <2>2, <2>3
  <1> QED BY <1>1 DEF BInv, BTypes, BackfillTypeOK

LEMMA InitGivesBInv == BackfillInit => BInv
  <1> SUFFICES ASSUME BackfillInit PROVE BInv
    OBVIOUS
  <1>1. BTypes
    <2>1. MaxHeight \in Nat /\ Root \in Block /\ MaxReorgs \in Nat
      BY TreeAssumption, ChainAssumption
    <2>2. TotalWorkers \in Nat \ {0} /\ MaxFaults \in Nat
      BY BackfillAssumption
    <2>3. ChainTypeOK
      BY <2>1 DEF BackfillInit, ChainTypeOK
    <2>4. 1 \in Slot /\ 0 \in 0..(MaxHeight + 1) /\ 0 \in 0..MaxFaults
      BY <2>1, <2>2 DEF Slot
    <2> QED BY <2>3, <2>4 DEF BackfillInit, BTypes
  <1>2. FetchedInChunk /\ CursorBehind
    BY DEF BackfillInit, FetchedInChunk, CursorBehind, Working
  <1>3. CheckpointInChunk /\ RowsAtTheirHeight
    BY DEF BackfillInit, CheckpointInChunk, RowsAtTheirHeight
  <1> QED BY <1>1, <1>2, <1>3 DEF BInv

(* A step of one worker that keeps the store and sets its own position. *)
LEMMA ProcessKeepsBInv ==
  ASSUME BInv, UNCHANGED <<chainVars, wcp, row, emptied, main>>,
         claim' \in [Slot -> Worker \cup {None, Dead}], overdue' \in SUBSET Slot,
         unlogged' \in BOOLEAN, faults' \in 0..MaxFaults,
         NEW w \in Worker, NEW l \in {"claiming", "begin", "down", "done"},
         NEW s \in Slot, NEW c \in 0..(MaxHeight + 1),
         wpc' = [wpc EXCEPT ![w] = l], slot' = [slot EXCEPT ![w] = s],
         cursor' = [cursor EXCEPT ![w] = c], fetched' = [fetched EXCEPT ![w] = {}]
  PROVE  BInv'
  BY DEF BInv, BTypes, ChainTypeOK, chainVars, FetchedInChunk, CursorBehind, Working,
         Reached, CheckpointInChunk, RowsAtTheirHeight

LEMMA ReleasedType ==
  ASSUME BTypes, NEW w \in Worker
  PROVE  /\ Released(w) \in [Slot -> Worker \cup {None, Dead}]
         /\ Orphaned(w) \in [Slot -> Worker \cup {None, Dead}]
  BY DEF BTypes, Released, Orphaned

LEMMA FaultType == ASSUME BTypes, Fault PROVE faults' \in 0..MaxFaults
  BY BackfillAssumption DEF BTypes, Fault

LEMMA LeaseKeepsBInv ==
  ASSUME BInv, NEW w \in Worker, ClaimSlot(w) \/ RefreshClaim(w)
  PROVE  BInv'
  <1>0. BTypes /\ 1 \in Slot /\ 0 \in 0..(MaxHeight + 1)
    BY BackfillAssumption, TreeAssumption DEF BInv, Slot
  <1>1. CASE ClaimSlot(w)
    <2>1. PICK t \in Slot : slot' = [slot EXCEPT ![w] = t]
      BY <1>1 DEF ClaimSlot
    <2>2. claim' \in [Slot -> Worker \cup {None, Dead}]
      BY <1>0, <1>1 DEF ClaimSlot, BTypes
    <2>3. cursor' = [cursor EXCEPT ![w] = cursor[w]]
          /\ fetched' = [fetched EXCEPT ![w] = {}]
      BY <1>1 DEF ClaimSlot, BInv, BTypes, FetchedInChunk
    <2>4. cursor[w] \in 0..(MaxHeight + 1)
      BY <1>0 DEF BTypes
    <2> HIDE DEF BInv
    <2> QED BY <1>0, <1>1, <2>1, <2>2, <2>3, <2>4, ProcessKeepsBInv
        DEF ClaimSlot, Goto, storeVars, BTypes
  <1>2. CASE RefreshClaim(w) /\ Owns(w, slot[w])
    BY <1>2 DEF RefreshClaim, BInv, BTypes, ChainTypeOK, chainVars,
       storeVars, workVars, FetchedInChunk, CursorBehind, Working, Reached,
       CheckpointInChunk, RowsAtTheirHeight
  <1>3. CASE RefreshClaim(w) /\ ~Owns(w, slot[w])
    BY <1>0, <1>3, ProcessKeepsBInv DEF RefreshClaim, Ended, Goto, storeVars, BTypes
  <1> QED BY <1>1, <1>2, <1>3

(* A worker leaves its chunk, or its container is started or ends. *)
LEMMA EndKeepsBInv ==
  ASSUME BInv, NEW w \in Worker,
         FinishChunk(w) \/ Stop(w) \/ Crash(w) \/ Restart(w) \/ Relaunch(w)
  PROVE  BInv'
  <1>0. BTypes /\ 1 \in Slot /\ 0 \in 0..(MaxHeight + 1)
    BY BackfillAssumption, TreeAssumption DEF BInv, Slot
  <1>1. Released(w) \in [Slot -> Worker \cup {None, Dead}]
        /\ Orphaned(w) \in [Slot -> Worker \cup {None, Dead}]
    BY <1>0, ReleasedType
  <1>2. CASE FinishChunk(w)
    BY <1>0, <1>1, <1>2, ProcessKeepsBInv
    DEF FinishChunk, ExitsClean, Ended, Goto, BTypes
  <1>3. CASE Stop(w)
    BY <1>0, <1>1, <1>3, FaultType, ProcessKeepsBInv
    DEF Stop, ExitsClean, Ended, Goto, BTypes
  <1>4. CASE Crash(w)
    BY <1>0, <1>1, <1>4, FaultType, ProcessKeepsBInv
    DEF Crash, Ended, Goto, storeVars, BTypes
  <1>5. CASE Restart(w) \/ Relaunch(w)
    <2>1. faults' \in 0..MaxFaults
      BY <1>0, <1>5, FaultType DEF Restart, Relaunch, BTypes
    <2>2. /\ fetched' = [fetched EXCEPT ![w] = {}]
          /\ cursor' = [cursor EXCEPT ![w] = cursor[w]]
          /\ slot' = [slot EXCEPT ![w] = slot[w]]
      BY <1>5 DEF Restart, Relaunch, workVars, BInv, BTypes, FetchedInChunk
    <2>3. cursor[w] \in 0..(MaxHeight + 1) /\ slot[w] \in Slot
      BY <1>0 DEF BTypes
    <2> QED BY <1>0, <1>5, <2>1, <2>2, <2>3, ProcessKeepsBInv
        DEF Restart, Relaunch, Goto, claimVars, storeVars, BTypes
  <1> QED BY <1>2, <1>3, <1>4, <1>5

(***************************************************************************)
(* Steps inside a chunk                                                    *)
(***************************************************************************)

LEMMA BeginKeepsBInv ==
  ASSUME BInv, NEW w \in Worker, BeginChunk(w)
  PROVE  BInv'
  <1>0. /\ BTypes /\ 1 \in Slot /\ 0 \in 0..(MaxHeight + 1) /\ slot[w] \in Slot
        /\ Released(w) \in [Slot -> Worker \cup {None, Dead}]
    BY BackfillAssumption, TreeAssumption, ReleasedType DEF BInv, BTypes, Slot
  <1>1. CASE ~HasRange(slot[w])
    BY <1>0, <1>1, ProcessKeepsBInv DEF BeginChunk, ExitsClean, Ended, Goto, BTypes
  <1>2. CASE HasRange(slot[w])
    <2>1. /\ cursor' = [cursor EXCEPT ![w] = Reached(slot[w]) + 1]
          /\ wpc' = [wpc EXCEPT ![w] = "run"]
          /\ UNCHANGED <<chainVars, claim, overdue, wcp, row, emptied, main, slot, fetched>>
          /\ UNCHANGED faults
          /\ unlogged' \in BOOLEAN
      <3>1. ChunkStart(slot[w]) \in Int
        BY <1>0, ChunkBounds
      <3> QED BY <1>0, <1>2, <3>1 DEF BeginChunk, Goto, Reached, claimVars, BTypes
    <2>2. /\ Reached(slot[w]) + 1 \in ChunkStart(slot[w])..(Reached(slot[w]) + 1)
          /\ Reached(slot[w]) + 1 \in 0..(MaxHeight + 1)
      <3>1. /\ ChunkStart(slot[w]) \in Int /\ ChunkStart(slot[w]) >= 0
            /\ ChunkStart(slot[w]) <= MaxHeight
        BY <1>0, <1>2, ChunkBounds, BackfillAssumption, TreeAssumption DEF Height, HasRange
      <3>2. wcp[slot[w]] # None => Num[wcp[slot[w]]] \in Height
                                   /\ Num[wcp[slot[w]]] >= ChunkStart(slot[w])
        BY <1>0, <3>1, ChunkBounds, TreeAssumption
        DEF BInv, BTypes, CheckpointInChunk, Chunk
      <3> QED BY <3>1, <3>2, TreeAssumption DEF Reached, Height
    <2>3. fetched[w] = {}
      BY DEF BeginChunk, BInv, FetchedInChunk
    <2> QED BY <1>0, <1>2, <2>1, <2>2, <2>3 DEF BInv, BTypes, ChainTypeOK, chainVars,
         FetchedInChunk, CursorBehind, Working, Reached, CheckpointInChunk,
         RowsAtTheirHeight
  <1> QED BY <1>1, <1>2

LEMMA PrefetchKeepsBInv ==
  ASSUME BInv, NEW w \in Worker, PrefetchBlock(w)
  PROVE  BInv'
  <1>1. PICK n \in Chunk(slot[w]) :
          /\ n <= RemoteTip
          /\ fetched' = [fetched EXCEPT ![w] = fetched[w] \cup {RemoteBlock(n)}]
    BY DEF PrefetchBlock
  <1>2. n \in 0..RemoteTip
    <2>1. slot[w] \in Slot
      BY DEF BInv, BTypes
    <2> QED BY <1>1, <2>1, ChunkBounds, BackfillAssumption DEF Chunk, Height
  <1>3. RemoteBlock(n) \in Block /\ Num[RemoteBlock(n)] = n
    BY <1>2, RemoteBlockOfHeight DEF BInv, BTypes, ChainTypeOK
  <1> QED BY <1>1, <1>3 DEF PrefetchBlock, BInv, BTypes, ChainTypeOK, chainVars,
       claimVars, storeVars, FetchedInChunk, CursorBehind, Working, Reached,
       CheckpointInChunk, RowsAtTheirHeight

(* The commit of the block at the cursor: the cursor is the height behind the
   checkpoint, and the block the checkpoint's child. *)
Advances(w, b) ==
  /\ b \in Block /\ slot[w] \in Slot /\ HasRange(slot[w])
  /\ Num[b] = Reached(slot[w]) + 1 /\ Num[b] \in Chunk(slot[w]) /\ Num[b] \in Height
  /\ wcp[slot[w]] # None => Parent[b] = wcp[slot[w]]
  /\ row' = [row EXCEPT ![Num[b]] = b]
  /\ wcp' = [wcp EXCEPT ![slot[w]] = b]

LEMMA CommitAdvances ==
  ASSUME BInv, NEW w \in Worker, CommitChunkBlock(w)
  PROVE  \E b \in fetched[w] : /\ Advances(w, b) /\ cursor[w] = Num[b]
                               /\ fetched' = [fetched EXCEPT ![w] = fetched[w] \ {b}]
  <1>1. PICK b \in fetched[w] :
          /\ Num[b] = cursor[w] /\ FollowsCheckpoint(slot[w], b)
          /\ row' = [row EXCEPT ![Num[b]] = b]
          /\ wcp' = [wcp EXCEPT ![slot[w]] = b]
          /\ fetched' = [fetched EXCEPT ![w] = fetched[w] \ {b}]
    BY DEF CommitChunkBlock
  <1>2. /\ b \in Block /\ slot[w] \in Slot /\ HasRange(slot[w])
        /\ Num[b] \in Chunk(slot[w]) /\ Num[b] \in Height
        /\ cursor[w] \in ChunkStart(slot[w])..(Reached(slot[w]) + 1)
    BY <1>1, TreeAssumption DEF CommitChunkBlock, BInv, BTypes, FetchedInChunk,
       CursorBehind, Working
  <1>3. Num[b] = Reached(slot[w]) + 1
    BY <1>1, <1>2, ChunkBounds DEF FollowsCheckpoint, Reached, Height
  <1> QED BY <1>1, <1>2, <1>3 DEF Advances, FollowsCheckpoint

LEMMA CommitKeepsBInv ==
  ASSUME BInv, NEW w \in Worker, CommitChunkBlock(w)
  PROVE  BInv'
  <1>1. PICK b \in fetched[w] : /\ Advances(w, b) /\ cursor[w] = Num[b]
                               /\ fetched' = [fetched EXCEPT ![w] = fetched[w] \ {b}]
    BY CommitAdvances
  <1>2. /\ UNCHANGED <<chainVars, claim, overdue, unlogged, emptied, main, wpc, slot, faults>>
        /\ cursor' = [cursor EXCEPT ![w] = Num[b] + 1]
    BY <1>1 DEF CommitChunkBlock, claimVars
  <1>3. Num[b] + 1 \in 0..(MaxHeight + 1) /\ b # None
    BY <1>1, TreeAssumption DEF Advances, Height
  <1>4. BTypes'
    BY <1>1, <1>2, <1>3 DEF Advances, BInv, BTypes, ChainTypeOK, chainVars
  <1>5. FetchedInChunk'
    BY <1>1, <1>2 DEF BInv, BTypes, FetchedInChunk, Chunk, ChunkStart, ChunkEnd
  <1>6. CursorBehind'
    <2> SUFFICES ASSUME NEW v \in Worker, Working(v)'
                 PROVE  /\ HasRange(slot[v])
                        /\ cursor'[v] \in ChunkStart(slot[v])..(Reached(slot[v])' + 1)
      BY <1>2 DEF CursorBehind, HasRange, ChunkStart, Working, Reached
    <2>1. /\ HasRange(slot[v]) /\ slot[v] \in Slot
          /\ cursor[v] \in ChunkStart(slot[v])..(Reached(slot[v]) + 1)
      BY <1>2 DEF BInv, BTypes, CursorBehind, Working
    <2>2. Reached(slot[w])' = Num[b] /\ Num[b] = Reached(slot[w]) + 1
          /\ Num[b] \in Int /\ ChunkStart(slot[w]) <= Num[b]
      BY <1>1, <1>2, <1>3, ChunkBounds DEF Advances, Reached, BInv, BTypes, Height, Chunk
    <2>3. CASE v = w
      BY <1>1, <1>2, <2>1, <2>2, <2>3, ChunkBounds DEF BInv, BTypes
    <2>4. CASE v # w /\ slot[v] = slot[w]
      BY <1>1, <1>2, <2>1, <2>2, <2>4, ChunkBounds DEF BInv, BTypes
    <2>5. CASE v # w /\ slot[v] # slot[w]
      <3>1. Reached(slot[v])' = Reached(slot[v]) /\ cursor'[v] = cursor[v]
        BY <1>1, <1>2, <2>1, <2>5 DEF Advances, Reached, BInv, BTypes, ChunkStart
      <3> QED BY <2>1, <3>1
    <2> QED BY <2>3, <2>4, <2>5
  <1>7. CheckpointInChunk'
    BY <1>1, <1>2 DEF Advances, BInv, BTypes, CheckpointInChunk, Chunk, HasRange,
       ChunkStart, ChunkEnd
  <1>8. RowsAtTheirHeight'
    BY <1>1 DEF Advances, BInv, BTypes, RowsAtTheirHeight
  <1> QED BY <1>4, <1>5, <1>6, <1>7, <1>8 DEF BInv

LEMMA ErrorKeepsBInv ==
  ASSUME BInv, NEW w \in Worker,
         ChunkBlockRejected(w) \/ BatchFails(w) \/ ResyncCursor(w) \/ ResyncFails(w)
  PROVE  BInv'
  <1>0. BTypes /\ slot[w] \in Slot
    BY DEF BInv, BTypes
  <1>1. CASE ChunkBlockRejected(w) \/ BatchFails(w)
    <2>1. faults' \in 0..MaxFaults
      BY <1>0, <1>1, FaultType DEF ChunkBlockRejected, BatchFails, BTypes
    <2>2. CatchesError(w)
      BY <1>1 DEF ChunkBlockRejected, BatchFails
    <2> QED BY <2>1, <2>2 DEF CatchesError, Goto, BInv, BTypes, ChainTypeOK, chainVars,
         claimVars, storeVars, FetchedInChunk, CursorBehind, Working, Reached,
         CheckpointInChunk, RowsAtTheirHeight
  <1>2. CASE ResyncCursor(w) \/ ResyncFails(w)
    <2>1. /\ HasRange(slot[w])
          /\ cursor[w] \in ChunkStart(slot[w])..(Reached(slot[w]) + 1)
          /\ Reached(slot[w]) \in Int /\ Reached(slot[w]) <= MaxHeight
          /\ ChunkStart(slot[w]) \in Nat
      <3>1. /\ HasRange(slot[w])
            /\ cursor[w] \in ChunkStart(slot[w])..(Reached(slot[w]) + 1)
        BY <1>2 DEF ResyncCursor, ResyncFails, BInv, CursorBehind, Working
      <3>2. ChunkStart(slot[w]) \in Nat /\ ChunkStart(slot[w]) <= MaxHeight
        BY <1>0, <3>1, ChunkBounds, BackfillAssumption, TreeAssumption
        DEF Height, HasRange
      <3>3. wcp[slot[w]] # None => Num[wcp[slot[w]]] \in Height
        BY <1>0, TreeAssumption DEF BTypes
      <3> QED BY <3>1, <3>2, <3>3, TreeAssumption DEF Reached, Height
    <2>2. PICK c \in ChunkStart(slot[w])..(Reached(slot[w]) + 1) :
            cursor' = [cursor EXCEPT ![w] = c]
      <3>1. CASE ResyncCursor(w)
        <4>1. \/ cursor' = [cursor EXCEPT ![w] = cursor[w]]
              \/ /\ wcp[slot[w]] # None /\ Num[wcp[slot[w]]] + 1 > cursor[w]
                 /\ cursor' = [cursor EXCEPT ![w] = Num[wcp[slot[w]]] + 1]
          BY <3>1 DEF ResyncCursor
        <4> QED BY <2>1, <4>1 DEF Reached
      <3>2. CASE ResyncFails(w)
        <4>1. PICK c \in ChunkStart(slot[w])..cursor[w] :
                cursor' = [cursor EXCEPT ![w] = c]
          BY <3>2 DEF ResyncFails
        <4>2. c \in ChunkStart(slot[w])..(Reached(slot[w]) + 1)
          BY <2>1, <4>1
        <4> QED BY <4>1, <4>2
      <3> QED BY <1>2, <3>1, <3>2
    <2>3. faults' \in 0..MaxFaults
      BY <1>0, <1>2, FaultType DEF ResyncCursor, ResyncFails, BTypes
    <2>4. /\ wpc' = [wpc EXCEPT ![w] = "run"] /\ wpc[w] = "resync"
          /\ UNCHANGED <<chainVars, claim, overdue, storeVars, slot, fetched>>
      BY <1>2 DEF ResyncCursor, ResyncFails, Goto, claimVars
    <2>5. fetched[w] = {} /\ c \in 0..(MaxHeight + 1)
      BY <2>1, <2>2, <2>4, TreeAssumption DEF BInv, FetchedInChunk
    <2> QED BY <2>1, <2>2, <2>3, <2>4, <2>5 DEF BInv, BTypes, ChainTypeOK, chainVars,
         storeVars, FetchedInChunk, CursorBehind, Working, Reached, CheckpointInChunk,
         RowsAtTheirHeight
  <1> QED BY <1>1, <1>2

LEMMA OutsideKeepsBInv ==
  ASSUME BInv, NodeStep \/ DbCrash \/ PromoteCheckpoint
  PROVE  BInv'
  <1>0. BTypes /\ 1 \in Slot /\ 0 \in 0..(MaxHeight + 1)
    BY BackfillAssumption, TreeAssumption DEF BInv, Slot
  <1>1. CASE NodeStep
    <2>1. ChainTypeOK'
      BY <1>0, <1>1, ChainAssumption DEF NodeStep, Extend, Reorg, BTypes, ChainTypeOK
    <2> QED BY <1>1, <2>1 DEF NodeStep, claimVars, storeVars, workVars, BInv, BTypes,
         FetchedInChunk, CursorBehind, Working, Reached, CheckpointInChunk,
         RowsAtTheirHeight
  <1>2. CASE DbCrash
    <2>1. PICK hit \in SUBSET {w \in Worker : wpc[w] \notin {"down", "done"}} :
       /\ claim' = [s \in Slot |-> IF \E w \in hit : Owns(w, s) THEN Dead ELSE claim[s]]
       /\ wpc' = [w \in Worker |-> IF w \in hit THEN "down" ELSE wpc[w]]
       /\ slot' = [w \in Worker |-> IF w \in hit THEN 1 ELSE slot[w]]
       /\ cursor' = [w \in Worker |-> IF w \in hit THEN 0 ELSE cursor[w]]
       /\ fetched' = [w \in Worker |-> IF w \in hit THEN {} ELSE fetched[w]]
      BY <1>2 DEF DbCrash
    <2>2. faults' \in 0..MaxFaults
      BY <1>0, <1>2, FaultType DEF DbCrash
    <2>3. row' \in [Height -> Block \cup {None}] /\ RowsAtTheirHeight'
      BY <1>0, <1>2 DEF DbCrash, BTypes, BInv, RowsAtTheirHeight
    <2>4. BTypes'
      BY <1>0, <1>2, <2>1, <2>2, <2>3 DEF DbCrash, BTypes, ChainTypeOK, chainVars
    <2>5. FetchedInChunk' /\ CursorBehind' /\ CheckpointInChunk'
      BY <1>0, <1>2, <2>1 DEF DbCrash, BInv, BTypes, FetchedInChunk, CursorBehind,
         Working, Reached, CheckpointInChunk
    <2> QED BY <2>3, <2>4, <2>5 DEF BInv
  <1>3. CASE PromoteCheckpoint
    <2>1. main' \in Block \cup {None}
      BY <1>0, <1>3, BackfillAssumption, TreeAssumption
      DEF PromoteCheckpoint, BTypes, Height
    <2> QED BY <1>3, <2>1 DEF PromoteCheckpoint, claimVars, workVars, BInv, BTypes,
         ChainTypeOK, chainVars, FetchedInChunk, CursorBehind, Working, Reached,
         CheckpointInChunk, RowsAtTheirHeight
  <1> QED BY <1>1, <1>2, <1>3

LEMMA StepKeepsBInv == BInv /\ [BackfillNext]_backfillVars => BInv'
  <1> SUFFICES ASSUME BInv, [BackfillNext]_backfillVars PROVE BInv'
    OBVIOUS
  <1>1. CASE \E w \in Worker : WorkerStep(w) \/ WorkerFault(w) \/ RefreshClaim(w)
    <2>1. PICK w \in Worker : WorkerStep(w) \/ WorkerFault(w) \/ RefreshClaim(w)
      BY <1>1
    <2>2. 1 \in Slot
      BY BackfillAssumption DEF Slot
    <2> QED BY <2>1, <2>2, LeaseKeepsBInv, EndKeepsBInv, BeginKeepsBInv,
         PrefetchKeepsBInv, CommitKeepsBInv, ErrorKeepsBInv DEF WorkerStep, WorkerFault
  <1>2. CASE \E s \in Slot : ClaimExpires(s)
    <2>1. PICK s \in Slot : ClaimExpires(s)
      BY <1>2
    <2>2. faults' \in 0..MaxFaults
      BY <2>1, FaultType DEF ClaimExpires, BInv, BTypes
    <2> QED BY <2>1, <2>2 DEF ClaimExpires, BInv, BTypes, ChainTypeOK, chainVars,
         storeVars, workVars, FetchedInChunk, CursorBehind, Working, Reached,
         CheckpointInChunk, RowsAtTheirHeight
  <1>3. CASE NodeStep \/ DbCrash \/ PromoteCheckpoint
    BY <1>3, OutsideKeepsBInv
  <1>4. CASE UNCHANGED backfillVars
    BY <1>4 DEF backfillVars, chainVars, claimVars, storeVars, workVars, BInv, BTypes,
       ChainTypeOK, FetchedInChunk, CursorBehind, Working, Reached, CheckpointInChunk,
       RowsAtTheirHeight
  <1> QED BY <1>1, <1>2, <1>3, <1>4 DEF BackfillNext

LEMMA BInvariance == BackfillSpec => []BInv
  <1> QED BY InitGivesBInv, StepKeepsBInv, PTL DEF BackfillSpec

(* Type correctness; its last conjuncts say that no worker leaves its chunk, whatever
   it finds in the checkpoint of its slot when it begins or aligns its cursor. *)
THEOREM BackfillTypeCorrect == BackfillSpec => []BackfillTypeOK
  BY BInvariance, BInvGivesType, PTL

(***************************************************************************)
(* The store and the promotion                                             *)
(***************************************************************************)

(* Only a commit and the crash of an UNLOGGED database change rows or the slots'
   checkpoints. *)
LEMMA StoreIsKept ==
  ASSUME BackfillNext
  PROVE  \/ UNCHANGED <<row, wcp, emptied>>
         \/ \E w \in Worker : CommitChunkBlock(w)
         \/ DbCrash
  BY DEF BackfillNext, WorkerStep, WorkerFault, ClaimSlot, BeginChunk, PrefetchBlock,
     ChunkBlockRejected, ResyncCursor, FinishChunk, Restart, BatchFails, ResyncFails,
     Stop, Crash, Relaunch, RefreshClaim, ClaimExpires, CatchesError, NodeStep,
     PromoteCheckpoint, storeVars

LEMMA CommitKeepsChains ==
  ASSUME BInv, ChunkIsChain, NEW w \in Worker, CommitChunkBlock(w)
  PROVE  ChunkIsChain'
  <1>1. PICK b \in fetched[w] : Advances(w, b)
    BY CommitAdvances
  <1>2. /\ b # None /\ b \in Block /\ emptied' = emptied
        /\ wcp \in [Slot -> Block \cup {None}] /\ row \in [Height -> Block \cup {None}]
    BY <1>1, TreeAssumption DEF Advances, BInv, BTypes, CommitChunkBlock
  <1> SUFFICES ASSUME NEW s \in Slot, wcp'[s] # None
               PROVE  /\ Num[wcp'[s]] \in Chunk(s)
                      /\ \A h \in ChunkStart(s)..Num[wcp'[s]] :
                           IF row'[h] = None THEN emptied ELSE row'[h] \in Line[wcp'[s]]
    BY <1>2 DEF ChunkIsChain, Chunk, ChunkStart, ChunkEnd
  <1>3. /\ ChunkStart(s) \in Int /\ ChunkEnd(s) \in Int
        /\ 0 <= ChunkStart(s) /\ ChunkEnd(s) <= MaxHeight
    BY ChunkBounds, BackfillAssumption, TreeAssumption DEF Height
  <1>4. CASE s = slot[w]
    <2>1. /\ wcp'[s] = b /\ row'[Num[b]] = b /\ Num[b] \in Chunk(s)
          /\ \A h \in Height : h # Num[b] => row'[h] = row[h]
      BY <1>1, <1>2, <1>4 DEF Advances
    <2>2. b \in Line[b]
      BY <1>2, Lines
    <2>3. ASSUME NEW h \in ChunkStart(s)..Num[b], h # Num[b]
          PROVE  IF row'[h] = None THEN emptied ELSE row'[h] \in Line[b]
      <3>1. h \in Height /\ h < Num[b] /\ h \in Int /\ Num[b] \in Int
        BY <1>1, <1>3, <2>1, <2>3, TreeAssumption DEF Height, Chunk
      <3>2. wcp[s] # None /\ h \in ChunkStart(s)..Num[wcp[s]]
        <4>1. wcp[s] # None => Num[wcp[s]] \in Int
          BY <1>2, TreeAssumption DEF Height
        <4> QED BY <1>1, <1>3, <1>4, <2>3, <3>1, <4>1 DEF Advances, Reached
      <3>3. Line[wcp[s]] \subseteq Line[b]
        <4>1. Parent[b] = wcp[s] /\ Parent[b] # None
          BY <1>1, <1>4, <3>2 DEF Advances
        <4>2. Line[b] = {b} \cup Line[Parent[b]]
          BY <1>2, <4>1, Lines
        <4> QED BY <4>1, <4>2
      <3>4. row'[h] = row[h]
        BY <2>1, <2>3, <3>1
      <3> QED BY <3>2, <3>3, <3>4 DEF ChunkIsChain
    <2> QED BY <1>2, <2>1, <2>2, <2>3
  <1>5. CASE s # slot[w]
    <2>1. wcp'[s] = wcp[s]
      BY <1>1, <1>2, <1>5 DEF Advances
    <2>2. Num[b] \notin Chunk(s) /\ Num[b] \in Int
      <3>1. /\ slot[w] \in Slot /\ Num[b] \in Chunk(slot[w]) /\ Num[b] \in Int
            /\ ChunkStart(slot[w]) \in Int /\ ChunkEnd(slot[w]) \in Int
        BY <1>1, ChunkBounds DEF Advances, Height
      <3>2. s < slot[w] \/ slot[w] < s
        BY <1>5, <3>1 DEF Slot
      <3> QED BY <1>3, <3>1, <3>2, ChunksDisjoint DEF Chunk
    <2>3. \A h \in Chunk(s) : row'[h] = row[h]
      <3>1. \A h \in Chunk(s) : h \in Height /\ h # Num[b]
        BY <1>3, <2>2, TreeAssumption DEF Chunk, Height
      <3> QED BY <1>1, <1>2, <3>1 DEF Advances
    <2>4. Num[wcp[s]] \in Chunk(s)
      BY <2>1 DEF ChunkIsChain
    <2>5. ASSUME NEW h \in ChunkStart(s)..Num[wcp[s]] PROVE row'[h] = row[h]
      <3>1. h \in Chunk(s)
        BY <1>3, <2>4, <2>5 DEF Chunk
      <3> QED BY <2>3, <3>1
    <2>6. ASSUME NEW h \in ChunkStart(s)..Num[wcp[s]]
          PROVE  IF row'[h] = None THEN emptied ELSE row'[h] \in Line[wcp[s]]
      BY <2>1, <2>5, <2>6 DEF ChunkIsChain
    <2> QED BY <2>1, <2>4, <2>6
  <1> QED BY <1>4, <1>5

(* The rows of a chunk lie on its checkpoint's chain, for any number of workers, of
   which any number may share a slot; only a crash of an UNLOGGED database makes
   holes. *)
THEOREM ChunksAreChains == BackfillSpec => []ChunkIsChain
  <1>1. BackfillInit => ChunkIsChain
    BY DEF BackfillInit, ChunkIsChain
  <1>2. BInv /\ ChunkIsChain /\ [BackfillNext]_backfillVars => ChunkIsChain'
    <2> SUFFICES ASSUME BInv, ChunkIsChain, [BackfillNext]_backfillVars
                 PROVE  ChunkIsChain'
      OBVIOUS
    <2>1. CASE UNCHANGED <<row, wcp, emptied>>
      BY <2>1 DEF ChunkIsChain, Chunk, ChunkStart, ChunkEnd
    <2>2. CASE UNCHANGED backfillVars
      BY <2>1, <2>2 DEF backfillVars, storeVars
    <2>3. CASE DbCrash
      <3>1. /\ wcp' = wcp
            /\ \/ row' = row /\ emptied' = emptied
               \/ row' = [h \in Height |-> None] /\ emptied'
        <4>1. CASE unlogged
          BY <2>3, <4>1 DEF DbCrash
        <4>2. CASE ~unlogged
          <5>1. emptied' = (emptied \/ unlogged) /\ emptied \in BOOLEAN
            BY <2>3 DEF DbCrash, BInv, BTypes
          <5>2. emptied' = emptied
            BY <4>2, <5>1
          <5> QED BY <2>3, <4>2, <5>2 DEF DbCrash
        <4> QED BY <4>1, <4>2
      <3>2. CASE row' = row /\ emptied' = emptied
        BY <2>1, <3>1, <3>2
      <3>3. CASE row' = [h \in Height |-> None] /\ emptied'
        <4> SUFFICES ASSUME NEW s \in Slot, wcp[s] # None
                     PROVE  /\ Num[wcp[s]] \in Chunk(s)
                            /\ \A h \in ChunkStart(s)..Num[wcp[s]] : row'[h] = None
          BY <3>1, <3>3 DEF ChunkIsChain, Chunk, ChunkStart, ChunkEnd
        <4>1. Num[wcp[s]] \in Chunk(s)
          BY DEF ChunkIsChain
        <4>2. \A h \in ChunkStart(s)..Num[wcp[s]] : h \in Height
          BY <4>1, ChunkBounds, BackfillAssumption, TreeAssumption DEF Chunk, Height
        <4> QED BY <3>3, <4>1, <4>2
      <3> QED BY <3>1, <3>2, <3>3
    <2> QED BY <2>1, <2>2, <2>3, StoreIsKept, CommitKeepsChains
  <1> QED BY <1>1, <1>2, BInvariance, PTL DEF BackfillSpec

(* A step that is neither a commit nor the promotion leaves the plan alone. *)
LEMMA PlanIsKept ==
  ASSUME BackfillNext
  PROVE  \/ UNCHANGED <<wcp, main>>
         \/ \E w \in Worker : CommitChunkBlock(w)
         \/ PromoteCheckpoint
  BY DEF BackfillNext, WorkerStep, WorkerFault, ClaimSlot, BeginChunk, PrefetchBlock,
     ChunkBlockRejected, ResyncCursor, FinishChunk, Restart, BatchFails, ResyncFails,
     Stop, Crash, Relaunch, RefreshClaim, ClaimExpires, CatchesError, NodeStep, DbCrash,
     storeVars

(***************************************************************************)
(* The promotion                                                           *)
(***************************************************************************)

(* Once promoted, every chunk is done, and the main checkpoint is the last's. *)
Promoted == main # None =>
  /\ \A s \in Slot : HasRange(s) => ChunkDone(s)
  /\ \A s \in Slot : BackfillEnd \in Chunk(s) => main = wcp[s]

(* In a chunk that is done there is nothing left to commit. *)
LEMMA NoCommitAfterPromotion ==
  ASSUME BInv, Promoted, NEW w \in Worker, CommitChunkBlock(w)
  PROVE  main = None
  <1>1. PICK b \in fetched[w] : Advances(w, b)
    BY CommitAdvances
  <1>2. /\ slot[w] \in Slot /\ HasRange(slot[w])
        /\ Num[b] = Reached(slot[w]) + 1 /\ Num[b] \in Chunk(slot[w])
        /\ ChunkStart(slot[w]) \in Int /\ ChunkEnd(slot[w]) \in Int
    BY <1>1, ChunkBounds DEF Advances
  <1>3. ~ChunkDone(slot[w])
    BY <1>2 DEF ChunkDone, Reached, Chunk
  <1> QED BY <1>2, <1>3 DEF Promoted

(* The promoter reads the journal, not the checkpoints of the slots: it finds the
   last slot's block there because the rows of a chunk lie on that block's chain. *)
LEMMA PromotionTakesLast ==
  ASSUME BInv, ChunkIsChain, PromoteCheckpoint
  PROVE  Promoted' /\ UNCHANGED <<wcp, row>>
  <1>1. UNCHANGED <<wcp, row>> /\ main' = row[BackfillEnd] /\ CoverageComplete
        /\ \A s \in Slot : HasRange(s) => ChunkDone(s)
    BY DEF PromoteCheckpoint
  <1>2. /\ BackfillEnd \in Height /\ BackfillEnd \in BackfillStart..BackfillEnd
        /\ BackfillEnd \in Int
    BY BackfillAssumption, TreeAssumption DEF Height
  <1>3. row[BackfillEnd] # None /\ Num[row[BackfillEnd]] = BackfillEnd
    BY <1>1, <1>2 DEF CoverageComplete, BInv, RowsAtTheirHeight
  <1>4. ASSUME NEW s \in Slot, BackfillEnd \in Chunk(s) PROVE row[BackfillEnd] = wcp[s]
    <2>1. /\ HasRange(s) /\ ChunkEnd(s) = BackfillEnd
          /\ BackfillEnd \in ChunkStart(s)..BackfillEnd
      BY <1>2, <1>4, ChunkBounds DEF Chunk, HasRange
    <2>2. wcp[s] \in Block /\ Num[wcp[s]] = BackfillEnd /\ wcp[s] # None
      BY <1>1, <2>1 DEF ChunkDone, BInv, BTypes
    <2>3. row[BackfillEnd] \in Line[wcp[s]]
      BY <1>3, <2>1, <2>2 DEF ChunkIsChain
    <2>4. wcp[s] \in Line[wcp[s]]
      BY <2>2, Lines
    <2> QED BY <1>3, <2>2, <2>3, <2>4, Lines
  <1> QED BY <1>1, <1>4 DEF Promoted, ChunkDone, HasRange, Chunk, ChunkStart, ChunkEnd

LEMMA StepKeepsPromoted ==
  ASSUME BInv, ChunkIsChain, Promoted, [BackfillNext]_backfillVars
  PROVE  Promoted'
  <1>1. ASSUME UNCHANGED <<wcp, main>> PROVE Promoted'
    BY <1>1 DEF Promoted, ChunkDone, HasRange, Chunk, ChunkStart, ChunkEnd
  <1>2. ASSUME NEW w \in Worker, CommitChunkBlock(w) PROVE Promoted'
    BY <1>2, NoCommitAfterPromotion DEF CommitChunkBlock, Promoted
  <1>3. UNCHANGED backfillVars => UNCHANGED <<wcp, main>>
    BY DEF backfillVars, storeVars
  <1> QED BY <1>1, <1>2, <1>3, PlanIsKept, PromotionTakesLast

(* What the promotion names stays: no worker whose lease was lost, however many
   there are, replaces a block of the promoted range. *)
THEOREM PromotedStays == BackfillSpec => PromotionIsFinal
  <1> DEFINE Final ==
        /\ main' # None => \A s \in Slot : BackfillEnd \in Chunk(s) => main' = wcp'[s]
        /\ main # None => \A h \in BackfillStart..BackfillEnd :
             row'[h] = row[h] \/ (unlogged /\ row'[h] = None)
  <1>1. BackfillInit => Promoted
    BY DEF BackfillInit, Promoted
  <1>2. ASSUME BInv, ChunkIsChain, Promoted, [BackfillNext]_backfillVars
        PROVE  Promoted' /\ [Final]_backfillVars
    <2>1. Promoted'
      BY <1>2, StepKeepsPromoted
    <2>2. main' # None => \A s \in Slot : BackfillEnd \in Chunk(s) => main' = wcp'[s]
      BY <2>1 DEF Promoted, Chunk, ChunkStart, ChunkEnd
    <2>3. ASSUME main # None, NEW h \in BackfillStart..BackfillEnd
          PROVE  row'[h] = row[h] \/ (unlogged /\ row'[h] = None)
                 \/ UNCHANGED backfillVars
      <3>1. CASE UNCHANGED row
        BY <3>1
      <3>2. ASSUME NEW w \in Worker, CommitChunkBlock(w) PROVE FALSE
        BY <1>2, <2>3, <3>2, NoCommitAfterPromotion
      <3>3. CASE DbCrash
        <4>1. h \in Height
          BY BackfillAssumption, TreeAssumption DEF Height
        <4> QED BY <3>3, <4>1 DEF DbCrash
      <3> QED BY <1>2, <3>1, <3>2, <3>3, StoreIsKept
    <2> QED BY <2>1, <2>2, <2>3
  <1> QED BY <1>1, <1>2, BInvariance, ChunksAreChains, PTL
      DEF BackfillSpec, PromotionIsFinal

LEMMA CommitStores ==
  ASSUME BInv, NEW w \in Worker, CommitChunkBlock(w)
  PROVE  Plan!Store(slot[w]) /\ slot[w] \in Slot
  <1>1. PICK b \in fetched[w] : Advances(w, b)
    BY CommitAdvances
  <1>2. /\ slot[w] \in Slot /\ b # None /\ wcp \in [Slot -> Block \cup {None}]
        /\ Num[b] = Reached(slot[w]) + 1 /\ Num[b] \in Chunk(slot[w])
    BY <1>1, TreeAssumption DEF Advances, BInv, BTypes
  <1>3. progress = [s \in Slot |-> Reached(s)]
    BY DEF progress, Reached
  <1>4. ChunkStart(slot[w]) \in Int /\ ChunkEnd(slot[w]) \in Int
    BY <1>2, ChunkBounds
  <1>5. Reached(slot[w]) \in Int
    <2>1. wcp[slot[w]] # None => Num[wcp[slot[w]]] \in Int
      BY <1>2, TreeAssumption DEF Height
    <2> QED BY <1>4, <2>1 DEF Reached
  <1>6. progress[slot[w]] < ChunkEnd(slot[w])
    BY <1>2, <1>3, <1>4, <1>5 DEF Chunk
  <1>7. progress' = [progress EXCEPT ![slot[w]] = progress[slot[w]] + 1]
    <2>1. Reached(slot[w])' = Reached(slot[w]) + 1
      BY <1>1, <1>2 DEF Advances, Reached, CommitChunkBlock
    <2>2. \A s \in Slot : s # slot[w] => Reached(s)' = Reached(s)
      BY <1>1, <1>2 DEF Advances, Reached, ChunkStart
    <2>3. progress' = [s \in Slot |-> Reached(s)']
      BY DEF progress, Reached
    <2>4. slot' = slot
      BY DEF CommitChunkBlock
    <2> QED BY <1>2, <1>3, <2>1, <2>2, <2>3, <2>4 DEF Reached, ChunkStart
  <1>8. UNCHANGED (main # None)
    BY DEF CommitChunkBlock
  <1> QED BY <1>2, <1>6, <1>7, <1>8 DEF Plan!Store

LEMMA PromotionPromotes ==
  ASSUME BInv, PromoteCheckpoint
  PROVE  Plan!Promote
  <1>1. main = None /\ main' # None /\ wcp' = wcp
    <2>1. BackfillEnd \in BackfillStart..BackfillEnd
      BY BackfillAssumption, TreeAssumption DEF Height
    <2> QED BY <2>1 DEF PromoteCheckpoint, CoverageComplete
  <1>2. \A s \in Slot : HasRange(s) => progress[s] = ChunkEnd(s)
    BY DEF PromoteCheckpoint, ChunkDone, progress
  <1>3. ASSUME NEW s \in Slot, ChunkStart(s) <= ChunkEnd(s) PROVE HasRange(s)
    BY <1>3, ChunkBounds, BackfillAssumption, TreeAssumption DEF HasRange, Height
  <1>4. progress' = progress
    BY <1>1 DEF progress, ChunkStart
  <1> QED BY <1>1, <1>2, <1>3, <1>4 DEF Plan!Promote

(* The leases, the retries and the crashes implement the plan: slots fill up one
   height at a time and never lose one, and the promotion comes after all. *)
THEOREM BackfillImplementsPlan == BackfillSpec => PlanSpec
  <1>1. BackfillInit => Plan!Init
    BY DEF BackfillInit, Plan!Init, progress
  <1>2. BInv /\ [BackfillNext]_backfillVars => [Plan!Next]_<<progress, main # None>>
    <2> SUFFICES ASSUME BInv, [BackfillNext]_backfillVars
                 PROVE  Plan!Next \/ UNCHANGED <<progress, main # None>>
      OBVIOUS
    <2>1. ASSUME UNCHANGED <<wcp, main>> PROVE UNCHANGED <<progress, main # None>>
      BY <2>1 DEF progress, ChunkStart
    <2>2. ASSUME \E w \in Worker : CommitChunkBlock(w) PROVE Plan!Next
      BY <2>2, CommitStores DEF Plan!Next
    <2>3. ASSUME PromoteCheckpoint PROVE Plan!Next
      BY <2>3, PromotionPromotes DEF Plan!Next
    <2>4. UNCHANGED backfillVars => UNCHANGED <<wcp, main>>
      BY DEF backfillVars, storeVars
    <2> QED BY <2>1, <2>2, <2>3, <2>4, PlanIsKept
  <1> QED BY <1>1, <1>2, BInvariance, PTL DEF BackfillSpec, PlanSpec, Plan!Spec
=============================================================================
