--------------------------- MODULE StarknetChain ---------------------------
(***************************************************************************)
(* The Starknet node behind the RPC URL (external).  The code sees it      *)
(* through getBlockNumber, getBlockWithReceipts and getStateUpdate only:   *)
(* the height of the head, and for a height the block there now and        *)
(* whether it is already accepted on L1.  Blocks accepted on L1 are final; *)
(* blocks above may be replaced, which is what the promoter looks for.     *)
(***************************************************************************)
EXTENDS BlockTree

CONSTANT MaxReorgs   \* bound: how often the node may switch to another fork

ASSUME ChainAssumption == MaxReorgs \in Nat

VARIABLES head,      \* the node's latest block
          l1Head,    \* the latest block accepted on L1, on the line of head
          reorgs

chainVars == <<head, l1Head, reorgs>>

ChainTypeOK == /\ head \in Block
               /\ l1Head \in Block
               /\ reorgs \in 0..MaxReorgs

ChainInit == head = Root /\ l1Head = Root /\ reorgs = 0

(* getBlockNumber *)
RemoteTip == Num[head]

(* getBlockWithReceipts + getStateUpdate of height n <= RemoteTip *)
RemoteBlock(n) == CHOOSE b \in Line[head] : Num[b] = n
RemoteStatus(n) == IF n <= Num[l1Head] THEN L1 ELSE L2
RemotePayload(n) == [block |-> RemoteBlock(n), status |-> RemoteStatus(n)]

Extend == \E b \in Block : /\ Parent[b] = head
                           /\ head' = b
                           /\ UNCHANGED <<l1Head, reorgs>>

(* The suffix above l1Head is replaced: the new head is not a descendant of the
   old one, and may be lower. *)
Reorg == \E b \in Block : /\ reorgs < MaxReorgs
                          /\ l1Head \in Line[b]
                          /\ head \notin Line[b]
                          /\ b \notin Line[head]
                          /\ head' = b
                          /\ reorgs' = reorgs + 1
                          /\ UNCHANGED l1Head

AdvanceL1 == /\ Num[l1Head] < RemoteTip
             /\ l1Head' = RemoteBlock(Num[l1Head] + 1)
             /\ UNCHANGED <<head, reorgs>>

ChainNext == Extend \/ Reorg \/ AdvanceL1
=============================================================================
