----------------------------- MODULE Ingestion -----------------------------
(***************************************************************************)
(* The indexer and the finality promoter over one database and one node:   *)
(* the processes main-indexer and phase6-workers that ecosystem.config.js  *)
(* keeps running side by side.                                             *)
(***************************************************************************)
EXTENDS FinalityPromoter

vars == <<chainVars, dbVars, ixVars, fpVars, faults>>

TypeOK == ChainTypeOK /\ JournalTypeOK /\ IndexerTypeOK /\ PromoterTypeOK

Init == ChainInit /\ JournalInit /\ IndexerInit /\ PromoterInit

Next == \/ ChainNext /\ UNCHANGED <<dbVars, ixVars, fpVars, faults>>
        \/ IndexerNext /\ UNCHANGED <<chainVars, fpVars>>
        \/ PromoterStep /\ UNCHANGED <<chainVars, ixVars, faults>>
        \/ RewindRetry /\ UNCHANGED <<chainVars, ixVars>>
        \/ PromoterFails /\ UNCHANGED <<chainVars, ixVars>>

Spec == Init /\ [][Next]_vars

(* Both processes are interval loops that go on after every error they catch
   (tools/run-group.js starts the promoter with
   PHASE6_FINALITY_PROMOTER_RUN_ONCE=false); the node keeps producing blocks and
   proving them on L1.  Reorgs and faults end with their bounds.  The liveness
   runs have no crash: run-group.js does not restart one dead child. *)
Fairness == /\ WF_vars(Extend /\ UNCHANGED <<dbVars, ixVars, fpVars, faults>>)
            /\ WF_vars(AdvanceL1 /\ UNCHANGED <<dbVars, ixVars, fpVars, faults>>)
            /\ WF_vars(IndexerStep /\ UNCHANGED <<chainVars, fpVars>>)
            /\ WF_vars(PromoterStep /\ UNCHANGED <<chainVars, ixVars, faults>>)

FairSpec == Spec /\ Fairness

(***************************************************************************)
(* Safety                                                                  *)
(***************************************************************************)

(* What is stored as accepted on L1 is accepted on L1, and on the node's chain,
   however old the answer was that said so. *)
FinalIsCanonical == \A b \in Block :
  finality[b] = L1 => b \in Line[head] /\ Num[b] <= Num[l1Head]

(* The L1 checkpoint never names a block the node could still replace. *)
AnchorIsFinal == cp[L1] # None => cp[L1] \in Line[l1Head]

(* The L2 checkpoint moves to a child of the block it was at, or back to a block
   the node has accepted on L1: no commit jumps, however stale its payload. *)
CheckpointMoves == [][
  cp[L2]' # cp[L2] =>
    \/ cp[L2]' # None /\ Parent[cp[L2]'] = cp[L2]
    \/ cp[L2]' \in Line[l1Head] /\ Num[cp[L2]'] < Num[cp[L2]]]_vars

(* The stored blocks implement the log of module BlockLog. *)
Stored(h) == CHOOSE b \in Block : journal[b] = "active" /\ Num[b] = h
logTop == IF cp[L2] = None THEN FirstBlock - 1 ELSE Num[cp[L2]]
storedLog == [h \in FirstBlock..logTop |-> Stored(h)]
Log == INSTANCE BlockLog WITH First <- FirstBlock, top <- logTop, log <- storedLog
LogSpec == Log!Spec

(***************************************************************************)
(* Liveness                                                                *)
(***************************************************************************)

(* Docs/phase6_analytics.md: the L1 anchor is the last point we trust.  It is a
   stored block: the active row of its height, once that height is stored. *)
AnchorOnStoredChain ==
  cp[L1] # None /\ cp[L2] # None /\ Num[cp[L1]] <= Num[cp[L2]]
    => journal[cp[L1]] = "active"

(* Once the node's chain has come to rest the indexed head is its head, whenever
   the L1 checkpoint ends up on a stored block (the promoter protects the store
   from silent L2 divergence, Docs/phase6_analytics.md).  An anchor on no stored
   block is the only thing that can part the store from the node for good: no
   interleaving of batch, pass and replay does otherwise. *)
ConvergesOnStoredAnchor == <>[]AnchorOnStoredChain => <>[](cp[L2] = head)
=============================================================================
