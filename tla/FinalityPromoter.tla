-------------------------- MODULE FinalityPromoter --------------------------
(***************************************************************************)
(* jobs/finality-promoter.js: one pass of promoteAndReconcile after the    *)
(* other.  A pass reads both checkpoints, walks the active journal rows    *)
(* above the anchor in block order, and either promotes a row to           *)
(* ACCEPTED_ON_L1 or, at the first row the node no longer has, rewinds the *)
(* L2 checkpoint to the anchor it read and replays up to the node's head.  *)
(***************************************************************************)
EXTENDS BlockIndexer

VARIABLES
  fpPc,
  anchor,      \* checkpoints.l1 of this pass
  l2Tip,       \* checkpoints.l2 of this pass
  remoteTip,   \* remoteTipBlockNumber, of the walk and then of the replay
  window,      \* localRows still to compare
  replayAt,    \* blockNumber of the replay loop
  replayed,    \* payload fetched by the replay, not yet committed
  recon        \* status of the latest stark_reconciliation_log row

fpVars == <<fpPc, anchor, l2Tip, remoteTip, window, replayAt, replayed, recon>>

PromoterTypeOK ==
  /\ fpPc \in {"idle", "readTip", "readRemote", "load", "compare", "promote",
               "rewind", "rewindCommit", "replayTip", "replayFetch",
               "replayCommit"}
  /\ anchor \in Block \cup {None}
  /\ l2Tip \in Height
  /\ remoteTip \in Height
  /\ window \in SUBSET Block
  /\ replayAt \in 0..(MaxHeight + 1)
  /\ replayed \in Payload \cup {None}
  /\ fpPc = "replayCommit" => replayed # None /\ replayAt \in Height
  /\ recon \in {"none", "REPLAYING", "RESOLVED", "FAILED"}

PromoterInit == /\ fpPc = "idle"
                /\ anchor = None /\ l2Tip = 0 /\ remoteTip = 0
                /\ window = {}
                /\ replayAt = 0 /\ replayed = None
                /\ recon = "none"

(* replayFromBlock *)
ReplayFrom == IF anchor = None THEN 0 ELSE Num[anchor] + 1

(* The local variables of the pass go out of scope. *)
EndOfPass == /\ fpPc' = "idle"
             /\ anchor' = None /\ l2Tip' = 0 /\ remoteTip' = 0
             /\ window' = {}
             /\ replayAt' = 0 /\ replayed' = None

(* The two checkpoints are read by two statements, outside a transaction. *)
ReadAnchor == /\ fpPc = "idle"
              /\ fpPc' = "readTip"
              /\ anchor' = cp[L1]
              /\ UNCHANGED <<l2Tip, remoteTip, window, replayAt, replayed, recon>>
              /\ UNCHANGED dbVars

ReadL2Tip == /\ fpPc = "readTip"
             /\ IF cp[L2] = None
                  THEN EndOfPass
                  ELSE /\ fpPc' = "readRemote"
                       /\ l2Tip' = Num[cp[L2]]
                       /\ UNCHANGED <<anchor, remoteTip, window, replayAt, replayed>>
             /\ UNCHANGED <<recon, dbVars>>

ReadRemoteTip ==
  /\ fpPc = "readRemote"
  /\ fpPc' = "load"
  /\ remoteTip' = RemoteTip
  /\ UNCHANGED <<anchor, l2Tip, window, replayAt, replayed, recon, dbVars>>

LoadActiveJournalWindow ==
  /\ fpPc = "load"
  /\ fpPc' = "compare"
  /\ window' = {b \in Block : journal[b] = "active"
                              /\ Num[b] \in ReplayFrom..l2Tip}
  /\ UNCHANGED <<anchor, l2Tip, remoteTip, replayAt, replayed, recon, dbVars>>

(* The row the walk is at: the lowest one left. *)
IsNextRow(b) == b \in window /\ \A x \in window : Num[b] <= Num[x]

(* The walk is over, or the row is above the node's head. *)
WindowDone == /\ fpPc = "compare"
              /\ \A b \in window : Num[b] > remoteTip
              /\ EndOfPass
              /\ UNCHANGED <<recon, dbVars>>

\* Mutants of CompareRow: every row the node still has is promoted; a row the
\* node no longer has ends the walk as if it were not yet accepted on L1.
CompareHashOnly ==
  /\ fpPc = "compare"
  /\ \E b \in window :
       /\ IsNextRow(b) /\ Num[b] <= remoteTip /\ Num[b] <= RemoteTip
       /\ fpPc' = IF RemoteBlock(Num[b]) = b THEN "promote" ELSE "rewind"
  /\ UNCHANGED <<anchor, l2Tip, remoteTip, window, replayAt, replayed>>
  /\ UNCHANGED <<recon, dbVars>>

CompareStatusOnly ==
  /\ fpPc = "compare"
  /\ \E b \in window :
       /\ IsNextRow(b) /\ Num[b] <= remoteTip /\ Num[b] <= RemoteTip
       /\ IF RemotePayload(Num[b]) # [block |-> b, status |-> L1]
            THEN EndOfPass
            ELSE /\ fpPc' = "promote"
                 /\ UNCHANGED <<anchor, l2Tip, remoteTip, window, replayAt, replayed>>
  /\ UNCHANGED <<recon, dbVars>>

(* detectDivergence, and the break at the first row the node has not yet
   accepted on L1. *)
CompareRow ==
  /\ fpPc = "compare"
  /\ \E b \in window :
       /\ IsNextRow(b) /\ Num[b] <= remoteTip /\ Num[b] <= RemoteTip
       /\ LET remote == RemotePayload(Num[b]) IN
          IF remote.block = b /\ remote.status # L1
            THEN EndOfPass
            ELSE /\ fpPc' = IF remote.block = b THEN "promote" ELSE "rewind"
                 /\ UNCHANGED <<anchor, l2Tip, remoteTip, window, replayAt, replayed>>
  /\ UNCHANGED <<recon, dbVars>>

(* The node lost the height since its tip was read: getBlockWithReceipts fails
   and main logs the error. *)
CompareMissing ==
  /\ fpPc = "compare"
  /\ \E b \in window : IsNextRow(b) /\ Num[b] <= remoteTip /\ Num[b] > RemoteTip
  /\ EndOfPass
  /\ UNCHANGED <<recon, dbVars>>

PromoteRow ==
  /\ fpPc = "promote"
  /\ \E b \in window : /\ IsNextRow(b)
                       /\ PromoteBlockToL1(b)
                       /\ window' = window \ {b}
  /\ fpPc' = "compare"
  /\ UNCHANGED <<anchor, l2Tip, remoteTip, replayAt, replayed, recon>>

(* reconcileFromAnchor opens its transaction and runs the DELETE statements:
   they see, and lock, the rows committed by now. *)
RewindDelete ==
  /\ fpPc = "rewind"
  /\ fpPc' = "rewindCommit"
  /\ locked' = {h \in Height : h >= ReplayFrom /\ derived[h] # None}
  /\ UNCHANGED <<cp, journal, finality, derived, rawFinality>>
  /\ UNCHANGED <<anchor, l2Tip, remoteTip, window, replayAt, replayed, recon>>

Delete(f) == [h \in Height |-> IF h \in locked THEN None ELSE f[h]]

(* resetCheckpointToAnchor, then COMMIT: the journal rows up to the L2 tip this
   pass read are orphaned, the deleted rows are gone, the checkpoint moves. *)
RewindCommit ==
  /\ fpPc = "rewindCommit"
  /\ journal' = [b \in Block |->
       IF journal[b] = "active" /\ Num[b] \in ReplayFrom..l2Tip
         THEN "orphaned" ELSE journal[b]]
  /\ derived' = Delete(derived)
  /\ rawFinality' = Delete(rawFinality)
  /\ cp' = [cp EXCEPT ![L2] = anchor]
  /\ locked' = {}
  /\ recon' = "REPLAYING"
  /\ replayAt' = ReplayFrom
  /\ fpPc' = "replayTip"
  /\ UNCHANGED <<finality, anchor, l2Tip, remoteTip, window, replayed>>

(* The reset waits for the checkpoint row of a transaction that waits for the
   deleted rows: Postgres aborts it, and withTransaction runs it again. *)
RewindRetry ==
  /\ fpPc = "rewindCommit"
  /\ faults < MaxFaults
  /\ faults' = faults + 1
  /\ fpPc' = "rewind"
  /\ locked' = {}
  /\ UNCHANGED <<cp, journal, finality, derived, rawFinality>>
  /\ UNCHANGED <<anchor, l2Tip, remoteTip, window, replayAt, replayed, recon>>

ReadReplayTip ==
  /\ fpPc = "replayTip"
  /\ fpPc' = "replayFetch"
  /\ remoteTip' = RemoteTip
  /\ UNCHANGED <<anchor, l2Tip, window, replayAt, replayed, recon, dbVars>>

ReplayFetch ==
  /\ fpPc = "replayFetch"
  /\ replayAt <= remoteTip /\ replayAt <= RemoteTip
  /\ fpPc' = "replayCommit"
  /\ replayed' = RemotePayload(replayAt)
  /\ UNCHANGED <<anchor, l2Tip, remoteTip, window, replayAt, recon, dbVars>>

ReplayCommit == /\ fpPc = "replayCommit"
                /\ ProcessAcceptedBlock(replayed)
                /\ fpPc' = "replayFetch"
                /\ replayAt' = replayAt + 1
                /\ replayed' = None
                /\ UNCHANGED <<anchor, l2Tip, remoteTip, window, recon>>

(* The replayed block does not follow the checkpoint, because the indexer moved
   it meanwhile, or its height is gone from the node: the incident is FAILED. *)
ReplayRejected ==
  /\ \/ fpPc = "replayCommit" /\ ~SequentialProgress(replayed.block)
     \/ fpPc = "replayFetch" /\ replayAt <= remoteTip /\ replayAt > RemoteTip
  /\ recon' = "FAILED"
  /\ EndOfPass
  /\ UNCHANGED dbVars

(* The replay reached the tip it had read, the rollups are refreshed. *)
ReplayFinished == /\ fpPc = "replayFetch"
                  /\ replayAt > remoteTip
                  /\ recon' = "RESOLVED"
                  /\ EndOfPass
                  /\ UNCHANGED dbVars

Replaying == fpPc \in {"replayTip", "replayFetch", "replayCommit"}

(* An RPC or database error, or a SIGTERM during the replay, which leaves the
   loop without an error.  An open transaction rolls back. *)
PassFails ==
  /\ fpPc # "idle"
  /\ recon' \in IF fpPc = "replayFetch" THEN {"FAILED", "RESOLVED"}
                ELSE IF Replaying THEN {"FAILED"} ELSE {recon}

(* The process dies: the incident stays as it is. *)
PromoterCrashes == fpPc # "idle" /\ UNCHANGED recon

PromoterFails ==
  /\ PassFails \/ PromoterCrashes
  /\ faults < MaxFaults
  /\ faults' = faults + 1
  /\ EndOfPass
  /\ locked' = {}
  /\ UNCHANGED <<cp, journal, finality, derived, rawFinality>>

PromoterStep ==
  \/ ReadAnchor \/ ReadL2Tip \/ ReadRemoteTip \/ LoadActiveJournalWindow
  \/ WindowDone \/ CompareRow \/ CompareMissing \/ PromoteRow
  \/ RewindDelete \/ RewindCommit \/ ReadReplayTip \/ ReplayFetch
  \/ ReplayCommit \/ ReplayRejected \/ ReplayFinished
=============================================================================
