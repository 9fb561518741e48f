---------------------------- MODULE IndexerAlone ----------------------------
(***************************************************************************)
(* The indexer without the finality promoter, as phases 1 to 4 run it.     *)
(* Nothing rewinds the checkpoint, so the stored blocks are one chain.     *)
(***************************************************************************)
EXTENDS BlockIndexer

aloneVars == <<chainVars, dbVars, ixVars, faults>>

AloneTypeOK == ChainTypeOK /\ JournalTypeOK /\ IndexerTypeOK

AloneInit == ChainInit /\ JournalInit /\ IndexerInit

AloneNext == \/ ChainNext /\ UNCHANGED <<dbVars, ixVars, faults>>
             \/ IndexerNext /\ UNCHANGED chainVars

AloneSpec == AloneInit /\ [][AloneNext]_aloneVars
=============================================================================
