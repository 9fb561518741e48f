----------------------------- MODULE BlockTree -----------------------------
(***************************************************************************)
(* The blocks a Starknet node may ever serve, as a constant tree.  A block *)
(* stands for its hash: two blocks with the same number are two forks of   *)
(* the same height.  Root is the block the deployment starts from.         *)
(***************************************************************************)
EXTENDS Integers, FiniteSets

CONSTANTS Block, Root, Num, Parent, MaxHeight,
          Line,  \* the blocks from Root to a block, both included
          None   \* SQL NULL, and "no value" of a JavaScript variable

Height == 0..MaxHeight

ASSUME TreeAssumption ==
  /\ MaxHeight \in Nat
  /\ None \notin Block
  /\ Root \in Block
  /\ Num \in [Block -> Height]
  /\ Parent \in [Block -> Block \cup {None}]
  /\ Num[Root] = 0 /\ Parent[Root] = None
  /\ \A b \in Block \ {Root} :
       Parent[b] \in Block /\ Num[b] = Num[Parent[b]] + 1

(* The lanes of core/finality.js that carry a checkpoint; a block's finality
   status is one of the same two names. *)
L2 == "ACCEPTED_ON_L2"
L1 == "ACCEPTED_ON_L1"
Lane == {L1, L2}

(* What fetchAcceptedBlockPayload returns: the block and the finality status the
   node reported at that moment. *)
Payload == [block : Block, status : Lane]

ASSUME NoneAssumption == None \notin Payload /\ None \notin Lane

ASSUME LineAssumption ==
  /\ Line \in [Block -> SUBSET Block]
  /\ \A b \in Block :
       Line[b] = {b} \cup IF Parent[b] = None THEN {} ELSE Line[Parent[b]]
=============================================================================
