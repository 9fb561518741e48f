---------------------------- MODULE BackfillPlan ----------------------------
(***************************************************************************)
(* What the parallel backfill promises: every slot has a range of its own, *)
(* fills it block by block from its first to its last height, and the main *)
(* checkpoint is promoted once, after all of them.                         *)
(***************************************************************************)
EXTENDS Integers

CONSTANTS Slot, First, Last

VARIABLES done,      \* the last stored height of each slot
          promoted

Init == /\ done = [s \in Slot |-> First[s] - 1]
        /\ promoted = FALSE

Store(s) == /\ done[s] < Last[s]
            /\ done' = [done EXCEPT ![s] = @ + 1]
            /\ UNCHANGED promoted

Promote == /\ \A s \in Slot : First[s] <= Last[s] => done[s] = Last[s]
           /\ ~promoted
           /\ promoted' = TRUE
           /\ UNCHANGED done

Next == (\E s \in Slot : Store(s)) \/ Promote

Spec == Init /\ [][Next]_<<done, promoted>>
=============================================================================
