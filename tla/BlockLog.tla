------------------------------ MODULE BlockLog ------------------------------
(***************************************************************************)
(* What the canonical store promises its readers, whatever the processes   *)
(* behind it do: the stored blocks form a log without gaps.  It grows by   *)
(* one block at its end, or is cut back to one of its prefixes.            *)
(***************************************************************************)
EXTENDS Integers

CONSTANTS Block, MaxHeight, First

VARIABLES top,   \* number of the last block; First - 1 while the log is empty
          log    \* the stored block of each height First..top

Init == /\ top \in {First - 1, First}
        /\ log \in [First..top -> Block]

Append(b) == /\ top < MaxHeight
             /\ top' = top + 1
             /\ log' = [h \in First..top' |-> IF h = top' THEN b ELSE log[h]]

Cut(n) == /\ top' = n
          /\ log' = [h \in First..n |-> log[h]]

Next == \/ \E b \in Block : Append(b)
        \/ \E n \in First..(top - 1) : Cut(n)

Spec == Init /\ [][Next]_<<top, log>>
=============================================================================
