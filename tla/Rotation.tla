------------------------------ MODULE Rotation ------------------------------
(***************************************************************************)
(* What round-robin scheduling promises on one hart: the tasks 0 .. N-1    *)
(* get the hart in turn, forever, starting with task 0.                    *)
(***************************************************************************)
EXTENDS Integers

CONSTANT N

VARIABLE cur   \* the task whose turn it is, -1 before the first

Init == cur = -1

Rotate == cur' = (cur + 1) % N

Spec == Init /\ [][Rotate]_cur /\ WF_cur(Rotate)
=============================================================================
