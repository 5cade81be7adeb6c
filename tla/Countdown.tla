------------------------------ MODULE Countdown ------------------------------
(***************************************************************************)
(* What the counters of atomic/ are for: a number that goes down to 0 by   *)
(* ones, however many threads take it down.                                *)
(***************************************************************************)
EXTENDS Integers

CONSTANT N
VARIABLE num

Init == num = N
Take == num > 0 /\ num' = num - 1
Spec == Init /\ [][Take]_num
==============================================================================
