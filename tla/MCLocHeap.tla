------------------------------ MODULE MCLocHeap ------------------------------
(* An instance of LocHeap for TLC: six objects, two pairs of which rank equally. *)
EXTENDS LocHeap

DueTimes == [i \in Items |-> (i + 1) \div 2 + (IF i = 6 THEN 1 ELSE 0)]
=============================================================================
