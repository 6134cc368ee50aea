---------------------------- MODULE MCGameLoops ----------------------------
(* Small games for the loops, with distinct and with repeated numbers. *)
EXTENDS GameLoops, TLC

FourDistinct == <<1, 2, 3, 4>>
MiddleTwoAlike == <<1, 3, 3, 4>>

ForkCycles == [live |-> 1, fork |-> 3]
=============================================================================
