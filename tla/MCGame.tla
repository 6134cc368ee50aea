------------------------------- MODULE MCGame -------------------------------
(***************************************************************************)
(* Small games for TLC.  The cycles keep the order of op_tab: live costs    *)
(* less than a period and fork keeps its process busy for several rounds.   *)
(***************************************************************************)
EXTENDS GameClaims, TLC

(* Numbers of the champions, by slot; the second: a.cor -n 3 b.cor c.cor d.cor *)
ThreePlayers == <<1, 2, 3>>
MiddleTwoAlike == <<1, 3, 3, 4>>

(* Costs of the operations *)
AllCycles == [live |-> 1, fork |-> 3, add |-> 2]
=============================================================================
