----------------------------- MODULE GameClaims -----------------------------
(***************************************************************************)
(* What the documentation says of the game, stated over Game's variables.   *)
(* The code does otherwise: each claim is refuted by a run of its own.      *)
(***************************************************************************)
EXTENDS Game

(***************************************************************************)
(* README.md:3, "These programs simultaneously execute in the virtual       *)
(* machine": no program that was ever created drops out of the list that    *)
(* run_instructions walks.                                                  *)
(***************************************************************************)
NoProcessLost == Procs \subseteq Reach

(***************************************************************************)
(* README.md:28, "This starts over until there are no live processes left": *)
(* the game comes to its end.  Whatever the numbers of the champions: two   *)
(* have the same one also if no one is asked for twice, as add_champion     *)
(* gives a champion without -n its position, and not "the first free        *)
(* number" of README.md:37.                                                 *)
(***************************************************************************)
EveryGameEnds == <>(pc = "over")
=============================================================================
