----------------------------- MODULE Tournament -----------------------------
(***************************************************************************)
(* What the game promises its players, without processes, cycles or memory: *)
(* champions say they are alive, and from time to time they are judged.     *)
(* Those who have spoken since the last judgement stay, the others are      *)
(* dead; each judgement shortens the time to the next, and the game is over *)
(* when one champion is left or no time is left.  Game implements it.       *)
(***************************************************************************)
EXTENDS Integers

CONSTANTS N, Id, MAX_CHAMPIONS, CYCLE_TO_DIE, CYCLE_DELTA

VARIABLES
    alive,    \* the champions (slots) still in the game
    said,     \* those of them that have spoken since the last judgement
    budget,   \* the length of the period
    verdict   \* the slot announced as the winner, 0 while the game goes on

tvars == <<alive, said, budget, verdict>>

Champions == 1..N

Init ==
    /\ alive = Champions
    /\ said = {}
    /\ budget = CYCLE_TO_DIE
    /\ verdict = 0

(* A program of champion c says it is alive; so do all with its number. *)
Speak(c) ==
    /\ verdict = 0
    /\ said' = said \cup {s \in alive : Id[s] = Id[c]}
    /\ UNCHANGED <<alive, budget, verdict>>

(***************************************************************************)
(* When nobody has spoken, everybody dies, except that the champion of the  *)
(* last slot, if it was still in the game, is spared and wins.              *)
(***************************************************************************)
Survivors == IF said = {} /\ N \in alive THEN {N} ELSE said

OneSurvives == \E c \in Champions : Survivors = {c}

(***************************************************************************)
(* The lowest surviving slot.  With no survivor the first spare slot is     *)
(* announced, a champion that was never loaded, or slot 1 if none is spare. *)
(***************************************************************************)
Winner(S) ==
    IF S # {} THEN CHOOSE s \in S : \A t \in S : s <= t
    ELSE IF N < MAX_CHAMPIONS THEN N + 1 ELSE 1

Judge ==
    /\ verdict = 0
    /\ alive' = Survivors
    /\ said' = {}
    /\ budget' = budget - CYCLE_DELTA
    /\ verdict' = IF OneSurvives \/ budget' <= 0
                  THEN Winner(Survivors) ELSE 0

Next == Judge \/ \E c \in Champions : Speak(c)

Spec == Init /\ [][Next]_tvars
FairSpec == Spec /\ WF_tvars(Judge)
=============================================================================
