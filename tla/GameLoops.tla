------------------------------ MODULE GameLoops ------------------------------
(***************************************************************************)
(* The game with its two inner loops taken one iteration at a time:         *)
(* check_champion_lives, which kills and counts in one walk over the slots, *)
(* and find_process, which walks the list a fork is about to rewire.  Game  *)
(* has each of them as one step with the result in closed form; GameLoops   *)
(* implements Game, so the closed forms are what the loops compute.         *)
(***************************************************************************)
EXTENDS Game

VARIABLES
    at,           \* the loop the thread is in: "none", "check" or "search"
    k,            \* check_champion_lives: i, as a slot
    champs_left,  \* check_champion_lives: champs_left
    walker,       \* find_process: current
    op,           \* the operation that called find_process
    before        \* what Game still shows of the variables the loop's caller
                  \* has already assigned (an auxiliary variable)

loopVars == <<at, k, champs_left, walker, op, before>>
allVars == <<vars, loopVars>>

Shown == [nbr_cycles |-> nbr_cycles, cycle_to_die |-> cycle_to_die, lives |-> lives,
          winner |-> winner, dead |-> dead, champ_lives |-> champ_lives, dumped |-> dumped]

LoopsInit ==
    /\ Init
    /\ at = "none"
    /\ k = 0
    /\ champs_left = 0
    /\ walker = 0
    /\ op = "none"
    /\ before = Shown

Idle ==
    /\ at' = "none"
    /\ k' = 0
    /\ champs_left' = 0
    /\ walker' = 0
    /\ op' = "none"

(* game_on up to the call of check_champion_lives. *)
BeginCheck ==
    /\ at = "none"
    /\ pc = "game_on"
    /\ PeriodOver
    /\ dumped' = (dumped \/ DumpNow)
    /\ cycle_to_die' = cycle_to_die - CYCLE_DELTA
    /\ nbr_cycles' = 0
    /\ lives' = 0
    /\ winner' = 0
    /\ at' = "check"
    /\ k' = 1
    /\ champs_left' = N
    /\ before' = Shown
    /\ UNCHANGED <<ringVars, champ_lives, dead, announced, turnVars, running, pc, walker, op>>

(* One iteration that goes on to the next slot. *)
NextSlot == /\ k' = k + 1
            /\ UNCHANGED <<ringVars, nbr_cycles, lives, cycle_to_die, dumped, announced>>
            /\ UNCHANGED <<turnVars, running, pc, winner, at, walker, op, before>>

SkipDead ==
    /\ at = "check" /\ k <= N /\ dead[k]
    /\ champs_left' = champs_left - 1
    /\ UNCHANGED <<dead, champ_lives>>
    /\ NextSlot

(* A slip: the last champion is killed as well. *)
KillEvenLast ==
    /\ at = "check" /\ k <= N /\ ~dead[k] /\ champ_lives[k] = 0
    /\ dead' = [dead EXCEPT ![k] = TRUE]
    /\ champs_left' = champs_left - 1
    /\ UNCHANGED champ_lives
    /\ NextSlot

KillSilent ==
    /\ at = "check" /\ k <= N /\ ~dead[k] /\ champ_lives[k] = 0
    /\ champs_left # 1
    /\ dead' = [dead EXCEPT ![k] = TRUE]
    /\ champs_left' = champs_left - 1
    /\ UNCHANGED champ_lives
    /\ NextSlot

ForgetLives ==
    /\ at = "check" /\ k <= N /\ ~dead[k] /\ champ_lives[k] > 0
    /\ champ_lives' = [champ_lives EXCEPT ![k] = 0]
    /\ UNCHANGED <<dead, champs_left>>
    /\ NextSlot

(* game_on with what check_champion_lives has returned. *)
Conclude ==
    /\ IF champs_left = 1 \/ cycle_to_die <= 0
       THEN pc' = "over" /\ announced' = FindWinner(dead)
       ELSE pc' = "run_instructions" /\ UNCHANGED announced
    /\ Idle
    /\ UNCHANGED <<ringVars, nbr_cycles, lives, champ_lives, cycle_to_die, dead, dumped>>
    /\ UNCHANGED <<turnVars, running, before>>

(* The early return in the middle of the loop. *)
SpareLast ==
    /\ at = "check" /\ k <= N /\ ~dead[k] /\ champ_lives[k] = 0
    /\ champs_left = 1
    /\ winner' = Id[k]
    /\ Conclude

EndCheck ==
    /\ at = "check" /\ k > N
    /\ UNCHANGED winner
    /\ Conclude

-----------------------------------------------------------------------------
(* execute_instruction up to the do-while of find_process. *)
BeginSearch(o) ==
    /\ at = "none"
    /\ pc = "turn"
    /\ running[current] = 0
    /\ nbr_cycles' = nbr_cycles + Cycles[o]
    /\ at' = "search"
    /\ walker' = HeadProc
    /\ op' = o
    /\ before' = Shown
    /\ UNCHANGED <<ringVars, lives, winner, champ_lives, periodVars, turnVars, running, pc>>
    /\ UNCHANGED <<k, champs_left>>

(* find_process returns w: the rest of the fork and of the turn. *)
Found(w) ==
    /\ CloneAndLink(w)
    /\ running' = [running EXCEPT ![current] = Cycles[op] - 1]
    /\ Idle
    /\ UNCHANGED <<coreVars, periodVars, before>>
    /\ Advance

Own(w) == player[w] = player[current]

(* Slips: any way back is taken for the head, the walk stays where it is. *)
SearchGivesUp ==
    /\ at = "search"
    /\ ~(~Own(walker) /\ next[walker] > walker)
    /\ Found(IF Own(walker) THEN walker ELSE HeadProc)

WalkInPlace ==
    /\ at = "search"
    /\ ~Own(walker) /\ next[walker] # HeadProc
    /\ UNCHANGED <<vars, loopVars>>

(* One iteration: the early return, the loop's condition, the next one. *)
SearchEndsHere ==
    /\ at = "search"
    /\ ~(~Own(walker) /\ next[walker] # HeadProc)
    /\ Found(IF Own(walker) THEN walker ELSE HeadProc)

WalkOn ==
    /\ at = "search"
    /\ ~Own(walker) /\ next[walker] # HeadProc
    /\ walker' = next[walker]
    /\ UNCHANGED <<vars, at, k, champs_left, op, before>>

-----------------------------------------------------------------------------
(* The steps Game and GameLoops share. *)
Plain ==
    /\ at = "none"
    /\ \/ KeepPlaying \/ StartRound \/ StillRunning \/ InvalidOpcode \/ Nuked \/ ExecuteLive
       \/ \E o \in Mnemonics \ (Forks \cup {"live"}) : ExecuteOther(o)
    /\ UNCHANGED loopVars

LoopsNext ==
    \/ Plain
    \/ BeginCheck \/ SkipDead \/ KillSilent \/ ForgetLives \/ SpareLast \/ EndCheck
    \/ \E o \in Forks \cap Mnemonics : nprocs < MaxProcs /\ BeginSearch(o)
    \/ SearchEndsHere \/ WalkOn

LoopsSpec == LoopsInit /\ [][LoopsNext]_allVars
FairLoopsSpec == LoopsSpec /\ WF_allVars(LoopsNext)

-----------------------------------------------------------------------------
(* While a loop runs, Game has not yet taken the step the loop belongs to. *)
Seen == IF at = "none" THEN Shown ELSE before

G == INSTANCE Game WITH
        nbr_cycles <- Seen.nbr_cycles, cycle_to_die <- Seen.cycle_to_die,
        lives <- Seen.lives, winner <- Seen.winner, dead <- Seen.dead,
        champ_lives <- Seen.champ_lives, dumped <- Seen.dumped

(***************************************************************************)
(* Both loops, iteration by iteration, do what Game says they do at once.   *)
(***************************************************************************)
LoopsAreGame == G!Spec

(***************************************************************************)
(* A search that Game says ends does end: Game hangs only where the walk of *)
(* find_process goes round for ever.                                        *)
(***************************************************************************)
SearchReturns == (at = "search" /\ SearchEnds(player[current])) ~> (at = "none")

(* And a walk that Game calls endless never returns. *)
EndlessSearch ==
    [][at = "search" /\ ~SearchEnds(player[current]) => at' = "search"]_allVars
=============================================================================
