-------------------------------- MODULE Game --------------------------------
(***************************************************************************)
(* The game loop of the virtual machine: run_game and game_on (game.c), the *)
(* check of the champions' lives (champion.c), the scheduler of one round   *)
(* run_instructions and run_instruction (instructions.c), and what live,    *)
(* fork and lfork do to it (operations/).                                   *)
(*                                                                          *)
(* What a process finds in memory is abstracted: in each of its turns it    *)
(* may meet any opcode the virtual machine tells apart.  The program is one *)
(* sequential thread; pc names the function it is in.                       *)
(***************************************************************************)
EXTENDS ProcessRing, FiniteSets

CONSTANTS
    MAX_CHAMPIONS,  \* slots of core->champions; slots above N are spare
    CYCLE_TO_DIE,   \* the first period's length in cycles
    CYCLE_DELTA,    \* what each period is shorter than the last
    NBR_LIVE,       \* calls of live that end a period early
    NUKED_CYCLES,   \* cycles charged for opcode 0
    Cycles,         \* Cycles[op]: op_tab[].nbr_cycles, by mnemonic
    MaxCost,        \* no operation costs more
    Dump            \* core->dump, 0 without -dump

(* No two champions of the same number, as when -n is not misused. *)
DistinctNumbers == \A s, t \in 1..N : Id[s] = Id[t] => s = t

Mnemonics == DOMAIN Cycles
Forks == {"fork", "lfork"}
Slots == 1..MAX_CHAMPIONS
Loaded == 1..N

ASSUME GameAssumption ==
    /\ MAX_CHAMPIONS \in Nat /\ N <= MAX_CHAMPIONS
    /\ CYCLE_TO_DIE \in Nat \ {0}
    /\ CYCLE_DELTA \in Nat \ {0}
    /\ NBR_LIVE \in Nat \ {0}
    /\ NUKED_CYCLES \in Nat
    /\ MaxCost \in Nat
    /\ NUKED_CYCLES <= MaxCost
    /\ Cycles \in [Mnemonics -> 1..MaxCost]
    /\ Dump \in Nat

VARIABLES
    pc,            \* "game_on", "run_instructions", "turn", "over" or "hung"
    nbr_cycles,    \* core->nbr_cycles, cycles of the current period
    cycle_to_die,  \* core->cycle_to_die
    lives,         \* core->lives, calls of live in the current period
    winner,        \* core->winner
    champ_lives,   \* champions[].lives
    dead,          \* champions[].dead
    running,       \* process->cycles_running; only its sign is ever tested,
                   \* so what is below 0 in the code is 0 here
    current,       \* run_instructions: current
    i,             \* run_instructions: i, turns begun in this round
    dumped,        \* display_memory has been called
    announced      \* the slot print_results named, 0 before that

coreVars == <<nbr_cycles, lives, winner, champ_lives>>
periodVars == <<cycle_to_die, dead, dumped, announced>>
turnVars == <<current, i>>
vars == <<ringVars, coreVars, periodVars, turnVars, running, pc>>

TypeOK ==
    /\ RingTypeOK
    /\ pc \in {"game_on", "run_instructions", "turn", "over", "hung"}
    /\ nbr_cycles \in Nat
    /\ cycle_to_die \in Int
    /\ cycle_to_die <= CYCLE_TO_DIE
    /\ lives \in Nat
    /\ winner \in Int
    /\ champ_lives \in [Slots -> Nat]
    /\ dead \in [Slots -> BOOLEAN]
    /\ running \in [Pool -> 0..MaxCost]
    /\ current \in Procs
    /\ i \in 0..N
    /\ dumped \in BOOLEAN
    /\ announced \in {0} \cup Slots

(***************************************************************************)
(* init_vm, the champions added by parse_args, and build_processes.  The    *)
(* fields lives and dead of a champion are never initialised; champion_t is *)
(* so large that malloc takes it from fresh pages, and they stand at its    *)
(* end, where no allocator writes: they are 0 in the loaded slots and in    *)
(* the spare ones.                                                          *)
(***************************************************************************)
Init ==
    /\ RingInit
    /\ pc = "game_on"
    /\ nbr_cycles = 0
    /\ cycle_to_die = CYCLE_TO_DIE
    /\ lives = 0
    /\ winner = 0
    /\ champ_lives = [s \in Slots |-> 0]
    /\ dead = [s \in Slots |-> FALSE]
    /\ running = [p \in Pool |-> 0]
    /\ current = HeadProc
    /\ i = 0
    /\ dumped = FALSE
    /\ announced = 0

-----------------------------------------------------------------------------
(* The end of a period *)

(***************************************************************************)
(* check_champion_lives walks the slots and counts down from N.  It spares  *)
(* a silent champion when the countdown stands at 1, which needs N - 1      *)
(* others out before it: only the last slot can be spared.  GameLoops has   *)
(* the loop itself, one slot at a time, and comes to the same.              *)
(***************************************************************************)

(* A slip: a champion that is already dead is checked like the others. *)
SilentOrDead(s) == champ_lives[s] = 0
Silent(s) == ~dead[s] /\ champ_lives[s] = 0
Out(s) == dead[s] \/ Silent(s)
LastIsSpared == Silent(N) /\ \A s \in 1..(N - 1) : Out(s)
Killed == {s \in Loaded : Silent(s) /\ ~(LastIsSpared /\ s = N)}
Callers == {s \in Loaded : ~Out(s)}

(* A slip: the early return of the spared champion is not noticed. *)
OneCaller == Cardinality(Callers) = 1
OneLeft == LastIsSpared \/ Cardinality(Callers) = 1

(* find_winner: the first slot that is not dead, spare slots included. *)
Standing(d) == {s \in Slots : ~d[s]}
FindWinner(d) ==
    IF Standing(d) = {} THEN 1
    ELSE CHOOSE s \in Standing(d) : \A t \in Standing(d) : s <= t

(* A slip: one call of live too many to end a period. *)
PeriodOverLate == lives > NBR_LIVE \/ nbr_cycles >= cycle_to_die
PeriodOver == lives >= NBR_LIVE \/ nbr_cycles >= cycle_to_die
DumpNow == Dump > 0 /\ nbr_cycles = Dump

(* game_on, within a period: at most the dump happens. *)
KeepPlaying ==
    /\ pc = "game_on"
    /\ ~PeriodOver
    /\ dumped' = (dumped \/ DumpNow)
    /\ pc' = "run_instructions"
    /\ UNCHANGED <<ringVars, coreVars, cycle_to_die, dead, announced, turnVars, running>>

(* game_on, at the end of a period; every return of it is here. *)
EndPeriod ==
    /\ pc = "game_on"
    /\ PeriodOver
    /\ dumped' = (dumped \/ DumpNow)
    /\ cycle_to_die' = cycle_to_die - CYCLE_DELTA
    /\ nbr_cycles' = 0
    /\ lives' = 0
    /\ winner' = IF LastIsSpared THEN Id[N] ELSE 0
    /\ dead' = [s \in Slots |-> dead[s] \/ s \in Killed]
    /\ champ_lives' = [s \in Slots |-> IF s \in Callers THEN 0 ELSE champ_lives[s]]
    /\ IF OneLeft \/ cycle_to_die' <= 0
       THEN pc' = "over" /\ announced' = FindWinner(dead')
       ELSE pc' = "run_instructions" /\ UNCHANGED announced
    /\ UNCHANGED <<ringVars, turnVars, running>>

-----------------------------------------------------------------------------
(* One round: run_instructions gives champion_count turns from the head on *)

(* A slip: a round that takes no time. *)
NoTick == nbr_cycles' = nbr_cycles
Tick == nbr_cycles' = nbr_cycles + 1

StartRound ==
    /\ pc = "run_instructions"
    /\ Tick
    /\ current' = HeadProc
    /\ i' = 0
    /\ pc' = "turn"
    /\ UNCHANGED <<ringVars, lives, winner, champ_lives, periodVars, running>>

(* Slips: a turn too many, the successor read before the turn is taken. *)
AdvanceOneMore ==
    /\ i' = i + 1
    /\ current' = next'[current]
    /\ pc' = IF i + 1 <= N THEN "turn" ELSE "game_on"

AdvanceStale ==
    /\ i' = i + 1
    /\ current' = next[current]
    /\ pc' = IF i + 1 < N THEN "turn" ELSE "game_on"

(* The end of the loop's body, with the list as the turn has left it. *)
Advance ==
    /\ i' = i + 1
    /\ current' = next'[current]
    /\ pc' = IF i + 1 < N THEN "turn" ELSE "game_on"

(* run_instruction, the process is still in its last instruction. *)
StillRunning ==
    /\ pc = "turn"
    /\ running[current] > 0
    /\ running' = [running EXCEPT ![current] = @ - 1]
    /\ UNCHANGED <<ringVars, coreVars, periodVars>>
    /\ Advance

(* run_instruction, an opcode above 16: an early return. *)
InvalidOpcode ==
    /\ pc = "turn"
    /\ running[current] = 0
    /\ UNCHANGED <<ringVars, coreVars, periodVars, running>>
    /\ Advance

(* run_instruction, opcode 0: an early return that costs cycles. *)
Nuked ==
    /\ pc = "turn"
    /\ running[current] = 0
    /\ nbr_cycles' = nbr_cycles + NUKED_CYCLES
    /\ UNCHANGED <<ringVars, lives, winner, champ_lives, periodVars, running>>
    /\ Advance

(***************************************************************************)
(* execute_instruction charges the cycles of the operation to the period    *)
(* and runs it at once; run_instruction then keeps the process busy for as  *)
(* many of its turns.                                                       *)
(***************************************************************************)
Charge(op) ==
    /\ nbr_cycles' = nbr_cycles + Cycles[op]
    /\ running' = [running EXCEPT ![current] = Cycles[op] - 1]

(* Slips: every champion is counted, only find_champion's slot is. *)
CalledAll(s) == s \in Loaded
CalledFirst(s) == s \in Loaded /\ Id[s] = player[current] /\ \A t \in 1..(s - 1) : Id[t] # Id[s]

(* update_champion_lives: every slot with the number counts. *)
Called(s) == s \in Loaded /\ Id[s] = player[current]

(* inst_live *)
ExecuteLive ==
    /\ pc = "turn"
    /\ running[current] = 0
    /\ "live" \in Mnemonics
    /\ Charge("live")
    /\ lives' = lives + 1
    /\ winner' = player[current]
    /\ champ_lives' = [s \in Slots |->
                          IF Called(s) THEN champ_lives[s] + 1 ELSE champ_lives[s]]
    /\ UNCHANGED <<ringVars, periodVars>>
    /\ Advance

(* inst_fork and inst_lfork, when find_process returns. *)
ExecuteFork(op) ==
    /\ pc = "turn"
    /\ running[current] = 0
    /\ SearchEnds(player[current])
    /\ CloneAndLink(FindProcess(player[current]))
    /\ Charge(op)
    /\ UNCHANGED <<lives, winner, champ_lives, periodVars>>
    /\ Advance

(* inst_fork and inst_lfork, when find_process never does. *)
ForkHangs(op) ==
    /\ pc = "turn"
    /\ running[current] = 0
    /\ ~SearchEnds(player[current])
    /\ nbr_cycles' = nbr_cycles + Cycles[op]
    /\ pc' = "hung"
    /\ UNCHANGED <<ringVars, lives, winner, champ_lives, periodVars, turnVars, running>>

(* The operations that touch nothing the game loop reads. *)
ExecuteOther(op) ==
    /\ pc = "turn"
    /\ running[current] = 0
    /\ Charge(op)
    /\ UNCHANGED <<ringVars, lives, winner, champ_lives, periodVars>>
    /\ Advance

Turn ==
    \/ StillRunning
    \/ InvalidOpcode
    \/ Nuked
    \/ ExecuteLive
    \/ \E op \in Forks \cap Mnemonics : ExecuteFork(op) \/ ForkHangs(op)
    \/ \E op \in Mnemonics \ (Forks \cup {"live"}) : ExecuteOther(op)

Next == KeepPlaying \/ EndPeriod \/ StartRound \/ Turn

Spec == Init /\ [][Next]_vars

(* A single thread that is never blocked: it takes its next step. *)
FairSpec == Spec /\ WF_vars(Next)
-----------------------------------------------------------------------------
(* Properties *)

Alive == {s \in Loaded : ~dead[s]}
Heard == {s \in Alive : champ_lives[s] > 0}

(* The counters of the champions in S, added up slot by slot. *)
Total(calls, S) ==
    LET upTo[s \in 0..N] ==
            IF s = 0 THEN 0 ELSE upTo[s - 1] + (IF s \in S THEN calls[s] ELSE 0)
    IN  upTo[N]

(***************************************************************************)
(* The game loop looks at the clock only between rounds and every           *)
(* instruction charges its whole cost at once, so a period may overrun; it  *)
(* overruns by no more than one round of the dearest instruction, and no    *)
(* more calls of live come in than the round has turns.                     *)
(***************************************************************************)
CheckPunctual ==
    pc = "game_on" => /\ nbr_cycles <= cycle_to_die + N * MaxCost
                      /\ lives <= NBR_LIVE - 1 + N

(***************************************************************************)
(* With two champions or more, the game never goes on with exactly one of   *)
(* them left: whatever the order in which check_champion_lives kills and    *)
(* counts, the last survivor is noticed in the check that makes it so.      *)
(***************************************************************************)
NoLoneSurvivor == N > 1 /\ pc # "over" => Cardinality(Alive) # 1

(***************************************************************************)
(* core->lives and the champions' own counters are reset and incremented in *)
(* different places.  They never drift apart: the calls heard from living   *)
(* champions are at most the calls of the period, and every call of the     *)
(* period is in some champion's counter.                                    *)
(***************************************************************************)
LivesAccounted ==
    pc # "over" => Total(champ_lives, Alive) <= lives /\ lives <= Total(champ_lives, Loaded)

(***************************************************************************)
(* find_process always returns in a game of distinct numbers, although the  *)
(* forks may have left a list that no longer leads back to the head.        *)
(***************************************************************************)
SearchTerminates == pc # "hung"

(***************************************************************************)
(* The process whose turn it is can be reached from the head, however the   *)
(* forks of this round have rewired the list behind the scheduler's back.   *)
(***************************************************************************)
CurrentReachable == current \in Reach

(***************************************************************************)
(* Whatever the numbers, even with two champions of the same one: a search  *)
(* that never ends was made for a process that can no longer be reached.    *)
(***************************************************************************)
OnlyLostHang == pc = "hung" => current \notin Reach

(***************************************************************************)
(* A fork only ever rewires a process of the player that forks: find_process *)
(* never falls out of its loop and returns the head for another player.     *)
(***************************************************************************)
ForkRewiresOwn ==
    [][\A p \in Procs : next'[p] # next[p] => player[p] = player[current]]_vars

(***************************************************************************)
(* A process that a fork has cut off from the head is lost for good: no     *)
(* later fork links it again and it is never given another turn.            *)
(***************************************************************************)
LostForGood ==
    [][\A p \in Procs \ Reach : p \notin Reach' /\ running'[p] = running[p]]_vars

(***************************************************************************)
(* A round has N turns along the list, however long the forks have made it. *)
(* A process that is not among the first N from the head when a round       *)
(* begins is starved: no round gives it a turn again, for forks only ever   *)
(* push processes further down or cut them off.                             *)
(***************************************************************************)
Walk[k \in 0..(N - 1)] == IF k = 0 THEN HeadProc ELSE next[Walk[k - 1]]
Served == {Walk[k] : k \in 0..(N - 1)}
StarvedForGood ==
    \A p \in Pool :
        [](pc = "run_instructions" /\ p \in Procs \ Served
              => []~(pc = "turn" /\ current = p))

(***************************************************************************)
(* The game is the tournament, seen through the champions' dead and lives.  *)
(***************************************************************************)
T == INSTANCE Tournament WITH
        alive <- Alive, said <- Heard, budget <- cycle_to_die, verdict <- announced

IsTournament == T!Spec

(* With fairness, the champions are judged until a verdict is reached. *)
IsFairTournament == T!FairSpec

(* Every game ends with an announcement. *)
GameEnds == <>(pc = "over")
=============================================================================
