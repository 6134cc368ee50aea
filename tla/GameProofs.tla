----------------------------- MODULE GameProofs -----------------------------
(***************************************************************************)
(* Theorems about Game, for any number of champions and processes, any      *)
(* costs and limits: what find_process finds in the process list and what   *)
(* the rewiring of a fork does to the processes that can be reached; that   *)
(* the types are kept; that the process whose turn it is stays reachable,   *)
(* so that every search of find_process ends, and a process cut off from    *)
(* the list stays cut off; and of the periods and their checks: by how much *)
(* a period can overrun, that the calls of live are accounted for, that a   *)
(* last survivor is noticed at once, and that the game is the tournament of *)
(* module Tournament.                                                       *)
(***************************************************************************)
EXTENDS Game, NumberProofs, FiniteSetTheorems

-----------------------------------------------------------------------------
(* The process list *)

(* The head is a process and always reachable. *)
LEMMA HeadReachable ==
    ASSUME RingTypeOK
    PROVE  HeadProc \in Procs /\ HeadProc \in Reach
  BY RingAssumption, SMT DEF RingTypeOK, Procs, HeadProc, Reach, Closed

(* The set of reachable processes is closed under next. *)
LEMMA ReachClosed ==
    ASSUME RingTypeOK, NEW q \in Reach
    PROVE  next[q] \in Reach
  BY SMT DEF RingTypeOK, Reach, Closed

(* Any closed set of processes holds all the reachable ones. *)
LEMMA ReachLeast ==
    ASSUME NEW S \in SUBSET Procs, Closed(S)
    PROVE  Reach \subseteq S
  BY DEF Reach

(***************************************************************************)
(* find_process finds a process of the player when one can be reached: were *)
(* none looked at, the walk would be closed under next and so come to it.   *)
(***************************************************************************)
LEMMA SearchFinds ==
    ASSUME RingTypeOK, NEW p \in Reach
    PROVE  /\ SearchEnds(player[p])
           /\ FindProcess(player[p]) \in Procs
           /\ player[FindProcess(player[p])] = player[p]
  <1> DEFINE id == player[p]
  <1>1. Matches(id) # {}
    <2>1. SUFFICES ASSUME Matches(id) = {} PROVE FALSE
      OBVIOUS
    <2>2. Visited(id) \in SUBSET Procs
      BY DEF Visited
    <2>3. HeadProc \in Visited(id)
      BY HeadReachable DEF Visited, VisitClosed
    <2>4. ASSUME NEW q \in Visited(id) PROVE next[q] \in Visited(id)
      <3>1. player[q] # id
        BY <2>1, <2>4 DEF Matches
      <3>2. q \in Procs /\ next[q] \in Procs
        BY <2>2, <2>4 DEF RingTypeOK
      <3>3. ASSUME NEW S \in SUBSET Procs, VisitClosed(id, S) PROVE next[q] \in S
        BY <3>1, <3>3, <2>4 DEF Visited, VisitClosed
      <3>. QED
        BY <3>2, <3>3 DEF Visited
    <2>5. Closed(Visited(id))
      BY <2>3, <2>4 DEF Closed
    <2>6. p \in Visited(id)
      BY <2>2, <2>5, ReachLeast
    <2>. QED
      BY <2>1, <2>6 DEF Matches
  <1>2. FindProcess(id) \in Matches(id)
    BY <1>1 DEF FindProcess
  <1>. QED
    BY <1>1, <1>2 DEF Matches, SearchEnds, Visited

(* What find_process returns is a process, found or not. *)
LEMMA SearchType ==
    ASSUME RingTypeOK, NEW id
    PROVE  FindProcess(id) \in Procs
  BY HeadReachable DEF FindProcess, Matches, Visited

(* For the head's player find_process returns the head itself. *)
LEMMA SearchOfHead ==
    ASSUME RingTypeOK
    PROVE  FindProcess(player[HeadProc]) = HeadProc
  <1> DEFINE id == player[HeadProc]
  <1>1. HeadProc \in Procs
    BY HeadReachable
  <1>2. VisitClosed(id, {HeadProc}) /\ {HeadProc} \in SUBSET Procs
    BY <1>1 DEF VisitClosed
  <1>3. Visited(id) \subseteq {HeadProc}
    BY <1>2 DEF Visited
  <1>4. Matches(id) \subseteq {HeadProc}
    BY <1>3 DEF Matches
  <1>. QED
    BY <1>4 DEF FindProcess

(* The list stays well-formed when a clone is linked in. *)
LEMMA CloneTypeOK ==
    ASSUME RingTypeOK, NEW orig \in Procs, CloneAndLink(orig)
    PROVE  RingTypeOK'
  <1>1. HeadProc \in Procs
    BY HeadReachable
  <1>2. nprocs \in Nat /\ nprocs + 1 \in Pool /\ nprocs + 1 \notin Procs /\ Procs \subseteq Pool
    BY RingAssumption, SMT DEF RingTypeOK, CloneAndLink, Procs, Pool
  <1>3. nprocs' = nprocs + 1 /\ nprocs' \in N..MaxProcs
    BY RingAssumption, SMT DEF RingTypeOK, CloneAndLink
  <1>4. Procs' = Procs \cup {nprocs + 1}
    BY <1>2, <1>3, SMT DEF Procs
  <1>5. player' \in [Pool -> Int]
    BY <1>1, <1>2, SMT DEF RingTypeOK, CloneAndLink
  <1>6. next' \in [Pool -> 0..MaxProcs]
    BY <1>1, <1>2, SMT DEF RingTypeOK, CloneAndLink, Pool
  <1>7. \A p \in Procs' : next'[p] \in Procs'
    BY <1>1, <1>2, <1>4, SMT DEF RingTypeOK, CloneAndLink
  <1>. QED
    BY <1>3, <1>5, <1>6, <1>7 DEF RingTypeOK, Pool

(* Where the links go after a fork. *)
LEMMA CloneLinks ==
    ASSUME RingTypeOK, NEW orig \in Procs, CloneAndLink(orig)
    PROVE  /\ nprocs + 1 \notin Procs
           /\ Procs' = Procs \cup {nprocs + 1}
           /\ next'[orig] = nprocs + 1
           /\ next'[nprocs + 1] = next[HeadProc]
           /\ \A q \in Procs : q # orig => next'[q] = next[q]
  <1>1. nprocs \in Nat /\ nprocs + 1 \in Pool /\ nprocs + 1 \notin Procs /\ Procs \subseteq Pool
    BY RingAssumption, SMT DEF RingTypeOK, CloneAndLink, Procs, Pool
  <1>2. Procs' = Procs \cup {nprocs + 1}
    BY <1>1, SMT DEF Procs, CloneAndLink
  <1>. QED
    BY <1>1, <1>2, SMT DEF RingTypeOK, CloneAndLink

(***************************************************************************)
(* A fork cannot bring back a process that was out of reach.                *)
(***************************************************************************)
LEMMA ForkReachesNoMore ==
    ASSUME RingTypeOK, NEW orig \in Procs, CloneAndLink(orig)
    PROVE  Reach' \subseteq Reach \cup {nprocs + 1}
  <1>0. PICK R : R = Reach \cup {nprocs + 1}
    OBVIOUS
  <1>1. R \in SUBSET (Procs')
    BY <1>0, CloneLinks DEF Reach
  <1>2. HeadProc \in R
    BY <1>0, HeadReachable
  <1>3. ASSUME NEW q \in R PROVE next'[q] \in R
    <2>1. CASE q = nprocs + 1
      BY <1>0, <2>1, CloneLinks, HeadReachable, ReachClosed
    <2>2. CASE q \in Reach /\ q = orig
      BY <1>0, <2>2, CloneLinks
    <2>3. CASE q \in Reach /\ q # orig
      <3>1. q \in Procs
        BY <2>3 DEF Reach
      <3>. QED
        BY <1>0, <2>3, <3>1, CloneLinks, ReachClosed
    <2>. QED
      BY <1>0, <1>3, <2>1, <2>2, <2>3
  <1>4. Closed(R)'
    BY <1>2, <1>3 DEF Closed, HeadProc
  <1>. QED
    BY <1>0, <1>1, <1>4 DEF Reach

(***************************************************************************)
(* When the process that forks is the one rewired, or the head is, the      *)
(* process that would run next can be reached afterwards: take away the     *)
(* clone from a set closed under the new links, and if it did not hold the  *)
(* forking process it would be closed under the old ones.                   *)
(***************************************************************************)
LEMMA ForkKeepsCurrent ==
    ASSUME RingTypeOK, NEW orig \in Procs, CloneAndLink(orig),
           NEW cur \in Reach, orig \in {cur, HeadProc}
    PROVE  next'[cur] \in Reach'
  <1> DEFINE clone == nprocs + 1
  <1>1. cur \in Procs /\ HeadProc \in Procs
    BY HeadReachable DEF Reach
  <1>2. ASSUME NEW S \in SUBSET (Procs'), Closed(S)' PROVE cur \in S
    <2> DEFINE U == S \ {clone}
    <2>1. SUFFICES ASSUME cur \notin S PROVE FALSE
      OBVIOUS
    <2>2. U \in SUBSET Procs
      BY CloneLinks
    <2>3. HeadProc \in U
      BY <1>1, <1>2, CloneLinks DEF Closed, HeadProc
    <2>4. ASSUME NEW q \in U PROVE next[q] \in U
      <3>1. q \in Procs /\ next[q] \in Procs /\ next[q] # clone
        BY <2>2, <2>4, CloneLinks DEF RingTypeOK
      <3>2. next'[q] \in S
        BY <1>2, <2>4 DEF Closed
      <3>3. CASE q # orig
        BY <3>1, <3>2, <3>3, CloneLinks
      <3>4. CASE q = orig
        <4>1. q = HeadProc /\ clone \in S
          BY <2>1, <2>4, <3>2, <3>4, CloneLinks
        <4>2. next'[clone] \in S
          BY <4>1, <1>2 DEF Closed
        <4>. QED
          BY <3>1, <4>1, <4>2, CloneLinks
      <3>. QED
        BY <3>3, <3>4
    <2>5. Closed(U)
      BY <2>3, <2>4 DEF Closed
    <2>6. cur \in U
      BY <2>2, <2>5, ReachLeast
    <2>. QED
      BY <2>1, <2>6
  <1>3. next'[cur] \in Procs'
    BY <1>1, CloneTypeOK, CloneLinks DEF RingTypeOK
  <1>4. ASSUME NEW S \in SUBSET (Procs'), Closed(S)' PROVE next'[cur] \in S
    BY <1>2, <1>4 DEF Closed
  <1>. QED
    BY <1>3, <1>4 DEF Reach

-----------------------------------------------------------------------------
(* Type correctness *)

(* Within a round there is a turn left to give. *)
TurnLeft == pc = "turn" => i < N

TypeInv == TypeOK /\ TurnLeft

LEMMA ConstantFacts ==
    /\ N \in Nat /\ N >= 1
    /\ MaxCost \in Nat
    /\ NUKED_CYCLES \in 0..MaxCost
    /\ \A op \in Mnemonics : Cycles[op] \in 1..MaxCost
    /\ Loaded \subseteq Slots
    /\ N \in Slots
  BY RingAssumption, GameAssumption, SMT DEF Loaded, Slots

LEMMA InitType == Init => TypeInv
  <1> SUFFICES ASSUME Init PROVE TypeInv
    OBVIOUS
  <1>1. RingTypeOK
    <2>1. nprocs = N /\ Procs = 1..N /\ nprocs \in N..MaxProcs /\ Procs \subseteq Pool
      BY RingAssumption, SMT DEF Init, RingInit, Procs, Pool
    <2>2. next \in [Pool -> 0..MaxProcs]
      BY RingAssumption, SMT DEF Init, RingInit, Pool, HeadProc, NULL
    <2>3. player \in [Pool -> Int]
      BY RingAssumption, SMT DEF Init, RingInit, Pool, NULL
    <2>4. \A p \in Procs : next[p] \in Procs
      BY <2>1, RingAssumption, SMT DEF Init, RingInit, HeadProc
    <2>. QED
      BY <2>1, <2>2, <2>3, <2>4 DEF RingTypeOK
  <1>2. current \in Procs
    BY RingAssumption, SMT DEF Init, RingInit, Procs, HeadProc
  <1>3. cycle_to_die \in Int /\ cycle_to_die <= CYCLE_TO_DIE
    BY GameAssumption, SMT DEF Init
  <1>4. nbr_cycles \in Nat /\ lives \in Nat /\ winner \in Int /\ i \in 0..N
    BY ConstantFacts, SMT DEF Init
  <1>5. champ_lives \in [Slots -> Nat] /\ running \in [Pool -> 0..MaxCost]
    BY ConstantFacts, SMT DEF Init
  <1>. QED
    BY <1>1, <1>2, <1>3, <1>4, <1>5 DEF Init, TypeInv, TypeOK, TurnLeft

(* The list is untouched in every step but a fork. *)
LEMMA RingUnchanged ==
    ASSUME UNCHANGED ringVars
    PROVE  /\ RingTypeOK <=> RingTypeOK'
           /\ Procs' = Procs
           /\ Reach' = Reach
  BY DEF ringVars, RingTypeOK, Procs, Reach, Closed

(* The scheduler's step to the next process, once the list is as it is. *)
LEMMA AdvanceType ==
    ASSUME TypeInv, pc = "turn", RingTypeOK', Procs \subseteq Procs', Advance
    PROVE  /\ current' \in Procs'
           /\ i' \in 0..N
           /\ pc' \in {"turn", "game_on"}
           /\ TurnLeft'
  <1>1. i \in 0..N /\ i < N /\ current \in Procs
    BY DEF TypeInv, TypeOK, TurnLeft
  <1>2. current' \in Procs'
    BY <1>1 DEF Advance, RingTypeOK
  <1>3. i' \in 0..N /\ (i + 1 < N => i' < N)
    BY <1>1, ConstantFacts, SMT DEF Advance
  <1>. QED
    BY <1>2, <1>3 DEF Advance, TurnLeft

(* A charged instruction keeps the clock and the busy processes in range. *)
LEMMA ChargeType ==
    ASSUME TypeInv, NEW op \in Mnemonics, Charge(op)
    PROVE  nbr_cycles' \in Nat /\ running' \in [Pool -> 0..MaxCost]
  <1>1. Cycles[op] \in 1..MaxCost
    BY ConstantFacts
  <1>2. Cycles[op] - 1 \in 0..MaxCost
    BY <1>1, ConstantFacts, SMT
  <1>3. nbr_cycles' \in Nat
    BY <1>1, ConstantFacts, SMT DEF TypeInv, TypeOK, Charge
  <1>4. running' \in [Pool -> 0..MaxCost]
    BY <1>2 DEF TypeInv, TypeOK, Charge
  <1>. QED
    BY <1>3, <1>4

(* find_winner names a slot, whoever is dead. *)
LEMMA WinnerType ==
    ASSUME NEW d
    PROVE  FindWinner(d) \in Slots
  <1>1. Standing(d) \in SUBSET Nat
    BY GameAssumption, SMT DEF Standing, Slots
  <1>2. Standing(d) # {} => \E s \in Standing(d) : \A t \in Standing(d) : s <= t
    BY <1>1, Least
  <1>3. 1 \in Slots
    BY GameAssumption, RingAssumption, SMT DEF Slots
  <1>. QED
    BY <1>2, <1>3 DEF FindWinner, Standing

LEMMA TypeStep == TypeInv /\ [Next]_vars => TypeInv'
  <1> SUFFICES ASSUME TypeInv, [Next]_vars PROVE TypeInv'
    OBVIOUS
  <1>0. TypeOK /\ RingTypeOK /\ TurnLeft
    BY DEF TypeInv, TypeOK
  <1>1. CASE KeepPlaying
    <2>1. RingTypeOK' /\ Procs' = Procs
      BY <1>0, <1>1, RingUnchanged DEF KeepPlaying
    <2>. QED
      BY <1>0, <1>1, <2>1 DEF KeepPlaying, TypeInv, TypeOK, TurnLeft, coreVars, turnVars
  <1>2. CASE EndPeriod
    <2>1. RingTypeOK' /\ Procs' = Procs
      BY <1>0, <1>2, RingUnchanged DEF EndPeriod
    <2>2. announced' \in {0} \cup Slots /\ pc' \in {"over", "run_instructions"}
      BY <1>0, <1>2, WinnerType DEF EndPeriod, TypeOK
    <2>3. cycle_to_die' \in Int /\ cycle_to_die' <= CYCLE_TO_DIE
      <3>1. cycle_to_die' = cycle_to_die - CYCLE_DELTA
        BY <1>2 DEF EndPeriod
      <3>. QED
        BY <1>0, <3>1, GameAssumption, SMT DEF TypeOK
    <2>4. winner' \in Int
      BY <1>2, RingAssumption, SMT DEF EndPeriod
    <2>5. champ_lives' \in [Slots -> Nat] /\ dead' \in [Slots -> BOOLEAN]
      <3>1. champ_lives' = [s \in Slots |-> IF s \in Callers THEN 0 ELSE champ_lives[s]]
        BY <1>2 DEF EndPeriod
      <3>2. dead' = [s \in Slots |-> dead[s] \/ s \in Killed]
        BY <1>2 DEF EndPeriod
      <3>3. champ_lives \in [Slots -> Nat] /\ dead \in [Slots -> BOOLEAN]
        BY <1>0 DEF TypeOK
      <3>4. champ_lives' \in [Slots -> Nat]
        BY <3>1, <3>3, SMT
      <3>5. dead' \in [Slots -> BOOLEAN]
        BY <3>2, <3>3, Zenon
      <3>. QED
        BY <3>4, <3>5
    <2>6. nbr_cycles' = 0 /\ lives' = 0 /\ dumped' \in BOOLEAN
      BY <1>0, <1>2 DEF EndPeriod, TypeOK, DumpNow
    <2>. QED
      BY <1>0, <1>2, <2>1, <2>2, <2>3, <2>4, <2>5, <2>6
         DEF EndPeriod, TypeInv, TypeOK, TurnLeft, turnVars
  <1>3. CASE StartRound
    <2>1. RingTypeOK' /\ Procs' = Procs
      BY <1>0, <1>3, RingUnchanged DEF StartRound
    <2>2. current' \in Procs'
      BY <1>0, <1>3, <2>1, HeadReachable DEF StartRound
    <2>3. nbr_cycles' \in Nat /\ i' \in 0..N /\ i' < N
      BY <1>0, <1>3, ConstantFacts, SMT DEF StartRound, Tick, TypeOK
    <2>. QED
      BY <1>0, <1>3, <2>1, <2>2, <2>3 DEF StartRound, TypeInv, TypeOK, TurnLeft, periodVars
  <1>4. CASE StillRunning
    <2>1. RingTypeOK' /\ Procs' = Procs
      BY <1>0, <1>4, RingUnchanged DEF StillRunning
    <2>2. current' \in Procs' /\ i' \in 0..N /\ pc' \in {"turn", "game_on"} /\ TurnLeft'
      BY <1>4, <2>1, AdvanceType DEF StillRunning
    <2>3. running' \in [Pool -> 0..MaxCost]
      <3>1. current \in Pool
        BY <1>0, RingAssumption, SMT DEF TypeOK, RingTypeOK, Procs, Pool
      <3>2. running \in [Pool -> 0..MaxCost]
        BY <1>0 DEF TypeOK
      <3>3. running[current] - 1 \in 0..MaxCost
        BY <1>4, <3>1, <3>2, ConstantFacts, SMT DEF StillRunning
      <3>4. running' = [running EXCEPT ![current] = @ - 1]
        BY <1>4 DEF StillRunning
      <3>. QED
        BY <3>1, <3>2, <3>3, <3>4
    <2>. QED
      BY <1>0, <1>4, <2>1, <2>2, <2>3 DEF StillRunning, TypeInv, TypeOK, coreVars, periodVars
  <1>5. CASE InvalidOpcode
    <2>1. RingTypeOK' /\ Procs' = Procs
      BY <1>0, <1>5, RingUnchanged DEF InvalidOpcode
    <2>2. current' \in Procs' /\ i' \in 0..N /\ pc' \in {"turn", "game_on"} /\ TurnLeft'
      BY <1>5, <2>1, AdvanceType DEF InvalidOpcode
    <2>. QED
      BY <1>0, <1>5, <2>1, <2>2 DEF InvalidOpcode, TypeInv, TypeOK, coreVars, periodVars
  <1>6. CASE Nuked
    <2>1. RingTypeOK' /\ Procs' = Procs
      BY <1>0, <1>6, RingUnchanged DEF Nuked
    <2>2. current' \in Procs' /\ i' \in 0..N /\ pc' \in {"turn", "game_on"} /\ TurnLeft'
      BY <1>6, <2>1, AdvanceType DEF Nuked
    <2>3. nbr_cycles' \in Nat
      BY <1>0, <1>6, ConstantFacts, SMT DEF Nuked, TypeOK
    <2>. QED
      BY <1>0, <1>6, <2>1, <2>2, <2>3 DEF Nuked, TypeInv, TypeOK, periodVars
  <1>7. CASE ExecuteLive
    <2>1. RingTypeOK' /\ Procs' = Procs
      BY <1>0, <1>7, RingUnchanged DEF ExecuteLive
    <2>2. current' \in Procs' /\ i' \in 0..N /\ pc' \in {"turn", "game_on"} /\ TurnLeft'
      BY <1>7, <2>1, AdvanceType DEF ExecuteLive
    <2>3. nbr_cycles' \in Nat /\ running' \in [Pool -> 0..MaxCost]
      BY <1>7, ChargeType DEF ExecuteLive
    <2>4. lives' \in Nat
      BY <1>0, <1>7, SMT DEF ExecuteLive, TypeOK
    <2>5. winner' \in Int
      BY <1>0, <1>7, RingAssumption, SMT DEF ExecuteLive, TypeOK, RingTypeOK, Procs, Pool
    <2>6. champ_lives' \in [Slots -> Nat]
      BY <1>0, <1>7, SMT DEF ExecuteLive, Called, TypeOK
    <2>. QED
      BY <1>0, <1>7, <2>1, <2>2, <2>3, <2>4, <2>5, <2>6
         DEF ExecuteLive, TypeInv, TypeOK, periodVars
  <1>8. ASSUME NEW op \in Forks \cap Mnemonics, ExecuteFork(op) PROVE TypeInv'
    <2>1. FindProcess(player[current]) \in Procs
      BY <1>0, SearchType
    <2>2. RingTypeOK' /\ Procs \subseteq Procs'
      BY <1>0, <1>8, <2>1, CloneTypeOK, CloneLinks DEF ExecuteFork
    <2>3. current' \in Procs' /\ i' \in 0..N /\ pc' \in {"turn", "game_on"} /\ TurnLeft'
      BY <1>8, <2>2, AdvanceType DEF ExecuteFork
    <2>4. nbr_cycles' \in Nat /\ running' \in [Pool -> 0..MaxCost]
      BY <1>8, ChargeType DEF ExecuteFork
    <2>. QED
      BY <1>0, <1>8, <2>2, <2>3, <2>4 DEF ExecuteFork, TypeInv, TypeOK, periodVars
  <1>9. ASSUME NEW op \in Forks \cap Mnemonics, ForkHangs(op) PROVE TypeInv'
    <2>1. RingTypeOK' /\ Procs' = Procs
      BY <1>0, <1>9, RingUnchanged DEF ForkHangs
    <2>2. nbr_cycles' \in Nat
      BY <1>0, <1>9, ConstantFacts, SMT DEF ForkHangs, TypeOK
    <2>. QED
      BY <1>0, <1>9, <2>1, <2>2 DEF ForkHangs, TypeInv, TypeOK, TurnLeft, periodVars, turnVars
  <1>10. ASSUME NEW op \in Mnemonics \ (Forks \cup {"live"}), ExecuteOther(op) PROVE TypeInv'
    <2>1. RingTypeOK' /\ Procs' = Procs
      BY <1>0, <1>10, RingUnchanged DEF ExecuteOther
    <2>2. current' \in Procs' /\ i' \in 0..N /\ pc' \in {"turn", "game_on"} /\ TurnLeft'
      BY <1>10, <2>1, AdvanceType DEF ExecuteOther
    <2>3. nbr_cycles' \in Nat /\ running' \in [Pool -> 0..MaxCost]
      BY <1>10, ChargeType DEF ExecuteOther
    <2>. QED
      BY <1>0, <1>10, <2>1, <2>2, <2>3 DEF ExecuteOther, TypeInv, TypeOK, periodVars
  <1>11. CASE UNCHANGED vars
    <2>1. RingTypeOK' /\ Procs' = Procs
      BY <1>0, <1>11, RingUnchanged DEF vars
    <2>. QED
      BY <1>0, <1>11, <2>1
         DEF vars, coreVars, periodVars, turnVars, TypeInv, TypeOK, TurnLeft
  <1>. QED
    BY <1>1, <1>2, <1>3, <1>4, <1>5, <1>6, <1>7, <1>8, <1>9, <1>10, <1>11 DEF Next, Turn

(***************************************************************************)
(* Every variable keeps its type: counters of lives and cycles stay natural *)
(* numbers, links stay within the allocated processes, the announced slot   *)
(* is a slot.                                                               *)
(***************************************************************************)
THEOREM TypeCorrect == Spec => []TypeOK
  <1>1. TypeInv => TypeOK
    BY DEF TypeInv
  <1>. QED
    BY InitType, TypeStep, <1>1, PTL DEF Spec

-----------------------------------------------------------------------------
(* The scheduler and the list the forks rewire under it *)

(***************************************************************************)
(* The processes a fork adds are the head's player's, because clone_process *)
(* is given the head.  So a player other than the head's has one process    *)
(* only, the one it began with, and its search finds that very process.     *)
(***************************************************************************)
Owners ==
    /\ \A p \in 1..N : player[p] = Id[p]
    /\ \A p \in Procs : p > N => player[p] = player[HeadProc]

SchedInv == TypeInv /\ Owners /\ CurrentReachable /\ SearchTerminates

LEMMA InitSched == Init => SchedInv
  <1> SUFFICES ASSUME Init PROVE SchedInv
    OBVIOUS
  <1>1. TypeInv /\ RingTypeOK
    BY InitType DEF TypeInv, TypeOK
  <1>2. Owners
    <2>1. Procs = 1..N /\ 1..N \subseteq Pool
      BY RingAssumption, SMT DEF Init, RingInit, Procs, Pool
    <2>2. \A p \in 1..N : p <= N /\ ~(p > N)
      BY RingAssumption, SMT
    <2>. QED
      BY <2>1, <2>2 DEF Init, RingInit, Owners
  <1>3. CurrentReachable
    BY <1>1, HeadReachable DEF Init, CurrentReachable
  <1>. QED
    BY <1>1, <1>2, <1>3 DEF SchedInv, SearchTerminates, Init

(* The process a fork rewires is the one that forks, or the head. *)
LEMMA ForkOrigin ==
    ASSUME DistinctNumbers, TypeInv, Owners, CurrentReachable
    PROVE  FindProcess(player[current]) \in {current, HeadProc}
  <1> DEFINE orig == FindProcess(player[current])
  <1>1. RingTypeOK /\ current \in Reach /\ current \in Procs
    BY DEF TypeInv, TypeOK, CurrentReachable
  <1>2. orig \in Procs /\ player[orig] = player[current]
    BY <1>1, SearchFinds
  <1>3. CASE player[current] = player[HeadProc]
    BY <1>1, <1>3, SearchOfHead
  <1>4. CASE player[current] # player[HeadProc]
    <2>1. ~(current > N) /\ ~(orig > N)
      BY <1>1, <1>2, <1>4 DEF Owners
    <2>2. current \in 1..N /\ orig \in 1..N
      BY <1>1, <1>2, <2>1, RingAssumption, SMT DEF Procs, RingTypeOK
    <2>3. Id[current] = Id[orig]
      BY <1>2, <2>2 DEF Owners
    <2>. QED
      BY <2>2, <2>3 DEF DistinctNumbers
  <1>. QED
    BY <1>3, <1>4

(* What a fork does to the owners and to the process that runs next. *)
LEMMA ForkSched ==
    ASSUME DistinctNumbers, SchedInv, TypeInv',
           NEW op \in Forks \cap Mnemonics, ExecuteFork(op)
    PROVE  Owners' /\ CurrentReachable'
  <1> DEFINE orig == FindProcess(player[current])
  <1>1. RingTypeOK /\ CloneAndLink(orig) /\ orig \in Procs /\ current \in Reach
    BY SearchType DEF SchedInv, TypeInv, TypeOK, ExecuteFork, CurrentReachable
  <1>2. orig \in {current, HeadProc}
    BY ForkOrigin DEF SchedInv
  <1>3. CurrentReachable'
    <2>1. current' = next'[current]
      BY DEF ExecuteFork, Advance
    <2>. QED
      BY <1>1, <1>2, <2>1, ForkKeepsCurrent DEF CurrentReachable
  <1>4. Owners'
    <2>1. player' = [player EXCEPT ![nprocs + 1] = player[HeadProc]]
      BY <1>1 DEF CloneAndLink
    <2>2. /\ Procs' = Procs \cup {nprocs + 1} /\ nprocs + 1 \notin Procs
          /\ Procs' \subseteq Pool /\ HeadProc \in Procs
      <3>1. RingTypeOK'
        BY DEF TypeInv, TypeOK
      <3>2. Procs' \subseteq Pool
        BY <3>1, RingAssumption, SMT DEF RingTypeOK, Procs, Pool
      <3>. QED
        BY <1>1, <3>2, CloneLinks, HeadReachable
    <2>3. 1..N \subseteq Procs
      BY <1>1, RingAssumption, SMT DEF RingTypeOK, Procs
    <2>4. \A p \in Procs : player'[p] = player[p]
      BY <1>1, <2>1, <2>2 DEF RingTypeOK
    <2>5. player'[nprocs + 1] = player[HeadProc]
      BY <1>1, <2>1, <2>2 DEF RingTypeOK
    <2>6. \A p \in 1..N : player'[p] = Id[p]
      BY <2>3, <2>4 DEF SchedInv, Owners
    <2>7. \A p \in Procs' : p > N => player'[p] = player'[HeadProc]
      BY <2>2, <2>4, <2>5 DEF SchedInv, Owners
    <2>. QED
      BY <2>6, <2>7 DEF Owners, HeadProc
  <1>. QED
    BY <1>3, <1>4

(* A turn that leaves the list alone. *)
LEMMA QuietSched ==
    ASSUME SchedInv, UNCHANGED ringVars, current' \in {current, HeadProc, next[current]}
    PROVE  Owners' /\ CurrentReachable'
  <1>1. RingTypeOK /\ Reach' = Reach /\ Procs' = Procs /\ player' = player
    BY RingUnchanged DEF SchedInv, TypeInv, TypeOK, ringVars
  <1>2. current' \in Reach
    BY <1>1, HeadReachable, ReachClosed DEF SchedInv, CurrentReachable
  <1>. QED
    BY <1>1, <1>2 DEF SchedInv, Owners, CurrentReachable, HeadProc

(* Every step is a fork or leaves the list alone. *)
LEMMA StepKinds ==
    ASSUME [Next]_vars
    PROVE  \/ \E op \in Forks \cap Mnemonics : ExecuteFork(op)
           \/ \E op \in Forks \cap Mnemonics : ForkHangs(op)
           \/ /\ UNCHANGED ringVars
              /\ current' \in {current, HeadProc, next[current]}
              /\ pc' = "hung" => pc = "hung"
  <1>1. CASE KeepPlaying \/ EndPeriod
    BY <1>1 DEF KeepPlaying, EndPeriod, turnVars
  <1>2. CASE StartRound
    BY <1>2 DEF StartRound
  <1>3. CASE StillRunning
    BY <1>3 DEF StillRunning, Advance, ringVars
  <1>4. CASE InvalidOpcode
    BY <1>4 DEF InvalidOpcode, Advance, ringVars
  <1>5. CASE Nuked
    BY <1>5 DEF Nuked, Advance, ringVars
  <1>6. CASE ExecuteLive
    BY <1>6 DEF ExecuteLive, Advance, ringVars
  <1>7. ASSUME NEW op \in Mnemonics \ (Forks \cup {"live"}), ExecuteOther(op)
        PROVE  /\ UNCHANGED ringVars
               /\ current' \in {current, HeadProc, next[current]}
               /\ pc' = "hung" => pc = "hung"
    BY <1>7 DEF ExecuteOther, Advance, ringVars
  <1>8. CASE UNCHANGED vars
    BY <1>8 DEF vars, turnVars
  <1>. QED
    BY <1>1, <1>2, <1>3, <1>4, <1>5, <1>6, <1>7, <1>8 DEF Next, Turn

LEMMA SchedStep ==
    ASSUME DistinctNumbers
    PROVE  SchedInv /\ [Next]_vars => SchedInv'
  <1> SUFFICES ASSUME SchedInv, [Next]_vars PROVE SchedInv'
    OBVIOUS
  <1>1. TypeInv'
    BY TypeStep DEF SchedInv
  <1>2. ASSUME NEW op \in Forks \cap Mnemonics, ExecuteFork(op) PROVE SchedInv'
    <2>1. pc' # "hung"
      BY <1>2 DEF ExecuteFork, Advance
    <2>. QED
      BY <1>1, <1>2, <2>1, ForkSched DEF SchedInv, SearchTerminates
  <1>3. ASSUME NEW op \in Forks \cap Mnemonics, ForkHangs(op) PROVE FALSE
    <2>1. RingTypeOK /\ current \in Reach
      BY DEF SchedInv, TypeInv, TypeOK, CurrentReachable
    <2>. QED
      BY <1>3, <2>1, SearchFinds DEF ForkHangs
  <1>4. CASE /\ UNCHANGED ringVars
             /\ current' \in {current, HeadProc, next[current]}
             /\ pc' = "hung" => pc = "hung"
    BY <1>1, <1>4, QuietSched DEF SchedInv, SearchTerminates
  <1>. QED
    BY <1>2, <1>3, <1>4, StepKinds

(***************************************************************************)
(* In a game of distinct numbers, of any size, find_process always returns. *)
(***************************************************************************)
THEOREM SearchesEnd ==
    ASSUME DistinctNumbers
    PROVE  Spec => []SearchTerminates
  <1>1. SchedInv => SearchTerminates
    BY DEF SchedInv
  <1>2. SchedInv /\ [Next]_vars => SchedInv'
    BY SchedStep
  <1>. QED
    BY InitSched, <1>1, <1>2, PTL DEF Spec

(***************************************************************************)
(* In such a game the process whose turn it is is always on the list.       *)
(***************************************************************************)
THEOREM TurnsAreReachable ==
    ASSUME DistinctNumbers
    PROVE  Spec => []CurrentReachable
  <1>1. SchedInv => CurrentReachable
    BY DEF SchedInv
  <1>2. SchedInv /\ [Next]_vars => SchedInv'
    BY SchedStep
  <1>. QED
    BY InitSched, <1>1, <1>2, PTL DEF Spec

(***************************************************************************)
(* A fork rewires only a process of the player that forks.                  *)
(***************************************************************************)
THEOREM ForksKeepToTheirOwn ==
    ASSUME DistinctNumbers
    PROVE  Spec => ForkRewiresOwn
  <1> DEFINE Own == \A p \in Procs : next'[p] # next[p] => player[p] = player[current]
  <1>1. ASSUME SchedInv, [Next]_vars PROVE Own
    <2>1. ASSUME NEW op \in Forks \cap Mnemonics, ExecuteFork(op) PROVE Own
      <3>1. RingTypeOK /\ current \in Reach
        BY <1>1 DEF SchedInv, TypeInv, TypeOK, CurrentReachable
      <3>2. /\ FindProcess(player[current]) \in Procs
            /\ player[FindProcess(player[current])] = player[current]
        BY <3>1, SearchFinds
      <3>3. CloneAndLink(FindProcess(player[current]))
        BY <2>1 DEF ExecuteFork
      <3>. QED
        BY <3>1, <3>2, <3>3, CloneLinks
    <2>2. ASSUME NEW op \in Forks \cap Mnemonics, ForkHangs(op) PROVE Own
      BY <2>2 DEF ForkHangs, ringVars
    <2>3. CASE UNCHANGED ringVars
      BY <2>3 DEF ringVars
    <2>. QED
      BY <1>1, <2>1, <2>2, <2>3, StepKinds
  <1>2. SchedInv /\ [Next]_vars => [Own]_vars
    BY <1>1
  <1>3. SchedInv /\ [Next]_vars => SchedInv'
    BY SchedStep
  <1>. QED
    BY InitSched, <1>2, <1>3, PTL DEF Spec, ForkRewiresOwn

(* Only the process whose turn it is becomes busy or less busy. *)
LEMMA OthersWait ==
    ASSUME TypeInv, [Next]_vars, NEW p \in Procs, p # current
    PROVE  running'[p] = running[p]
  <1>0. running \in [Pool -> 0..MaxCost] /\ p \in Pool
    <2>1. running \in [Pool -> 0..MaxCost] /\ RingTypeOK
      BY DEF TypeInv, TypeOK
    <2>2. p \in Pool
      BY <2>1, RingAssumption, SMT DEF RingTypeOK, Procs, Pool
    <2>. QED
      BY <2>1, <2>2
  <1>1. CASE KeepPlaying \/ EndPeriod \/ StartRound
    BY <1>1 DEF KeepPlaying, EndPeriod, StartRound
  <1>2. CASE StillRunning \/ InvalidOpcode \/ Nuked
    BY <1>0, <1>2 DEF StillRunning, InvalidOpcode, Nuked
  <1>3. CASE ExecuteLive
    BY <1>0, <1>3 DEF ExecuteLive, Charge
  <1>4. ASSUME NEW op \in Forks \cap Mnemonics, ExecuteFork(op) \/ ForkHangs(op)
        PROVE  running'[p] = running[p]
    <2>1. CASE ExecuteFork(op)
      BY <1>0, <2>1 DEF ExecuteFork, Charge
    <2>2. CASE ForkHangs(op)
      BY <2>2 DEF ForkHangs
    <2>. QED
      BY <1>4, <2>1, <2>2
  <1>5. ASSUME NEW op \in Mnemonics \ (Forks \cup {"live"}), ExecuteOther(op)
        PROVE  running'[p] = running[p]
    BY <1>0, <1>5 DEF ExecuteOther, Charge
  <1>6. CASE UNCHANGED vars
    BY <1>6 DEF vars
  <1>. QED
    BY <1>1, <1>2, <1>3, <1>4, <1>5, <1>6 DEF Next, Turn

(***************************************************************************)
(* A process out of reach stays out of reach and never takes a turn again.  *)
(***************************************************************************)
THEOREM LostIsForever ==
    ASSUME DistinctNumbers
    PROVE  Spec => LostForGood
  <1> DEFINE Lost == \A p \in Procs \ Reach : p \notin Reach' /\ running'[p] = running[p]
  <1>1. ASSUME SchedInv, [Next]_vars PROVE Lost
    <2>1. RingTypeOK /\ current \in Reach /\ TypeInv
      BY <1>1 DEF SchedInv, TypeInv, TypeOK, CurrentReachable
    <2>2. \A p \in Procs \ Reach : running'[p] = running[p]
      BY <1>1, <2>1, OthersWait
    <2>3. ASSUME NEW op \in Forks \cap Mnemonics, ExecuteFork(op), NEW p \in Procs \ Reach
          PROVE  p \notin Reach'
      <3>1. PICK orig \in Procs : CloneAndLink(orig)
        BY <2>1, <2>3, SearchType DEF ExecuteFork
      <3>2. Reach' \subseteq Reach \cup {nprocs + 1}
        BY <2>1, <3>1, ForkReachesNoMore
      <3>3. nprocs + 1 \notin Procs
        BY <2>1, <3>1, CloneLinks
      <3>. QED
        BY <2>3, <3>2, <3>3
    <2>4. UNCHANGED ringVars => Reach' = Reach
      BY RingUnchanged
    <2>5. ASSUME NEW op \in Forks \cap Mnemonics, ForkHangs(op) PROVE UNCHANGED ringVars
      BY <2>5 DEF ForkHangs
    <2>6. \A p \in Procs \ Reach : p \notin Reach'
      BY <1>1, <2>3, <2>4, <2>5, StepKinds
    <2>. QED
      BY <2>2, <2>6
  <1>2. SchedInv /\ [Next]_vars => [Lost]_vars
    BY <1>1
  <1>3. SchedInv /\ [Next]_vars => SchedInv'
    BY SchedStep
  <1>. QED
    BY InitSched, <1>2, <1>3, PTL DEF Spec, LostForGood

(***************************************************************************)
(* Whatever the numbers, the game hangs only in the turn of a process that  *)
(* had been cut off from the list.                                          *)
(***************************************************************************)
THEOREM HangsOnlyWhenLost == Spec => []OnlyLostHang
  <1>1. Init => OnlyLostHang
    BY DEF Init, OnlyLostHang
  <1>2. ASSUME TypeInv, OnlyLostHang, [Next]_vars PROVE OnlyLostHang'
    <2>1. ASSUME NEW op \in Forks \cap Mnemonics, ExecuteFork(op) PROVE pc' # "hung"
      BY <2>1 DEF ExecuteFork, Advance
    <2>2. ASSUME NEW op \in Forks \cap Mnemonics, ForkHangs(op) PROVE current' \notin Reach'
      <3>1. current \notin Reach
        BY <1>2, <2>2, SearchFinds DEF ForkHangs, TypeInv, TypeOK
      <3>. QED
        BY <2>2, <3>1, RingUnchanged DEF ForkHangs, turnVars
    <2>3. CASE pc = "hung"
      <3>1. UNCHANGED vars
        BY <1>2, <2>3
           DEF Next, Turn, KeepPlaying, EndPeriod, StartRound, StillRunning, InvalidOpcode,
               Nuked, ExecuteLive, ExecuteFork, ForkHangs, ExecuteOther
      <3>. QED
        BY <1>2, <3>1, RingUnchanged DEF vars, turnVars, OnlyLostHang
    <2>. QED
      BY <1>2, <2>1, <2>2, <2>3, StepKinds DEF OnlyLostHang
  <1>. QED
    BY InitType, TypeStep, <1>1, <1>2, PTL DEF Spec

-----------------------------------------------------------------------------
(* Starved processes *)

(* A walk of n steps exists: the shortest that did not would extend one.    *)
LEMMA WalkExists ==
    ASSUME NEW n \in Nat
    PROVE  \E w : w = [k \in 0..n |-> IF k = 0 THEN HeadProc ELSE next[w[k - 1]]]
  <1> DEFINE Walks(m, w) == w = [k \in 0..m |-> IF k = 0 THEN HeadProc ELSE next[w[k - 1]]]
             S == {m \in Nat : ~ \E w : Walks(m, w)}
  <1>1. SUFFICES ASSUME S # {} PROVE FALSE
    OBVIOUS
  <1>2. PICK m \in S : \A t \in S : m <= t
    BY <1>1, Least
  <1>3. m \in Nat /\ ~ \E w : Walks(m, w)
    OBVIOUS
  <1>4. CASE m = 0
    <2> DEFINE w == [k \in 0..0 |-> HeadProc]
    <2>1. \A k \in 0..0 : k = 0
      BY SMT
    <2>2. w = [k \in 0..0 |-> IF k = 0 THEN HeadProc ELSE next[w[k - 1]]]
      BY <2>1
    <2>. QED
      BY <1>3, <1>4, <2>2
  <1>5. CASE m # 0
    <2>1. m - 1 \in Nat /\ ~(m <= m - 1)
      BY <1>3, <1>5, SMT
    <2>2. PICK w : Walks(m - 1, w)
      BY <1>2, <2>1
    <2> DEFINE v == [k \in 0..m |-> IF k < m THEN w[k] ELSE next[w[m - 1]]]
    <2>3. ASSUME NEW k \in 0..m PROVE v[k] = IF k = 0 THEN HeadProc ELSE next[v[k - 1]]
      <3>1. CASE k = 0
        <4>1. 0 \in 0..(m - 1) /\ k < m
          BY <2>1, <3>1, <1>3, <1>5, SMT
        <4>. QED
          BY <2>2, <3>1, <4>1
      <3>2. CASE k # 0
        <4>1. k - 1 \in 0..m /\ k - 1 < m
          BY <3>2, <1>3, SMT
        <4>2. v[k - 1] = w[k - 1]
          BY <4>1
        <4>3. CASE k < m
          <5>1. k \in 0..(m - 1)
            BY <4>3, <1>3, SMT
          <5>2. w[k] = next[w[k - 1]]
            BY <2>2, <3>2, <5>1
          <5>. QED
            BY <3>2, <4>2, <4>3, <5>2
        <4>4. CASE ~(k < m)
          <5>1. k = m
            BY <4>4, <1>3, SMT
          <5>. QED
            BY <3>2, <4>2, <4>4, <5>1
        <4>. QED
          BY <4>3, <4>4
      <3>. QED
        BY <3>1, <3>2
    <2>4. v = [k \in 0..m |-> IF k = 0 THEN HeadProc ELSE next[v[k - 1]]]
      BY <2>3
    <2> HIDE DEF v
    <2>. QED
      BY <1>3, <2>4
  <1>. QED
    BY <1>4, <1>5

LEMMA WalkFacts ==
    /\ Walk[0] = HeadProc
    /\ \A k \in 1..(N - 1) : Walk[k] = next[Walk[k - 1]]
  <1>1. N - 1 \in Nat
    BY RingAssumption, SMT
  <1>2. \E w : w = [k \in 0..(N - 1) |-> IF k = 0 THEN HeadProc ELSE next[w[k - 1]]]
    BY <1>1, WalkExists
  <1>3. Walk = [k \in 0..(N - 1) |-> IF k = 0 THEN HeadProc ELSE next[Walk[k - 1]]]
    BY <1>2 DEF Walk
  <1>4. \A k \in 0..(N - 1) : Walk[k] = IF k = 0 THEN HeadProc ELSE next[Walk[k - 1]]
    BY <1>3
  <1>5. 0 \in 0..(N - 1) /\ \A k \in 1..(N - 1) : k \in 0..(N - 1) /\ k # 0
    BY <1>1, SMT
  <1>. QED
    BY <1>4, <1>5

(***************************************************************************)
(* A certificate that p is far away: d is N at the head, 0 at p, and comes  *)
(* down by no more than 1 with each link, so from a process at which it is  *)
(* k no walk of fewer than k steps comes to p.                              *)
(***************************************************************************)
Distance(d, p) ==
    /\ d \in [Pool -> 0..N]
    /\ d[HeadProc] = N
    /\ d[p] = 0
    /\ \A q \in Procs : d[q] <= d[next[q]] + 1

Starved(p) ==
    /\ p \in Procs
    /\ \E d : Distance(d, p) /\ (pc = "turn" => N - i <= d[current])

(* A process the walk does not come to is that far away. *)
LEMMA UnservedAreFar ==
    ASSUME TypeInv, NEW p \in Procs \ Served
    PROVE  \E d : Distance(d, p)
  <1>1. /\ RingTypeOK /\ Procs \subseteq Pool /\ HeadProc \in Procs
        /\ N \in Nat /\ N >= 1
    <2>1. RingTypeOK
      BY DEF TypeInv, TypeOK
    <2>2. Procs \subseteq Pool
      BY <2>1, RingAssumption, SMT DEF RingTypeOK, Procs, Pool
    <2>. QED
      BY <2>1, <2>2, ConstantFacts, HeadReachable
  <1> DEFINE Steps(q) == {k \in 0..(N - 1) : Walk[k] = q}
             Far(q, v) == IF Steps(q) = {} THEN v = 0
                          ELSE \E k \in Steps(q) : v = N - k /\ \A j \in Steps(q) : k <= j
             d == [q \in Pool |-> CHOOSE v : Far(q, v)]
  <1>2. ASSUME NEW q \in Pool PROVE Far(q, d[q])
    <2>1. Steps(q) \in SUBSET Nat
      BY <1>1, SMT
    <2>2. Steps(q) # {} => \E k \in Steps(q) : \A j \in Steps(q) : k <= j
      BY <2>1, Least
    <2>3. \E v : Far(q, v)
      BY <2>2
    <2>. QED
      BY <2>3
  <1>3. \A q \in Pool : Steps(q) = {} => d[q] = 0
    BY <1>2
  <1>4. \A q \in Pool : Steps(q) # {} =>
           \E k \in Steps(q) : d[q] = N - k /\ \A j \in Steps(q) : k <= j
    BY <1>2
  <1>5. (\A q \in Pool : d[q] \in 0..N) => d \in [Pool -> 0..N]
    <2> DEFINE c(q) == CHOOSE v : Far(q, v)
    <2>1. d = [q \in Pool |-> c(q)]
      OBVIOUS
    <2> HIDE DEF c
    <2>. QED
      BY <2>1
  <1> HIDE DEF d
  <1>6. ASSUME NEW q \in Pool PROVE d[q] \in 0..N
    <2>1. CASE Steps(q) = {}
      BY <1>1, <1>3, <2>1
    <2>2. CASE Steps(q) # {}
      <3>1. PICK k \in 0..(N - 1) : d[q] = N - k
        BY <1>4, <2>2
      <3>. QED
        BY <1>1, <3>1, SMT
    <2>. QED
      BY <2>1, <2>2
  <1>7. d[HeadProc] = N
    <2>1. 0 \in Steps(HeadProc) /\ HeadProc \in Pool
      BY <1>1, WalkFacts, SMT
    <2>2. PICK k \in 0..(N - 1) : d[HeadProc] = N - k /\ k <= 0
      BY <1>4, <2>1
    <2>. QED
      BY <1>1, <2>2, SMT
  <1>8. d[p] = 0
    <2>1. Steps(p) = {} /\ p \in Pool
      BY <1>1 DEF Served
    <2>. QED
      BY <1>3, <2>1
  <1>9. ASSUME NEW q \in Procs PROVE d[q] <= d[next[q]] + 1
    <2>1. q \in Pool /\ next[q] \in Pool /\ d[q] \in 0..N /\ d[next[q]] \in 0..N
      BY <1>1, <1>6 DEF RingTypeOK
    <2>2. CASE Steps(q) = {}
      BY <1>3, <2>1, <2>2, SMT
    <2>3. CASE Steps(q) # {}
      <3>1. PICK k \in Steps(q) : d[q] = N - k
        BY <1>4, <2>1, <2>3
      <3>2. k \in 0..(N - 1) /\ Walk[k] = q
        OBVIOUS
      <3>3. CASE k = N - 1
        BY <1>1, <2>1, <3>1, <3>3, SMT
      <3>4. CASE k # N - 1
        <4>1. k + 1 \in 1..(N - 1) /\ k + 1 \in 0..(N - 1) /\ (k + 1) - 1 = k
          BY <1>1, <3>2, <3>4, SMT
        <4>2. Walk[k + 1] = next[q]
          BY <3>2, <4>1, WalkFacts
        <4>3. k + 1 \in Steps(next[q])
          BY <4>1, <4>2
        <4>4. PICK j \in 0..(N - 1) : d[next[q]] = N - j /\ j <= k + 1
          BY <1>4, <2>1, <4>3
        <4>. QED
          BY <1>1, <3>1, <3>2, <4>4, SMT
      <3>. QED
        BY <3>3, <3>4
    <2>. QED
      BY <2>2, <2>3
  <1>. QED
    BY <1>5, <1>6, <1>7, <1>8, <1>9 DEF Distance

(* A fork brings nothing nearer: the clone stands where the head does. *)
LEMMA ForkKeepsDistance ==
    ASSUME RingTypeOK, NEW orig \in Procs, CloneAndLink(orig),
           NEW p \in Procs, NEW d, Distance(d, p)
    PROVE  \E e : Distance(e, p)' /\ \A q \in Procs : e[q] = d[q]
  <1> DEFINE clone == nprocs + 1
  <1>1. /\ N \in Nat /\ Procs \subseteq Pool /\ clone \in Pool /\ clone \notin Procs
        /\ HeadProc \in Procs
    <2>1. Procs \subseteq Pool /\ clone \in Pool
      BY RingAssumption, SMT DEF RingTypeOK, CloneAndLink, Procs, Pool
    <2>. QED
      BY <2>1, ConstantFacts, HeadReachable, CloneLinks
  <1>0. PICK e : e = [d EXCEPT ![clone] = N]
    OBVIOUS
  <1>2. /\ e \in [Pool -> 0..N] /\ e[clone] = N
        /\ \A q \in Procs : e[q] = d[q] /\ d[q] \in 0..N
    BY <1>0, <1>1 DEF Distance
  <1>3. ASSUME NEW q \in Procs' PROVE e[q] <= e[next'[q]] + 1
    <2>1. next[HeadProc] \in Procs
      BY <1>1 DEF RingTypeOK
    <2>2. CASE q = clone
      <3>1. next'[q] = next[HeadProc]
        BY <2>2, CloneLinks
      <3>2. N <= d[next[HeadProc]] + 1
        BY <1>1 DEF Distance
      <3>. QED
        BY <1>2, <2>1, <2>2, <3>1, <3>2
    <2>3. CASE q = orig
      <3>1. next'[q] = clone
        BY <2>3, CloneLinks
      <3>. QED
        BY <1>1, <1>2, <2>3, <3>1, SMT
    <2>4. CASE q \in Procs /\ q # orig
      <3>1. next'[q] = next[q] /\ next[q] \in Procs
        BY <2>4, CloneLinks DEF RingTypeOK
      <3>. QED
        BY <1>2, <2>4, <3>1 DEF Distance
    <2>. QED
      BY <1>3, <2>2, <2>3, <2>4, CloneLinks
  <1>4. e[HeadProc] = N /\ e[p] = 0
    BY <1>1, <1>2 DEF Distance
  <1>5. Distance(e, p)'
    BY <1>2, <1>3, <1>4 DEF Distance, Pool, HeadProc
  <1>. QED
    BY <1>2, <1>5

(* A turn in which nothing forks: the next turn is the head's first, or the *)
(* successor's, or still the same.                                          *)
LEMMA QuietTurn ==
    ASSUME [Next]_vars
    PROVE  \/ \E op \in Forks \cap Mnemonics : ExecuteFork(op)
           \/ /\ UNCHANGED ringVars
              /\ pc' = "turn" =>
                    \/ current' = HeadProc /\ i' = 0
                    \/ pc = "turn" /\ current' = next[current] /\ i' = i + 1
                    \/ pc = "turn" /\ current' = current /\ i' = i
  <1>1. CASE KeepPlaying \/ EndPeriod
    BY <1>1 DEF KeepPlaying, EndPeriod
  <1>2. CASE StartRound
    BY <1>2 DEF StartRound
  <1>3. CASE StillRunning
    BY <1>3 DEF StillRunning, Advance, ringVars
  <1>4. CASE InvalidOpcode
    BY <1>4 DEF InvalidOpcode, Advance, ringVars
  <1>5. CASE Nuked
    BY <1>5 DEF Nuked, Advance, ringVars
  <1>6. CASE ExecuteLive
    BY <1>6 DEF ExecuteLive, Advance, ringVars
  <1>7. ASSUME NEW op \in Mnemonics \ (Forks \cup {"live"}), ExecuteOther(op)
        PROVE  /\ UNCHANGED ringVars
               /\ pc = "turn" /\ current' = next[current] /\ i' = i + 1
    BY <1>7 DEF ExecuteOther, Advance, ringVars
  <1>8. ASSUME NEW op \in Forks \cap Mnemonics, ForkHangs(op)
        PROVE  UNCHANGED ringVars /\ pc' # "turn"
    BY <1>8 DEF ForkHangs
  <1>9. CASE UNCHANGED vars
    BY <1>9 DEF vars, turnVars
  <1>. QED
    BY <1>1, <1>2, <1>3, <1>4, <1>5, <1>6, <1>7, <1>8, <1>9 DEF Next, Turn

LEMMA StarvedStep ==
    ASSUME TypeInv, NEW p, Starved(p), [Next]_vars
    PROVE  Starved(p)'
  <1>1. /\ RingTypeOK /\ p \in Procs /\ current \in Procs /\ HeadProc \in Procs
        /\ i \in 0..N /\ N \in Nat
    BY ConstantFacts, HeadReachable DEF TypeInv, TypeOK, Starved
  <1>2. PICK d : Distance(d, p) /\ (pc = "turn" => N - i <= d[current])
    BY DEF Starved
  <1>3. \A q \in Procs : d[q] \in 0..N /\ next[q] \in Procs /\ d[q] <= d[next[q]] + 1
    <2>1. Procs \subseteq Pool
      BY <1>1, RingAssumption, SMT DEF RingTypeOK, Procs, Pool
    <2>. QED
      BY <1>1, <1>2, <2>1 DEF Distance, RingTypeOK
  <1>4. ASSUME NEW op \in Forks \cap Mnemonics, ExecuteFork(op)
        PROVE  Starved(p)'
    <2>1. PICK orig \in Procs : CloneAndLink(orig)
      BY <1>1, <1>4, SearchType DEF ExecuteFork
    <2>2. PICK e : Distance(e, p)' /\ \A q \in Procs : e[q] = d[q]
      BY <1>1, <1>2, <2>1, ForkKeepsDistance
    <2>3. /\ pc = "turn" /\ i' = i + 1 /\ current' = next'[current]
          /\ current \in Procs'
      BY <1>1, <1>4, <2>1, CloneLinks DEF ExecuteFork, Advance
    <2>4. e[current] <= e[current'] + 1
      BY <2>2, <2>3 DEF Distance
    <2>5. current' \in Procs'
      BY TypeStep DEF TypeInv, TypeOK
    <2>6. e[current'] \in 0..N
      <3>1. Procs' \subseteq Pool'
        <4>1. RingTypeOK'
          BY TypeStep DEF TypeInv, TypeOK
        <4>. QED
          BY <4>1, RingAssumption, SMT DEF RingTypeOK, Procs, Pool
      <3>. QED
        BY <2>2, <2>5, <3>1 DEF Distance
    <2>7. N - i' <= e[current']
      BY <1>1, <1>2, <1>3, <2>2, <2>3, <2>4, <2>6, SMT
    <2>8. p \in Procs'
      BY <1>1, <2>1, CloneLinks
    <2>. QED
      BY <2>2, <2>7, <2>8 DEF Starved
  <1>5. ASSUME UNCHANGED ringVars,
               pc' = "turn" =>
                  \/ current' = HeadProc /\ i' = 0
                  \/ pc = "turn" /\ current' = next[current] /\ i' = i + 1
                  \/ pc = "turn" /\ current' = current /\ i' = i
        PROVE  Starved(p)'
    <2>1. Procs' = Procs /\ next' = next /\ Distance(d, p)'
      BY <1>2, <1>5, RingUnchanged DEF Distance, ringVars, Pool, HeadProc
    <2>2. pc' = "turn" => N - i' <= d[current']
      <3>1. CASE current' = HeadProc /\ i' = 0
        BY <1>1, <1>2, <3>1 DEF Distance
      <3>2. CASE pc = "turn" /\ current' = next[current] /\ i' = i + 1
        BY <1>1, <1>2, <1>3, <3>2
      <3>3. CASE pc = "turn" /\ current' = current /\ i' = i
        BY <1>2, <3>3
      <3>. QED
        BY <1>5, <3>1, <3>2, <3>3
    <2>. QED
      BY <1>1, <2>1, <2>2 DEF Starved
  <1>. QED
    BY <1>4, <1>5, QuietTurn

(***************************************************************************)
(* In a game of any size, whatever the numbers and however the forks rewire *)
(* the list later, a process that is not among the first N when a round     *)
(* begins gets no turn any more.                                            *)
(***************************************************************************)
THEOREM StarvedIsForever == Spec => StarvedForGood
  <1>1. TypeInv /\ [Next]_vars => TypeInv'
    BY TypeStep
  <1> SUFFICES ASSUME NEW p \in Pool
               PROVE  Spec => [](pc = "run_instructions" /\ p \in Procs \ Served
                                   => []~(pc = "turn" /\ current = p))
    BY DEF StarvedForGood
  <1>2. TypeInv /\ pc = "run_instructions" /\ p \in Procs \ Served => Starved(p)
    BY UnservedAreFar DEF Starved
  <1>3. TypeInv /\ Starved(p) /\ [Next]_vars => Starved(p)'
    BY StarvedStep
  <1>4. TypeInv /\ Starved(p) => ~(pc = "turn" /\ current = p)
    <2> SUFFICES ASSUME TypeInv, Starved(p), pc = "turn", current = p PROVE FALSE
      OBVIOUS
    <2>1. i \in 0..N /\ i < N /\ N \in Nat
      BY ConstantFacts DEF TypeInv, TypeOK, TurnLeft
    <2>2. N - i <= 0
      BY DEF Starved, Distance
    <2>. QED
      BY <2>1, <2>2, SMT
  <1>. QED
    BY InitType, <1>1, <1>2, <1>3, <1>4, PTL DEF Spec

-----------------------------------------------------------------------------
(* The clock and the calls of live, turn by turn *)

(***************************************************************************)
(* CheckPunctual speaks of the end of a round; within the round the bound   *)
(* grows with each turn.                                                    *)
(***************************************************************************)
ClockInv ==
    /\ CheckPunctual
    /\ pc = "run_instructions" => nbr_cycles < cycle_to_die /\ lives < NBR_LIVE
    /\ pc = "turn" => /\ nbr_cycles <= cycle_to_die + i * MaxCost
                      /\ lives <= NBR_LIVE - 1 + i

LEMMA OneMoreTurn ==
    ASSUME NEW m \in Nat
    PROVE  /\ m * MaxCost \in Nat
           /\ (m + 1) * MaxCost = m * MaxCost + MaxCost
  BY ConstantFacts, SMT

LEMMA InitClock == Init => ClockInv
  <1> SUFFICES ASSUME Init PROVE ClockInv
    OBVIOUS
  <1>1. N * MaxCost \in Nat
    BY ConstantFacts, OneMoreTurn
  <1>2. 0 <= CYCLE_TO_DIE + N * MaxCost /\ 0 <= NBR_LIVE - 1 + N
    BY <1>1, ConstantFacts, GameAssumption, SMT
  <1>. QED
    BY <1>2 DEF Init, ClockInv, CheckPunctual

(* A turn charges no more than MaxCost and counts at most one call. *)
LEMMA TurnCharges ==
    ASSUME TypeInv, Turn
    PROVE  \/ pc' = "hung"
           \/ /\ pc = "turn" /\ Advance
              /\ nbr_cycles' \in Nat /\ nbr_cycles' <= nbr_cycles + MaxCost
              /\ lives' \in {lives, lives + 1}
              /\ cycle_to_die' = cycle_to_die
  <1>0. nbr_cycles \in Nat /\ lives \in Nat
    BY DEF TypeInv, TypeOK
  <1>1. ASSUME NEW op \in Mnemonics, Charge(op)
        PROVE  nbr_cycles' \in Nat /\ nbr_cycles' <= nbr_cycles + MaxCost
    <2>1. Cycles[op] \in 1..MaxCost /\ nbr_cycles' = nbr_cycles + Cycles[op]
      BY <1>1, ConstantFacts DEF Charge
    <2>. QED
      BY <1>0, <2>1, ConstantFacts, SMT
  <1>2. CASE StillRunning \/ InvalidOpcode
    <2>1. nbr_cycles' = nbr_cycles /\ nbr_cycles <= nbr_cycles + MaxCost
      BY <1>0, <1>2, ConstantFacts, SMT DEF StillRunning, InvalidOpcode, coreVars
    <2>. QED
      BY <1>0, <1>2, <2>1 DEF StillRunning, InvalidOpcode, coreVars, periodVars
  <1>3. CASE Nuked
    <2>1. nbr_cycles' \in Nat /\ nbr_cycles' <= nbr_cycles + MaxCost
      BY <1>0, <1>3, ConstantFacts, SMT DEF Nuked
    <2>. QED
      BY <1>3, <2>1 DEF Nuked, periodVars
  <1>4. CASE ExecuteLive
    BY <1>1, <1>4 DEF ExecuteLive, periodVars
  <1>5. ASSUME NEW op \in Forks \cap Mnemonics, ExecuteFork(op)
        PROVE  /\ pc = "turn" /\ Advance
               /\ nbr_cycles' \in Nat /\ nbr_cycles' <= nbr_cycles + MaxCost
               /\ lives' \in {lives, lives + 1}
               /\ cycle_to_die' = cycle_to_die
    BY <1>1, <1>5 DEF ExecuteFork, periodVars
  <1>6. ASSUME NEW op \in Forks \cap Mnemonics, ForkHangs(op) PROVE pc' = "hung"
    BY <1>6 DEF ForkHangs
  <1>7. ASSUME NEW op \in Mnemonics \ (Forks \cup {"live"}), ExecuteOther(op)
        PROVE  /\ pc = "turn" /\ Advance
               /\ nbr_cycles' \in Nat /\ nbr_cycles' <= nbr_cycles + MaxCost
               /\ lives' \in {lives, lives + 1}
               /\ cycle_to_die' = cycle_to_die
    BY <1>1, <1>7 DEF ExecuteOther, periodVars
  <1>. QED
    BY <1>2, <1>3, <1>4, <1>5, <1>6, <1>7 DEF Turn

LEMMA ClockStep == TypeInv /\ ClockInv /\ [Next]_vars => ClockInv'
  <1> SUFFICES ASSUME TypeInv, ClockInv, [Next]_vars PROVE ClockInv'
    OBVIOUS
  <1>0. /\ nbr_cycles \in Nat /\ lives \in Nat /\ cycle_to_die \in Int /\ i \in Nat
        /\ NBR_LIVE \in Nat /\ NBR_LIVE >= 1
    BY ConstantFacts, GameAssumption, SMT DEF TypeInv, TypeOK
  <1>1. CASE KeepPlaying
    <2>1. nbr_cycles < cycle_to_die /\ lives < NBR_LIVE
      BY <1>0, <1>1, SMT DEF KeepPlaying, PeriodOver
    <2>. QED
      BY <1>1, <2>1 DEF KeepPlaying, coreVars, ClockInv, CheckPunctual
  <1>2. CASE EndPeriod
    <2>1. cycle_to_die' \in Int /\ nbr_cycles' = 0 /\ lives' = 0
      BY <1>2, TypeStep DEF EndPeriod, TypeInv, TypeOK
    <2>2. pc' = "over" \/ (pc' = "run_instructions" /\ ~(cycle_to_die' <= 0))
      BY <1>2 DEF EndPeriod
    <2>3. pc' = "run_instructions" => nbr_cycles' < cycle_to_die' /\ lives' < NBR_LIVE
      BY <1>0, <2>1, <2>2, SMT
    <2>. QED
      BY <2>2, <2>3 DEF ClockInv, CheckPunctual
  <1>3. CASE StartRound
    <2>1. nbr_cycles' <= cycle_to_die + 0 * MaxCost /\ lives <= NBR_LIVE - 1 + 0
      BY <1>0, <1>3, ConstantFacts, SMT DEF StartRound, Tick, ClockInv
    <2>. QED
      BY <1>3, <2>1 DEF StartRound, periodVars, ClockInv, CheckPunctual
  <1>4. CASE Turn
    <2>1. CASE pc' = "hung"
      BY <2>1 DEF ClockInv, CheckPunctual
    <2>2. CASE pc' # "hung"
      <3>1. /\ pc = "turn" /\ Advance /\ nbr_cycles' \in Nat
            /\ nbr_cycles' <= nbr_cycles + MaxCost
            /\ lives' \in {lives, lives + 1} /\ cycle_to_die' = cycle_to_die
        BY <1>4, <2>2, TurnCharges
      <3>2. /\ nbr_cycles <= cycle_to_die + i * MaxCost
            /\ lives <= NBR_LIVE - 1 + i
        BY <3>1 DEF ClockInv
      <3>3. i * MaxCost \in Nat /\ (i + 1) * MaxCost = i * MaxCost + MaxCost
        BY <1>0, OneMoreTurn
      <3>4. nbr_cycles' <= cycle_to_die' + (i + 1) * MaxCost /\ lives' <= NBR_LIVE - 1 + (i + 1)
        <4>1. nbr_cycles' <= cycle_to_die + (i * MaxCost + MaxCost)
          BY <1>0, <3>1, <3>2, <3>3, ConstantFacts, SMT
        <4>2. lives' <= NBR_LIVE - 1 + (i + 1)
          BY <1>0, <3>1, <3>2, SMT
        <4>. QED
          BY <3>1, <3>3, <4>1, <4>2
      <3>5. i' = i + 1 /\ pc' = IF i + 1 < N THEN "turn" ELSE "game_on"
        BY <3>1 DEF Advance
      <3>6. ~(i + 1 < N) => i + 1 = N
        BY <1>0, <3>1, ConstantFacts, SMT DEF TypeInv, TurnLeft
      <3>. QED
        BY <3>4, <3>5, <3>6 DEF ClockInv, CheckPunctual
    <2>. QED
      BY <2>1, <2>2
  <1>5. CASE UNCHANGED vars
    BY <1>5 DEF vars, coreVars, periodVars, turnVars, ClockInv, CheckPunctual
  <1>. QED
    BY <1>1, <1>2, <1>3, <1>4, <1>5 DEF Next

(***************************************************************************)
(* However many processes there are and whatever they execute, a period is  *)
(* checked at the latest one round of dearest instructions after its end.   *)
(***************************************************************************)
THEOREM ChecksArePunctual == Spec => []CheckPunctual
  <1>1. ClockInv => CheckPunctual
    BY DEF ClockInv
  <1>. QED
    BY InitType, TypeStep, InitClock, ClockStep, <1>1, PTL DEF Spec

-----------------------------------------------------------------------------
(* The tournament *)

(***************************************************************************)
(* What the refinement rests on: a spare slot is never dead, every process  *)
(* has the number of a loaded champion, and the announcement is made when   *)
(* the game ends and not before.                                            *)
(***************************************************************************)
SpareUnharmed == \A s \in Slots \ Loaded : ~dead[s]
KnownPlayers == \A p \in Procs : \E c \in Loaded : player[p] = Id[c]
AnnouncedAtEnd == announced = 0 <=> pc # "over"

RefInv == TypeInv /\ SpareUnharmed /\ KnownPlayers /\ AnnouncedAtEnd

LEMMA InitRef == Init => RefInv
  <1> SUFFICES ASSUME Init PROVE RefInv
    OBVIOUS
  <1>1. Procs = 1..N /\ 1..N \subseteq Pool
    BY RingAssumption, SMT DEF Init, RingInit, Procs, Pool
  <1>2. KnownPlayers
    <2>1. \A p \in 1..N : p <= N
      BY RingAssumption, SMT
    <2>. QED
      BY <1>1, <2>1 DEF Init, RingInit, KnownPlayers, Loaded
  <1>. QED
    BY <1>2, InitType DEF Init, RefInv, SpareUnharmed, AnnouncedAtEnd

(* The three kinds of steps, as far as the tournament can tell. *)
LEMMA StepsSeen ==
    ASSUME [Next]_vars
    PROVE  \/ EndPeriod
           \/ ExecuteLive
           \/ /\ UNCHANGED <<champ_lives, lives, dead, cycle_to_die, announced>>
              /\ pc' = "over" <=> pc = "over"
  <1>1. CASE KeepPlaying \/ StartRound
    BY <1>1 DEF KeepPlaying, StartRound, coreVars, periodVars
  <1>2. CASE StillRunning \/ InvalidOpcode \/ Nuked
    BY <1>2 DEF StillRunning, InvalidOpcode, Nuked, Advance, coreVars, periodVars
  <1>3. ASSUME NEW op \in Forks \cap Mnemonics, ExecuteFork(op) \/ ForkHangs(op)
        PROVE  /\ UNCHANGED <<champ_lives, lives, dead, cycle_to_die, announced>>
               /\ pc' = "over" <=> pc = "over"
    BY <1>3 DEF ExecuteFork, ForkHangs, Advance, coreVars, periodVars
  <1>4. ASSUME NEW op \in Mnemonics \ (Forks \cup {"live"}), ExecuteOther(op)
        PROVE  /\ UNCHANGED <<champ_lives, lives, dead, cycle_to_die, announced>>
               /\ pc' = "over" <=> pc = "over"
    BY <1>4 DEF ExecuteOther, Advance, coreVars, periodVars
  <1>5. CASE UNCHANGED vars
    BY <1>5 DEF vars, coreVars, periodVars
  <1>. QED
    BY <1>1, <1>2, <1>3, <1>4, <1>5 DEF Next, Turn

LEMMA KnownStep ==
    ASSUME TypeInv, KnownPlayers, [Next]_vars
    PROVE  KnownPlayers'
  <1>0. RingTypeOK
    BY DEF TypeInv, TypeOK
  <1>1. CASE UNCHANGED ringVars
    BY <1>1, RingUnchanged DEF KnownPlayers, ringVars
  <1>2. ASSUME NEW op \in Forks \cap Mnemonics, ExecuteFork(op) PROVE KnownPlayers'
    <2>1. PICK orig \in Procs : CloneAndLink(orig)
      BY <1>0, <1>2, SearchType DEF ExecuteFork
    <2>2. Procs' = Procs \cup {nprocs + 1} /\ nprocs + 1 \notin Procs /\ HeadProc \in Procs
      BY <1>0, <2>1, CloneLinks, HeadReachable
    <2>3. player' = [player EXCEPT ![nprocs + 1] = player[HeadProc]]
      BY <2>1 DEF CloneAndLink
    <2>4. Procs' \subseteq Pool
      BY <1>0, <2>1, RingAssumption, SMT DEF CloneAndLink, RingTypeOK, Procs, Pool
    <2>5. player \in [Pool -> Int]
      BY <1>0 DEF RingTypeOK
    <2>. QED
      BY <2>2, <2>3, <2>4, <2>5 DEF KnownPlayers
  <1>3. (\E op \in Forks \cap Mnemonics : ExecuteFork(op)) \/ UNCHANGED ringVars
    <2>1. CASE KeepPlaying \/ EndPeriod \/ StartRound
      BY <2>1 DEF KeepPlaying, EndPeriod, StartRound
    <2>2. CASE StillRunning \/ InvalidOpcode \/ Nuked \/ ExecuteLive
      BY <2>2 DEF StillRunning, InvalidOpcode, Nuked, ExecuteLive
    <2>3. ASSUME NEW op \in Forks \cap Mnemonics, ForkHangs(op) PROVE UNCHANGED ringVars
      BY <2>3 DEF ForkHangs
    <2>4. ASSUME NEW op \in Mnemonics \ (Forks \cup {"live"}), ExecuteOther(op)
          PROVE  UNCHANGED ringVars
      BY <2>4 DEF ExecuteOther
    <2>5. CASE UNCHANGED vars
      BY <2>5 DEF vars
    <2>. QED
      BY <2>1, <2>2, <2>3, <2>4, <2>5 DEF Next, Turn
  <1>. QED
    BY <1>1, <1>2, <1>3

LEMMA RefStep == RefInv /\ [Next]_vars => RefInv'
  <1> SUFFICES ASSUME RefInv, [Next]_vars PROVE RefInv'
    OBVIOUS
  <1>1. TypeInv' /\ KnownPlayers'
    BY TypeStep, KnownStep DEF RefInv
  <1>2. SpareUnharmed'
    <2>1. CASE EndPeriod
      BY <2>1 DEF EndPeriod, Killed, RefInv, SpareUnharmed
    <2>2. CASE dead' = dead
      BY <2>2 DEF RefInv, SpareUnharmed
    <2>. QED
      BY <2>1, <2>2, StepsSeen DEF ExecuteLive, periodVars
  <1>3. AnnouncedAtEnd'
    <2>1. CASE EndPeriod
      <3>1. FindWinner(dead') # 0
        BY WinnerType, GameAssumption, SMT DEF Slots
      <3>2. announced = 0
        BY <2>1 DEF EndPeriod, RefInv, AnnouncedAtEnd
      <3>. QED
        BY <2>1, <3>1, <3>2 DEF EndPeriod, AnnouncedAtEnd
    <2>2. CASE ExecuteLive
      BY <2>2 DEF ExecuteLive, Advance, periodVars, RefInv, AnnouncedAtEnd
    <2>3. CASE announced' = announced /\ (pc' = "over" <=> pc = "over")
      BY <2>3 DEF RefInv, AnnouncedAtEnd
    <2>. QED
      BY <2>1, <2>2, <2>3, StepsSeen
  <1>. QED
    BY <1>1, <1>2, <1>3 DEF RefInv

-----------------------------------------------------------------------------
(* The check at the end of a period is the judgement of the tournament *)

(* Those heard are those who spare themselves by calling. *)
LEMMA HeardAreCallers ==
    ASSUME TypeInv
    PROVE  Heard = Callers
  <1>1. \A s \in Loaded : champ_lives[s] \in Nat
    BY ConstantFacts DEF TypeInv, TypeOK
  <1>2. \A s \in Loaded : champ_lives[s] > 0 <=> champ_lives[s] # 0
    BY <1>1, SMT
  <1>. QED
    BY <1>2 DEF Heard, Alive, Callers, Out, Silent

LEMMA SparedMeans ==
    LastIsSpared <=> Callers = {} /\ N \in Alive
  <1>1. Loaded = (1..(N - 1)) \cup {N} /\ N \notin 1..(N - 1)
    BY RingAssumption, SMT DEF Loaded
  <1>. QED
    BY <1>1 DEF LastIsSpared, Callers, Alive, Out, Silent

(* Who is alive after the check, and that nobody has been heard since. *)
LEMMA AfterCheck ==
    ASSUME TypeInv, EndPeriod
    PROVE  /\ Alive' = T!Survivors
           /\ Heard' = {}
  <1>1. /\ dead' = [s \in Slots |-> dead[s] \/ s \in Killed]
        /\ champ_lives' = [s \in Slots |-> IF s \in Callers THEN 0 ELSE champ_lives[s]]
    BY DEF EndPeriod
  <1>2. Loaded \subseteq Slots
    BY ConstantFacts
  <1>3. Loaded = (1..(N - 1)) \cup {N} /\ N \notin 1..(N - 1)
    BY RingAssumption, SMT DEF Loaded
  <1>4. Alive' = {s \in Loaded : ~dead[s] /\ s \notin Killed}
    BY <1>1, <1>2 DEF Alive
  <1>5. CASE LastIsSpared
    <2>1. Alive' = {N}
      BY <1>3, <1>4, <1>5 DEF LastIsSpared, Killed, Out, Silent
    <2>2. T!Survivors = {N}
      BY <1>5, SparedMeans, HeardAreCallers DEF T!Survivors
    <2>3. champ_lives'[N] = 0
      BY <1>1, <1>2, <1>3, <1>5 DEF LastIsSpared, Silent, Callers, Out
    <2>. QED
      BY <2>1, <2>2, <2>3 DEF Heard
  <1>6. CASE ~LastIsSpared
    <2>1. Alive' = Callers
      BY <1>4, <1>6 DEF Killed, Callers, Out, Silent
    <2>2. T!Survivors = Callers
      BY <1>6, SparedMeans, HeardAreCallers DEF T!Survivors
    <2>3. \A s \in Callers : champ_lives'[s] = 0
      BY <1>1, <1>2 DEF Callers
    <2>. QED
      BY <2>1, <2>2, <2>3 DEF Heard
  <1>. QED
    BY <1>5, <1>6

LEMMA AliveFinite == IsFiniteSet(Alive) /\ IsFiniteSet(Callers)
  <1>1. IsFiniteSet(Loaded)
    BY ConstantFacts, FS_Interval, SMT DEF Loaded
  <1>2. Alive \in SUBSET Loaded /\ Callers \in SUBSET Loaded
    BY DEF Alive, Callers
  <1>. QED
    BY <1>1, <1>2, FS_Subset

LEMMA OneLeftMeans ==
    ASSUME TypeInv
    PROVE  OneLeft <=> T!OneSurvives
  <1>1. CASE LastIsSpared
    <2>1. T!Survivors = {N} /\ N \in 1..N
      BY <1>1, ConstantFacts, SparedMeans, HeardAreCallers DEF T!Survivors
    <2>. QED
      BY <1>1, <2>1 DEF OneLeft, T!OneSurvives, T!Champions
  <1>2. CASE ~LastIsSpared
    <2>1. T!Survivors = Callers
      BY <1>2, SparedMeans, HeardAreCallers DEF T!Survivors
    <2>2. Cardinality(Callers) = 1 <=> \E c : Callers = {c}
      BY AliveFinite, FS_Singleton
    <2>3. \A c : Callers = {c} => c \in 1..N
      BY DEF Callers, Loaded
    <2>. QED
      BY <1>2, <2>1, <2>2, <2>3 DEF OneLeft, T!OneSurvives, T!Champions
  <1>. QED
    BY <1>1, <1>2

(* find_winner's first slot is the tournament's winner. *)
LEMMA WinnerAgrees ==
    ASSUME NEW d, \A s \in Slots \ Loaded : ~d[s]
    PROVE  FindWinner(d) = T!Winner({s \in Loaded : ~d[s]})
  <1> DEFINE S == {s \in Loaded : ~d[s]}
  <1>1. /\ N \in Nat /\ MAX_CHAMPIONS \in Nat /\ N <= MAX_CHAMPIONS
        /\ \A s \in Slots \ Loaded : s \in Nat /\ s > N
        /\ \A s \in Loaded : s \in Nat /\ s <= N
        /\ Loaded \subseteq Slots
    BY RingAssumption, GameAssumption, SMT DEF Slots, Loaded
  <1>2. Standing(d) = S \cup (Slots \ Loaded)
    BY <1>1 DEF Standing
  <1>3. CASE S # {}
    <2>1. PICK m \in S : \A t \in S : m <= t
      BY <1>1, <1>3, Least
    <2>2. \A t \in Standing(d) : m <= t
      BY <1>1, <1>2, <2>1, SMT
    <2>3. \A x \in Standing(d) : (\A t \in Standing(d) : x <= t) => x = m
      <3>1. SUFFICES ASSUME NEW x \in Standing(d), \A t \in Standing(d) : x <= t
                     PROVE  x = m
        OBVIOUS
      <3>2. x <= m /\ m <= x /\ x \in Nat /\ m \in Nat
        BY <1>1, <1>2, <2>1, <2>2, <3>1
      <3>. QED
        BY <3>2, SMT
    <2>4. \A x \in S : (\A t \in S : x <= t) => x = m
      <3>1. SUFFICES ASSUME NEW x \in S, \A t \in S : x <= t
                     PROVE  x = m
        OBVIOUS
      <3>2. x <= m /\ m <= x /\ x \in Nat /\ m \in Nat
        BY <1>1, <2>1, <3>1
      <3>. QED
        BY <3>2, SMT
    <2>5. FindWinner(d) = m
      BY <1>2, <2>1, <2>2, <2>3 DEF FindWinner
    <2>6. T!Winner(S) = m
      BY <1>3, <2>1, <2>4 DEF T!Winner
    <2>. QED
      BY <2>5, <2>6
  <1>4. CASE S = {} /\ N < MAX_CHAMPIONS
    <2>1. N + 1 \in Standing(d) /\ \A t \in Standing(d) : N + 1 <= t
      BY <1>1, <1>2, <1>4, SMT DEF Slots, Loaded
    <2>2. \A x \in Standing(d) : (\A t \in Standing(d) : x <= t) => x = N + 1
      BY <1>1, <1>2, <1>4, <2>1, SMT
    <2>3. FindWinner(d) = N + 1
      BY <2>1, <2>2 DEF FindWinner
    <2>. QED
      BY <1>4, <2>3 DEF T!Winner
  <1>5. CASE S = {} /\ ~(N < MAX_CHAMPIONS)
    <2>1. Standing(d) = {}
      BY <1>1, <1>2, <1>5, SMT DEF Slots, Loaded
    <2>. QED
      BY <1>5, <2>1 DEF FindWinner, T!Winner
  <1>. QED
    BY <1>3, <1>4, <1>5

LEMMA CheckIsJudge ==
    ASSUME RefInv, RefInv', EndPeriod
    PROVE  T!Judge
  <1>1. TypeInv
    BY DEF RefInv
  <1>2. announced = 0
    BY DEF RefInv, AnnouncedAtEnd, EndPeriod
  <1>3. Alive' = T!Survivors /\ Heard' = {}
    BY <1>1, AfterCheck
  <1>4. cycle_to_die' = cycle_to_die - CYCLE_DELTA
    BY DEF EndPeriod
  <1>5. FindWinner(dead') = T!Winner(T!Survivors)
    <2>1. FindWinner(dead') = T!Winner({s \in Loaded : ~dead'[s]})
      BY WinnerAgrees DEF RefInv, SpareUnharmed
    <2>2. {s \in Loaded : ~dead'[s]} = T!Survivors
      BY <1>3 DEF Alive
    <2>. QED
      BY <2>1, <2>2
  <1>6. OneLeft <=> T!OneSurvives
    BY <1>1, OneLeftMeans
  <1>7. announced' = IF T!OneSurvives \/ cycle_to_die' <= 0
                     THEN T!Winner(T!Survivors) ELSE 0
    BY <1>2, <1>5, <1>6 DEF EndPeriod
  <1>. QED
    BY <1>2, <1>3, <1>4, <1>7 DEF T!Judge

LEMMA LiveIsSpeak ==
    ASSUME RefInv, ExecuteLive
    PROVE  \E c \in Loaded : T!Speak(c)
  <1>1. PICK c \in Loaded : player[current] = Id[c]
    BY DEF RefInv, KnownPlayers, TypeInv, TypeOK
  <1>2. announced = 0
    BY DEF RefInv, AnnouncedAtEnd, ExecuteLive
  <1>3. dead' = dead /\ cycle_to_die' = cycle_to_die /\ announced' = announced /\ Alive' = Alive
    BY DEF ExecuteLive, periodVars, Alive
  <1>4. \A s \in Loaded : champ_lives[s] \in Nat
    BY ConstantFacts DEF RefInv, TypeInv, TypeOK
  <1>5. \A s \in Loaded : champ_lives'[s] = IF Id[s] = Id[c] THEN champ_lives[s] + 1 ELSE champ_lives[s]
    BY <1>1, ConstantFacts DEF ExecuteLive, Called
  <1>6. \A s \in Loaded : champ_lives'[s] > 0 <=> champ_lives[s] > 0 \/ Id[s] = Id[c]
    BY <1>4, <1>5, SMT
  <1>7. Heard' = Heard \cup {s \in Alive : Id[s] = Id[c]}
    BY <1>3, <1>6 DEF Heard, Alive
  <1>8. T!Speak(c)
    BY <1>2, <1>3, <1>7 DEF T!Speak
  <1>. QED
    BY <1>8

LEMMA TournamentInit == Init => T!Init
  BY ConstantFacts DEF Init, T!Init, T!Champions, Alive, Heard, Loaded

LEMMA TournamentStep ==
    ASSUME RefInv, [Next]_vars
    PROVE  [T!Next]_(T!tvars)
  <1>1. CASE EndPeriod
    BY <1>1, RefStep, CheckIsJudge DEF T!Next
  <1>2. CASE ExecuteLive
    BY <1>2, LiveIsSpeak DEF T!Next, T!Champions, Loaded
  <1>3. CASE UNCHANGED <<champ_lives, dead, cycle_to_die, announced>>
    BY <1>3 DEF T!tvars, Alive, Heard
  <1>. QED
    BY <1>1, <1>2, <1>3, StepsSeen

(***************************************************************************)
(* Whatever the processes execute, the game is a play of the tournament:    *)
(* each period's check is its judgement, each live one champion speaking,   *)
(* and nothing else in the game touches who is alive or who has won.        *)
(***************************************************************************)
THEOREM GameIsTournament == Spec => IsTournament
  <1>1. RefInv /\ [Next]_vars => [T!Next]_(T!tvars)
    BY TournamentStep
  <1>. QED
    BY InitRef, RefStep, TournamentInit, <1>1, PTL DEF Spec, IsTournament, T!Spec

-----------------------------------------------------------------------------
(* The last survivor *)

LEMMA InitManyAlive == Init => NoLoneSurvivor
  <1> SUFFICES ASSUME Init, N > 1 PROVE Cardinality(Alive) # 1
    BY DEF NoLoneSurvivor
  <1>1. Alive = 1..N
    BY ConstantFacts DEF Init, Alive, Loaded
  <1>2. Cardinality(1..N) = N
    BY ConstantFacts, FS_Interval, SMT
  <1>. QED
    BY <1>1, <1>2, ConstantFacts, SMT

(***************************************************************************)
(* With at least two champions the game never goes on with one of them      *)
(* left, in whatever order check_champion_lives comes to kill the others.   *)
(***************************************************************************)
THEOREM LastSurvivorEndsGame == Spec => []NoLoneSurvivor
  <1>1. ASSUME RefInv, NoLoneSurvivor, [Next]_vars PROVE NoLoneSurvivor'
    <2>1. CASE EndPeriod
      <3>1. Alive' = T!Survivors /\ (OneLeft <=> T!OneSurvives)
        BY <1>1, <2>1, AfterCheck, OneLeftMeans DEF RefInv
      <3>2. IsFiniteSet(Alive')
        <4>1. IsFiniteSet(Loaded) /\ Alive' \in SUBSET Loaded
          BY ConstantFacts, FS_Interval, SMT DEF Loaded, Alive
        <4>. QED
          BY <4>1, FS_Subset
      <3>3. Cardinality(Alive') = 1 => \E c \in 1..N : Alive' = {c}
        BY <3>2, FS_Singleton DEF Alive, Loaded
      <3>4. Cardinality(Alive') = 1 => OneLeft
        BY <3>1, <3>3 DEF T!OneSurvives, T!Champions
      <3>. QED
        BY <2>1, <3>4 DEF EndPeriod, NoLoneSurvivor
    <2>2. CASE dead' = dead /\ (pc' = "over" <=> pc = "over")
      BY <1>1, <2>2 DEF NoLoneSurvivor, Alive
    <2>3. CASE ExecuteLive
      BY <1>1, <2>3 DEF ExecuteLive, periodVars, Advance, NoLoneSurvivor, Alive
    <2>. QED
      BY <1>1, <2>1, <2>2, <2>3, StepsSeen
  <1>. QED
    BY InitRef, RefStep, InitManyAlive, <1>1, PTL DEF Spec
-----------------------------------------------------------------------------
(* The calls of live and the champions' counters *)

LEMMA TotalIsSum ==
    ASSUME NEW calls, NEW S
    PROVE  \E f : /\ Sums(f, [s \in Loaded |-> IF s \in S THEN calls[s] ELSE 0], N)
                 /\ Total(calls, S) = f[N]
  <1> DEFINE v == [s \in Loaded |-> IF s \in S THEN calls[s] ELSE 0]
             Adds(f) == f = [s \in 0..N |-> IF s = 0 THEN 0
                                             ELSE f[s - 1] + (IF s \in S THEN calls[s] ELSE 0)]
  <1>1. \A s \in 0..N : s # 0 => v[s] = IF s \in S THEN calls[s] ELSE 0
    BY ConstantFacts, SMT DEF Loaded
  <1>. HIDE DEF v
  <1>2. \A f : Sums(f, v, N) <=> Adds(f)
    <2> TAKE f
    <2>1. [s \in 0..N |-> IF s = 0 THEN 0 ELSE f[s - 1] + v[s]]
            = [s \in 0..N |-> IF s = 0 THEN 0
                              ELSE f[s - 1] + (IF s \in S THEN calls[s] ELSE 0)]
      BY <1>1
    <2>. QED
      BY <2>1, Zenon DEF Sums
  <1>3. \E f : Adds(f)
    BY <1>2, ConstantFacts, SumsExist
  <1> DEFINE g == CHOOSE f : Adds(f)
  <1>4. Adds(g)
    BY <1>3, Zenon
  <1>5. Total(calls, S) = g[N]
    BY Zenon DEF Total
  <1>. HIDE DEF g
  <1>. QED
    BY <1>2, <1>4, <1>5 DEF v

(* The total of a set in which nobody has called. *)
LEMMA TotalOfSilent ==
    ASSUME NEW calls, NEW S, \A s \in Loaded \cap S : calls[s] = 0
    PROVE  Total(calls, S) = 0
  <1> DEFINE v == [s \in Loaded |-> IF s \in S THEN calls[s] ELSE 0]
  <1>1. PICK f : Sums(f, v, N) /\ Total(calls, S) = f[N]
    BY TotalIsSum
  <1>2. \A s \in 1..N : v[s] = 0
    BY DEF Loaded
  <1>. HIDE DEF v
  <1> DEFINE Zero == {m \in Nat : m <= N => f[m] = 0}
  <1>3. N \in Nat /\ \A s \in 0..N : f[s] = IF s = 0 THEN 0 ELSE f[s - 1] + v[s]
    BY <1>1, ConstantFacts, Zenon DEF Sums
  <1>4. 0 \in Zero
    BY <1>3
  <1>5. ASSUME NEW m \in Nat, m \in Zero PROVE m + 1 \in Zero
    <2>1. SUFFICES ASSUME m + 1 <= N PROVE f[m + 1] = 0
      OBVIOUS
    <2> DEFINE j == m + 1
    <2>2. j \in 0..N /\ j \in 1..N /\ j # 0 /\ j - 1 = m /\ m <= N
      BY <1>3, <2>1
    <2>. HIDE DEF j
    <2>3. f[j] = f[m] + v[j]
      BY <1>3, <2>2
    <2>4. f[m] = 0 /\ v[j] = 0
      BY <1>2, <1>5, <2>2
    <2>. QED
      BY <2>3, <2>4 DEF j
  <1>. HIDE DEF Zero
  <1>6. N \in Zero
    BY <1>3, <1>4, <1>5, Counting
  <1>. QED
    BY <1>1, <1>3, <1>6 DEF Zero

(* One champion's call counts once, in the totals of the sets it is in. *)
LEMMA TotalOfCall ==
    ASSUME NEW calls \in [Slots -> Nat], NEW S, NEW c \in Loaded,
           NEW more, \A s \in Loaded : more[s] = IF s = c THEN calls[s] + 1 ELSE calls[s]
    PROVE  /\ Total(calls, S) \in Nat
           /\ Total(more, S) = Total(calls, S) + (IF c \in S THEN 1 ELSE 0)
  <1> DEFINE v == [s \in Loaded |-> IF s \in S THEN calls[s] ELSE 0]
             w == [s \in Loaded |-> IF s \in S THEN more[s] ELSE 0]
             d == IF c \in S THEN 1 ELSE 0
  <1>1. PICK f : Sums(f, v, N) /\ Total(calls, S) = f[N]
    BY TotalIsSum
  <1>2. PICK g : Sums(g, w, N) /\ Total(more, S) = g[N]
    BY TotalIsSum
  <1>3. \A s \in 1..N : calls[s] \in Nat
    BY ConstantFacts DEF Loaded
  <1>4. DifferIn(w, v, c, d, N)
    BY <1>3 DEF DifferIn, Loaded
  <1>5. d \in Nat /\ N \in Nat /\ c \in 1..N
    BY ConstantFacts DEF Loaded
  <1>. HIDE DEF v, w, d
  <1>6. f[N] \in Nat /\ g[N] = f[N] + d
    BY <1>1, <1>2, <1>4, <1>5, SumsDiffer
  <1>. QED
    BY <1>1, <1>2, <1>6 DEF d

LEMMA TotalType ==
    ASSUME NEW calls \in [Slots -> Nat], NEW S
    PROVE  Total(calls, S) \in Nat
  <1> DEFINE more == [s \in Loaded |-> IF s = 1 THEN calls[s] + 1 ELSE calls[s]]
  <1>1. 1 \in Loaded
    BY ConstantFacts, SMT DEF Loaded
  <1>2. \A s \in Loaded : more[s] = IF s = 1 THEN calls[s] + 1 ELSE calls[s]
    OBVIOUS
  <1>. HIDE DEF more
  <1>. QED
    BY <1>1, <1>2, TotalOfCall

(***************************************************************************)
(* Among champions of distinct numbers no call of live of the period is     *)
(* lost, and none of a living champion is counted that was not made in it.  *)
(***************************************************************************)
THEOREM CallsAreAccounted == DistinctNumbers => (Spec => []LivesAccounted)
  <1> SUFFICES ASSUME DistinctNumbers PROVE Spec => []LivesAccounted
    OBVIOUS
  <1>1. Init => LivesAccounted
    <2> SUFFICES ASSUME Init PROVE LivesAccounted
      OBVIOUS
    <2>1. \A s \in Loaded : champ_lives[s] = 0
      BY ConstantFacts DEF Init
    <2>2. Total(champ_lives, Alive) = 0 /\ Total(champ_lives, Loaded) = 0
      BY <2>1, TotalOfSilent
    <2>. QED
      BY <2>2 DEF Init, LivesAccounted
  <1>2. ASSUME RefInv, LivesAccounted, [Next]_vars PROVE LivesAccounted'
    <2>1. TypeInv /\ TypeInv' /\ champ_lives \in [Slots -> Nat] /\ champ_lives' \in [Slots -> Nat]
      BY <1>2, TypeStep DEF RefInv, TypeInv, TypeOK
    <2>2. CASE EndPeriod
      <3>1. Heard' = {} /\ lives' = 0
        BY <2>1, <2>2, AfterCheck DEF EndPeriod
      <3>2. \A s \in Loaded \cap Alive' : champ_lives'[s] = 0
        <4>1. \A s \in Loaded : champ_lives'[s] \in Nat
          BY <2>1, ConstantFacts
        <4>. QED
          BY <3>1, <4>1 DEF Heard
      <3>3. Total(champ_lives', Alive') = 0 /\ Total(champ_lives', Loaded) \in Nat
        BY <2>1, <3>2, TotalOfSilent, TotalType
      <3>. QED
        BY <3>1, <3>3 DEF LivesAccounted, Loaded
    <2>3. CASE ExecuteLive
      <3>1. current \in Procs /\ pc = "turn" /\ dead' = dead /\ lives' = lives + 1 /\ lives \in Nat
        BY <2>1, <2>3 DEF TypeInv, TypeOK, ExecuteLive, periodVars
      <3>2. PICK c \in Loaded : player[current] = Id[c]
        BY <1>2, <3>1 DEF RefInv, KnownPlayers
      <3>3. \A s \in Loaded : Called(s) <=> s = c
        BY <3>2 DEF Called, DistinctNumbers, Loaded
      <3>4. \A s \in Loaded : champ_lives'[s] = IF s = c THEN champ_lives[s] + 1 ELSE champ_lives[s]
        BY <2>3, <3>3, ConstantFacts DEF ExecuteLive
      <3>5. /\ Total(champ_lives, Alive) \in Nat /\ Total(champ_lives, Loaded) \in Nat
            /\ Total(champ_lives', Alive) = Total(champ_lives, Alive) + (IF c \in Alive THEN 1 ELSE 0)
            /\ Total(champ_lives', Loaded) = Total(champ_lives, Loaded) + 1
        BY <2>1, <3>4, TotalOfCall
      <3>6. Alive' = Alive
        BY <3>1 DEF Alive
      <3>7. Total(champ_lives, Alive) <= lives /\ lives <= Total(champ_lives, Loaded)
        BY <1>2, <3>1 DEF LivesAccounted
      <3>8. Total(champ_lives', Alive) <= lives' /\ lives' <= Total(champ_lives', Loaded)
        BY <3>1, <3>5, <3>7
      <3>. QED
        BY <3>6, <3>8 DEF LivesAccounted, Loaded
    <2>4. CASE UNCHANGED <<champ_lives, dead, lives>> /\ (pc' = "over" <=> pc = "over")
      BY <1>2, <2>4 DEF LivesAccounted, Alive
    <2>. QED
      BY <1>2, <2>2, <2>3, <2>4, StepsSeen
  <1>. QED
    BY InitRef, RefStep, <1>1, <1>2, PTL DEF Spec
=============================================================================
