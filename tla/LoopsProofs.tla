----------------------------- MODULE LoopsProofs -----------------------------
(***************************************************************************)
(* Theorems about GameLoops: check_champion_lives and find_process, taken   *)
(* one iteration at a time, do what Game says they do in one step.          *)
(***************************************************************************)
EXTENDS GameLoops, GameProofs

-----------------------------------------------------------------------------
(* The inductive invariant *)

(* What the check sees of a champion, before it changes any. *)
WasSilent(s) == ~before.dead[s] /\ before.champ_lives[s] = 0
WasOut(s) == before.dead[s] \/ WasSilent(s)
WasSpared == WasSilent(N) /\ \A s \in 1..(N - 1) : WasOut(s)

(* The check has treated the slots below k, and counted those that are out. *)
Walked ==
    /\ k \in 1..(N + 1)
    /\ champs_left = N - Cardinality({s \in 1..(k - 1) : WasOut(s)})
    /\ dead = [s \in Slots |-> IF s < k THEN WasOut(s) ELSE before.dead[s]]
    /\ champ_lives = [s \in Slots |-> IF s < k /\ ~WasOut(s) THEN 0
                                      ELSE before.champ_lives[s]]
    /\ k = N + 1 => ~WasSpared

CheckInv ==
    at = "check" =>
        /\ pc = "game_on"
        /\ before.lives >= NBR_LIVE \/ before.nbr_cycles >= before.cycle_to_die
        /\ dumped = (before.dumped \/ (Dump > 0 /\ before.nbr_cycles = Dump))
        /\ cycle_to_die = before.cycle_to_die - CYCLE_DELTA
        /\ nbr_cycles = 0 /\ lives = 0 /\ winner = 0
        /\ Walked

(* The search has come to walker past processes of other players, which lead *)
(* one to the next.                                                          *)
Passed(P) ==
    /\ HeadProc \in P \cup {walker}
    /\ \A q \in P : ~Own(q) /\ next[q] \in P \cup {walker}

SearchInv ==
    at = "search" =>
        /\ pc = "turn" /\ running[current] = 0
        /\ op \in Forks \cap Mnemonics
        /\ nbr_cycles = before.nbr_cycles + Cycles[op]
        /\ lives = before.lives /\ winner = before.winner
        /\ champ_lives = before.champ_lives /\ dead = before.dead
        /\ cycle_to_die = before.cycle_to_die /\ dumped = before.dumped
        /\ walker \in Visited(player[current])
        /\ \E P \in SUBSET Procs : Passed(P)

BeforeType ==
    /\ before.dead \in [Slots -> BOOLEAN] /\ before.champ_lives \in [Slots -> Nat]
    /\ at \in {"none", "check", "search"}

LoopsInv == TypeInv /\ BeforeType /\ CheckInv /\ SearchInv

LEMMA InitLoops == LoopsInit => LoopsInv
  <1> SUFFICES ASSUME LoopsInit PROVE LoopsInv
    OBVIOUS
  <1>1. TypeInv
    BY InitType DEF LoopsInit
  <1>2. dead \in [Slots -> BOOLEAN] /\ champ_lives \in [Slots -> Nat]
    BY <1>1 DEF TypeInv, TypeOK
  <1>3. BeforeType
    BY <1>2 DEF LoopsInit, BeforeType, Shown
  <1>. QED
    BY <1>1, <1>3 DEF LoopsInit, LoopsInv, CheckInv, SearchInv

-----------------------------------------------------------------------------
(* The invariant is kept, loop by loop *)

(* The slots that are out, one slot further. *)
LEMMA OneSlotFurther ==
    ASSUME NEW n \in Nat
    PROVE  LET O(m) == {s \in 1..m : WasOut(s)}
           IN  /\ Cardinality(O(n)) \in 0..n
               /\ Cardinality(O(n)) = n => \A s \in 1..n : WasOut(s)
               /\ Cardinality(O(n + 1)) = Cardinality(O(n)) + (IF WasOut(n + 1) THEN 1 ELSE 0)
  <1> DEFINE O(m) == {s \in 1..m : WasOut(s)}
  <1>1. ASSUME NEW m \in Nat PROVE IsFiniteSet(1..m) /\ Cardinality(1..m) = m
    BY FS_Interval, SMT
  <1>2. ASSUME NEW m \in Nat
        PROVE  /\ IsFiniteSet(O(m)) /\ Cardinality(O(m)) \in Nat /\ Cardinality(O(m)) <= m
               /\ Cardinality(O(m)) = m => O(m) = 1..m
    <2>1. O(m) \in SUBSET (1..m)
      OBVIOUS
    <2>. HIDE DEF O
    <2>2. /\ IsFiniteSet(O(m)) /\ Cardinality(O(m)) <= Cardinality(1..m)
          /\ Cardinality(O(m)) = Cardinality(1..m) => O(m) = 1..m
      BY <1>1, <2>1, FS_Subset
    <2>. QED
      BY <1>1, <2>2, FS_CardinalityType
  <1>3. Cardinality(O(n + 1)) = Cardinality(O(n)) + (IF WasOut(n + 1) THEN 1 ELSE 0)
    <2>1. O(n + 1) = IF WasOut(n + 1) THEN O(n) \cup {n + 1} ELSE O(n)
      <3>1. 1..(n + 1) = (1..n) \cup {n + 1}
        OBVIOUS
      <3>. QED
        BY <3>1
    <2>2. n + 1 \notin O(n)
      OBVIOUS
    <2>. HIDE DEF O
    <2>3. IsFiniteSet(O(n)) /\ Cardinality(O(n)) \in Nat
      BY <1>2
    <2>4. Cardinality(O(n) \cup {n + 1}) = Cardinality(O(n)) + 1
      BY <2>2, <2>3, FS_AddElement
    <2>. QED
      BY <2>1, <2>3, <2>4
  <1>4. Cardinality(O(n)) = n => \A s \in 1..n : WasOut(s)
    <2>1. Cardinality(O(n)) = n => O(n) = 1..n
      BY <1>2
    <2>. QED
      BY <2>1
  <1>. HIDE DEF O
  <1>5. Cardinality(O(n)) \in 0..n
    BY <1>2
  <1>. QED
    BY <1>3, <1>4, <1>5 DEF O

LEMMA PlainKeeps ==
    ASSUME LoopsInv, Plain
    PROVE  LoopsInv'
  <1>1. Next
    BY DEF Plain, Next, Turn
  <1>2. TypeInv'
    BY <1>1, TypeStep DEF LoopsInv
  <1>. QED
    BY <1>2 DEF Plain, LoopsInv, loopVars, BeforeType, CheckInv, SearchInv

LEMMA BeginCheckKeeps ==
    ASSUME LoopsInv, BeginCheck
    PROVE  LoopsInv'
  <1>0. TypeOK /\ RingTypeOK
    BY DEF LoopsInv, TypeInv, TypeOK
  <1>1. TypeInv'
    <2>1. RingTypeOK' /\ Procs' = Procs
      BY <1>0, RingUnchanged DEF BeginCheck
    <2>2. cycle_to_die' \in Int /\ cycle_to_die' <= CYCLE_TO_DIE
      <3>1. cycle_to_die' = cycle_to_die - CYCLE_DELTA
        BY DEF BeginCheck
      <3>. QED
        BY <1>0, <3>1, GameAssumption, SMT DEF TypeOK
    <2>3. nbr_cycles' = 0 /\ lives' = 0 /\ winner' = 0 /\ dumped' \in BOOLEAN
      BY <1>0 DEF BeginCheck, TypeOK, DumpNow
    <2>. QED
      BY <1>0, <2>1, <2>2, <2>3 DEF BeginCheck, TypeInv, TypeOK, TurnLeft, turnVars
  <1>2. BeforeType'
    BY <1>0 DEF BeginCheck, BeforeType, Shown, TypeOK
  <1>3. Walked'
    <2>1. /\ k' = 1 /\ champs_left' = N /\ before' = Shown
          /\ dead' = dead /\ champ_lives' = champ_lives
      BY DEF BeginCheck
    <2>2. {s \in 1..(1 - 1) : WasOut(s)'} = {}
      OBVIOUS
    <2>3. Cardinality({s \in 1..(1 - 1) : WasOut(s)'}) = 0
      BY <2>2, FS_EmptySet
    <2>4. \A s \in Slots : ~(s < 1)
      BY GameAssumption, SMT DEF Slots
    <2>5. 1 \in 1..(N + 1) /\ N - 0 = N /\ 1 # N + 1
      BY ConstantFacts, SMT
    <2>6. /\ dead' = [s \in Slots |-> IF s < 1 THEN WasOut(s)' ELSE before'.dead[s]]
          /\ champ_lives' = [s \in Slots |-> IF s < 1 /\ ~WasOut(s)' THEN 0
                                            ELSE before'.champ_lives[s]]
      BY <1>0, <2>1, <2>4 DEF TypeOK, Shown
    <2>. QED
      BY <2>1, <2>3, <2>5, <2>6 DEF Walked
  <1>4. CheckInv'
    BY <1>3 DEF BeginCheck, CheckInv, Shown, PeriodOver, DumpNow
  <1>5. SearchInv'
    BY DEF BeginCheck, SearchInv
  <1>. QED
    BY <1>1, <1>2, <1>4, <1>5 DEF LoopsInv

(* A slot of the check is treated, and the check goes on. *)
LEMMA SlotKeeps ==
    ASSUME LoopsInv, at = "check", SkipDead \/ KillSilent \/ ForgetLives
    PROVE  LoopsInv'
  <1> DEFINE O(m) == {s \in 1..m : WasOut(s)}
  <1>0. /\ TypeOK /\ RingTypeOK /\ BeforeType /\ Walked /\ CheckInv
        /\ k \in 1..N /\ k \in Slots /\ N \in Nat
    <2>1. TypeOK /\ RingTypeOK /\ BeforeType /\ Walked /\ CheckInv
      BY DEF LoopsInv, TypeInv, TypeOK, CheckInv
    <2>2. k \in 1..(N + 1) /\ k <= N
      BY <2>1 DEF Walked, SkipDead, KillSilent, ForgetLives
    <2>. QED
      BY <2>1, <2>2, ConstantFacts, GameAssumption, SMT DEF Slots
  <1>1. /\ k' = k + 1 /\ before' = before /\ at' = at
        /\ UNCHANGED <<ringVars, nbr_cycles, lives, cycle_to_die, dumped, announced,
                       turnVars, running, pc, winner>>
    BY DEF SkipDead, KillSilent, ForgetLives, NextSlot
  <1>2. dead[k] = before.dead[k] /\ champ_lives[k] = before.champ_lives[k]
    BY <1>0, SMT DEF Walked
  <1>3. champs_left = N - Cardinality(O(k - 1))
    BY <1>0 DEF Walked
  <1>4. /\ Cardinality(O(k - 1)) \in 0..(k - 1)
        /\ Cardinality(O(k)) = Cardinality(O(k - 1)) + (IF WasOut(k) THEN 1 ELSE 0)
    <2>1. k - 1 \in Nat /\ (k - 1) + 1 = k
      BY <1>0
    <2>. QED
      BY <2>1, OneSlotFurther
  <1>5. /\ champs_left' = N - Cardinality(O(k))
        /\ dead' = [dead EXCEPT ![k] = WasOut(k)]
        /\ champ_lives' = IF WasOut(k) THEN champ_lives ELSE [champ_lives EXCEPT ![k] = 0]
        /\ k = N => ~WasSpared
    <2>. HIDE DEF O
    <2>1. CASE SkipDead
      <3>1. WasOut(k) /\ ~WasSilent(k) /\ dead[k]
        BY <1>2, <2>1 DEF SkipDead, WasOut, WasSilent
      <3>2. dead' = dead /\ champ_lives' = champ_lives /\ champs_left' = champs_left - 1
        BY <2>1 DEF SkipDead
      <3>3. dead = [dead EXCEPT ![k] = TRUE]
        BY <1>0, <3>1 DEF TypeOK
      <3>4. champs_left' = N - Cardinality(O(k))
        BY <1>0, <1>3, <1>4, <3>1, <3>2
      <3>5. k = N => ~WasSpared
        BY <3>1 DEF WasSpared
      <3>. QED
        BY <3>1, <3>2, <3>3, <3>4, <3>5
    <2>2. CASE KillSilent
      <3>1. WasOut(k) /\ champs_left # 1
        BY <1>2, <2>2 DEF KillSilent, WasOut, WasSilent
      <3>2. dead' = [dead EXCEPT ![k] = TRUE] /\ champ_lives' = champ_lives
            /\ champs_left' = champs_left - 1
        BY <2>2 DEF KillSilent
      <3>3. champs_left' = N - Cardinality(O(k))
        BY <1>0, <1>3, <1>4, <3>1, <3>2
      <3>4. k = N => ~WasSpared
        <4>1. SUFFICES ASSUME k = N, WasSpared PROVE FALSE
          OBVIOUS
        <4>2. O(k - 1) = 1..(k - 1)
          BY <4>1 DEF O, WasSpared
        <4>3. Cardinality(1..(k - 1)) = k - 1
          BY <1>0, FS_Interval, SMT
        <4>. QED
          BY <1>0, <1>3, <3>1, <4>1, <4>2, <4>3
      <3>. QED
        BY <3>1, <3>2, <3>3, <3>4
    <2>3. CASE ForgetLives
      <3>1. ~WasOut(k) /\ ~WasSilent(k) /\ ~dead[k]
        BY <1>2, <2>3 DEF ForgetLives, WasOut, WasSilent
      <3>2. champ_lives' = [champ_lives EXCEPT ![k] = 0] /\ dead' = dead
            /\ champs_left' = champs_left
        BY <2>3 DEF ForgetLives
      <3>3. dead = [dead EXCEPT ![k] = FALSE]
        BY <1>0, <3>1 DEF TypeOK
      <3>4. champs_left' = N - Cardinality(O(k))
        BY <1>0, <1>3, <1>4, <3>1, <3>2
      <3>5. k = N => ~WasSpared
        BY <3>1 DEF WasSpared
      <3>6. WasOut(k) = FALSE
        BY <3>1 DEF WasOut, WasSilent
      <3>. QED
        BY <3>2, <3>3, <3>4, <3>5, <3>6
    <2>. QED
      BY <2>1, <2>2, <2>3
  <1>6. TypeInv'
    <2>1. RingTypeOK' /\ Procs' = Procs
      BY <1>0, <1>1, RingUnchanged
    <2>2. dead' \in [Slots -> BOOLEAN]
      BY <1>0, <1>5 DEF TypeOK, WasOut, WasSilent, BeforeType
    <2>3. champ_lives' \in [Slots -> Nat]
      BY <1>0, <1>5 DEF TypeOK
    <2>4. TurnLeft'
      BY <1>1 DEF LoopsInv, TypeInv, TurnLeft, turnVars
    <2>. QED
      BY <1>0, <1>1, <2>1, <2>2, <2>3, <2>4 DEF TypeInv, TypeOK, turnVars
  <1>7. (\A s : WasOut(s)' = WasOut(s)) /\ WasSpared' = WasSpared
    BY <1>1 DEF WasOut, WasSilent, WasSpared
  <1>8. Walked'
    <2>1. k + 1 \in 1..(N + 1) /\ (k + 1) - 1 = k
      BY <1>0
    <2>2. champs_left' = N - Cardinality({s \in 1..(k' - 1) : WasOut(s)'})
      <3>1. {s \in 1..(k' - 1) : WasOut(s)'} = O(k)
        BY <1>1, <1>7, <2>1
      <3>. QED
        BY <1>5, <3>1
    <2>3. \A s \in Slots : s < k + 1 <=> (s < k \/ s = k)
      BY <1>0, GameAssumption, SMT DEF Slots
    <2>4. dead = [s \in Slots |-> IF s < k THEN WasOut(s) ELSE before.dead[s]]
      BY <1>0 DEF Walked
    <2>5. champ_lives = [s \in Slots |-> IF s < k /\ ~WasOut(s) THEN 0
                                          ELSE before.champ_lives[s]]
      BY <1>0 DEF Walked
    <2>6. dead' = [s \in Slots |-> IF s < k + 1 THEN WasOut(s) ELSE before.dead[s]]
      BY <1>0, <1>5, <2>3, <2>4
    <2>7. champ_lives' = [s \in Slots |-> IF s < k + 1 /\ ~WasOut(s) THEN 0
                                           ELSE before.champ_lives[s]]
      <3>1. CASE WasOut(k)
        BY <1>0, <1>5, <2>3, <2>5, <3>1
      <3>2. CASE ~WasOut(k)
        BY <1>0, <1>5, <2>3, <2>5, <3>2
      <3>. QED
        BY <3>1, <3>2
    <2>8. k + 1 = N + 1 => ~WasSpared
      BY <1>0, <1>5
    <2>. QED
      BY <1>1, <1>7, <2>1, <2>2, <2>6, <2>7, <2>8 DEF Walked
  <1>9. CheckInv'
    BY <1>0, <1>1, <1>8 DEF CheckInv
  <1>10. SearchInv' /\ BeforeType'
    BY <1>0, <1>1 DEF SearchInv, BeforeType, LoopsInv
  <1>. QED
    BY <1>6, <1>9, <1>10 DEF LoopsInv

(* The check returns, early or not. *)
LEMMA ConcludeKeeps ==
    ASSUME LoopsInv, at = "check", SpareLast \/ EndCheck
    PROVE  LoopsInv'
  <1>0. TypeOK /\ RingTypeOK /\ BeforeType /\ CheckInv /\ Walked
    BY DEF LoopsInv, TypeInv, TypeOK, CheckInv
  <1>1. Conclude
    BY DEF SpareLast, EndCheck
  <1>2. winner' \in Int
    <2>1. CASE SpareLast
      <3>1. k \in 1..N /\ winner' = Id[k]
        BY <1>0, <2>1 DEF SpareLast, Walked
      <3>. QED
        BY <3>1, RingAssumption
    <2>2. CASE EndCheck
      BY <1>0, <2>2 DEF EndCheck, TypeOK
    <2>. QED
      BY <2>1, <2>2
  <1>3. RingTypeOK' /\ Procs' = Procs
    BY <1>0, <1>1, RingUnchanged DEF Conclude
  <1>4. announced' \in {0} \cup Slots /\ pc' \in {"over", "run_instructions"}
    <2>1. FindWinner(dead) \in Slots
      BY WinnerType
    <2>. QED
      BY <1>0, <1>1, <2>1 DEF Conclude, TypeOK
  <1>5. TypeInv'
    BY <1>0, <1>1, <1>2, <1>3, <1>4 DEF Conclude, TypeInv, TypeOK, TurnLeft, turnVars
  <1>6. BeforeType' /\ CheckInv' /\ SearchInv'
    BY <1>0, <1>1 DEF Conclude, Idle, BeforeType, CheckInv, SearchInv
  <1>. QED
    BY <1>5, <1>6 DEF LoopsInv

LEMMA BeginSearchKeeps ==
    ASSUME LoopsInv, NEW o \in Forks \cap Mnemonics, BeginSearch(o)
    PROVE  LoopsInv'
  <1>0. TypeOK /\ RingTypeOK /\ TurnLeft
    BY DEF LoopsInv, TypeInv, TypeOK
  <1>1. /\ UNCHANGED <<ringVars, lives, winner, champ_lives, periodVars, turnVars, running, pc>>
        /\ nbr_cycles' = nbr_cycles + Cycles[o] /\ before' = Shown
        /\ at' = "search" /\ walker' = HeadProc /\ op' = o
        /\ pc = "turn" /\ running[current] = 0
    BY DEF BeginSearch
  <1>2. RingTypeOK' /\ Procs' = Procs
    BY <1>0, <1>1, RingUnchanged
  <1>3. nbr_cycles' \in Nat
    <2>1. Cycles[o] \in 1..MaxCost
      BY ConstantFacts
    <2>. QED
      BY <1>0, <1>1, <2>1, ConstantFacts DEF TypeOK
  <1>4. TypeInv'
    BY <1>0, <1>1, <1>2, <1>3 DEF TypeInv, TypeOK, TurnLeft, periodVars, turnVars
  <1>5. walker' \in Visited(player[current])'
    <2>1. HeadProc \in Visited(player[current])
      BY <1>0, HeadReachable DEF Visited, VisitClosed
    <2>2. Visited(player[current])' = Visited(player[current])
      BY <1>1, <1>2 DEF Visited, VisitClosed, ringVars, turnVars
    <2>. QED
      BY <1>1, <2>1, <2>2
  <1>6. Passed({})'
    BY <1>1 DEF Passed, HeadProc
  <1>7. SearchInv'
    <2>1. {} \in SUBSET (Procs')
      OBVIOUS
    <2>2. \E P \in SUBSET (Procs') : Passed(P)'
      BY <1>6, <2>1
    <2>. QED
      BY <1>1, <1>5, <2>2 DEF SearchInv, Shown, periodVars, turnVars
  <1>8. BeforeType' /\ CheckInv'
    BY <1>0, <1>1 DEF BeforeType, CheckInv, Shown, TypeOK
  <1>. QED
    BY <1>4, <1>7, <1>8 DEF LoopsInv

(* The walk has come to a process that find_process looks at. *)
LEMMA WalkerIsVisited ==
    ASSUME LoopsInv, at = "search"
    PROVE  /\ TypeOK /\ RingTypeOK
           /\ walker \in Visited(player[current]) /\ walker \in Procs
           /\ ~Own(walker) => next[walker] \in Visited(player[current])
           /\ \E P \in SUBSET Procs : Passed(P)
  <1>1. TypeOK /\ RingTypeOK /\ SearchInv
    BY DEF LoopsInv, TypeInv, TypeOK
  <1>2. walker \in Visited(player[current]) /\ walker \in Procs
    BY <1>1 DEF SearchInv, Visited
  <1>3. ASSUME ~Own(walker) PROVE next[walker] \in Visited(player[current])
    <2>1. next[walker] \in Procs /\ player[walker] # player[current]
      BY <1>1, <1>2, <1>3 DEF RingTypeOK, Own
    <2>2. ASSUME NEW S \in SUBSET Procs, VisitClosed(player[current], S)
          PROVE  next[walker] \in S
      BY <1>2, <2>1, <2>2 DEF Visited, VisitClosed
    <2>. QED
      BY <2>1, <2>2 DEF Visited
  <1>. QED
    BY <1>1, <1>2, <1>3 DEF SearchInv

LEMMA WalkOnKeeps ==
    ASSUME LoopsInv, WalkOn
    PROVE  LoopsInv'
  <1>0. at = "search" /\ ~Own(walker)
    BY DEF WalkOn
  <1>1. /\ UNCHANGED vars /\ UNCHANGED <<at, k, champs_left, op, before>>
        /\ walker' = next[walker]
    BY DEF WalkOn
  <1>2. TypeInv'
    BY <1>1, TypeStep DEF LoopsInv
  <1>3. Visited(player[current])' = Visited(player[current]) /\ Procs' = Procs
    BY <1>1 DEF Visited, VisitClosed, Procs, vars, ringVars, turnVars
  <1>4. walker' \in Visited(player[current])'
    BY <1>0, <1>1, <1>3, WalkerIsVisited
  <1>5. PICK P \in SUBSET Procs : Passed(P)
    BY <1>0, WalkerIsVisited
  <1>6. \E Q \in SUBSET (Procs') : Passed(Q)'
    <2>1. /\ HeadProc \in P \cup {walker}
          /\ \A q \in P : ~Own(q) /\ next[q] \in P \cup {walker}
      BY <1>5 DEF Passed
    <2>2. \A q : Own(q)' = Own(q)
      BY <1>1 DEF Own, vars, ringVars, turnVars
    <2>3. next' = next
      BY <1>1 DEF vars, ringVars
    <2>4. PICK Q : Q = P \cup {walker}
      OBVIOUS
    <2>5. Q \in SUBSET (Procs')
      BY <1>0, <1>3, <2>4, WalkerIsVisited
    <2>6. \A q \in Q : ~Own(q)' /\ next'[q] \in Q \cup {walker'}
      BY <1>0, <1>1, <2>1, <2>2, <2>3, <2>4
    <2>7. HeadProc \in Q \cup {walker'}
      BY <2>1, <2>4
    <2>8. Passed(Q)'
      BY <2>6, <2>7 DEF Passed, HeadProc
    <2>. QED
      BY <2>5, <2>8
  <1>7. SearchInv'
    BY <1>0, <1>1, <1>4, <1>6
       DEF LoopsInv, SearchInv, vars, coreVars, periodVars, turnVars
  <1>. QED
    BY <1>0, <1>1, <1>2, <1>7 DEF LoopsInv, BeforeType, CheckInv

(* What the search returns, and that the rest of the fork is well-typed. *)
Answer == IF Own(walker) THEN walker ELSE HeadProc

LEMMA SearchEndsKeeps ==
    ASSUME LoopsInv, SearchEndsHere
    PROVE  LoopsInv'
  <1>0. /\ at = "search" /\ TypeInv /\ TypeOK /\ RingTypeOK /\ BeforeType /\ SearchInv
        /\ pc = "turn" /\ op \in Mnemonics
    BY DEF SearchEndsHere, LoopsInv, TypeInv, TypeOK, SearchInv
  <1>1. Found(Answer) /\ Answer \in Procs
    BY <1>0, WalkerIsVisited, HeadReachable DEF SearchEndsHere, Answer
  <1>2. /\ CloneAndLink(Answer) /\ Advance /\ Idle
        /\ running' = [running EXCEPT ![current] = Cycles[op] - 1]
        /\ UNCHANGED <<coreVars, periodVars, before>>
    BY <1>1 DEF Found
  <1>3. RingTypeOK' /\ Procs \subseteq Procs'
    BY <1>0, <1>1, <1>2, CloneTypeOK, CloneLinks
  <1>4. current' \in Procs' /\ i' \in 0..N /\ pc' \in {"turn", "game_on"} /\ TurnLeft'
    BY <1>0, <1>2, <1>3, AdvanceType
  <1>5. running' \in [Pool -> 0..MaxCost]
    <2>1. Cycles[op] \in 1..MaxCost
      BY <1>0, ConstantFacts
    <2>2. Cycles[op] - 1 \in 0..MaxCost
      BY <2>1, ConstantFacts
    <2>. QED
      BY <1>0, <1>2, <2>2 DEF TypeOK
  <1>6. TypeInv'
    BY <1>0, <1>2, <1>3, <1>4, <1>5 DEF TypeInv, TypeOK, coreVars, periodVars
  <1>7. BeforeType' /\ CheckInv' /\ SearchInv'
    BY <1>0, <1>2 DEF Idle, BeforeType, CheckInv, SearchInv
  <1>. QED
    BY <1>6, <1>7 DEF LoopsInv

LEMMA LoopsStep == LoopsInv /\ [LoopsNext]_allVars => LoopsInv'
  <1> SUFFICES ASSUME LoopsInv, [LoopsNext]_allVars PROVE LoopsInv'
    OBVIOUS
  <1>1. CASE Plain
    BY <1>1, PlainKeeps
  <1>2. CASE BeginCheck
    BY <1>2, BeginCheckKeeps
  <1>3. CASE SkipDead \/ KillSilent \/ ForgetLives
    <2>1. at = "check"
      BY <1>3 DEF SkipDead, KillSilent, ForgetLives
    <2>. QED
      BY <1>3, <2>1, SlotKeeps
  <1>4. CASE SpareLast \/ EndCheck
    <2>1. at = "check"
      BY <1>4 DEF SpareLast, EndCheck
    <2>. QED
      BY <1>4, <2>1, ConcludeKeeps
  <1>5. ASSUME NEW o \in Forks \cap Mnemonics, BeginSearch(o) PROVE LoopsInv'
    BY <1>5, BeginSearchKeeps
  <1>6. CASE SearchEndsHere
    BY <1>6, SearchEndsKeeps
  <1>7. CASE WalkOn
    BY <1>7, WalkOnKeeps
  <1>8. CASE UNCHANGED allVars
    <2>1. UNCHANGED vars /\ UNCHANGED <<at, k, champs_left, walker, op, before>>
      BY <1>8 DEF allVars, loopVars
    <2>2. TypeInv'
      BY <2>1, TypeStep DEF LoopsInv
    <2>3. UNCHANGED <<nprocs, next, player, nbr_cycles, lives, winner, champ_lives,
                      cycle_to_die, dead, dumped, current, running, pc>>
      BY <2>1 DEF vars, ringVars, coreVars, periodVars, turnVars
    <2>4. BeforeType' /\ CheckInv'
      BY <2>1, <2>3 DEF LoopsInv, BeforeType, CheckInv, Walked, WasSpared, WasOut, WasSilent
    <2>5. SearchInv'
      BY <2>1, <2>3 DEF LoopsInv, SearchInv, Visited, VisitClosed, Passed, Own, Procs, HeadProc
    <2>. QED
      BY <2>2, <2>4, <2>5 DEF LoopsInv
  <1>. QED
    BY <1>1, <1>2, <1>3, <1>4, <1>5, <1>6, <1>7, <1>8 DEF LoopsNext

-----------------------------------------------------------------------------
(* Game's step is taken when the loop returns *)

(* Game shows the variables as they are, as it does between the loops. *)
SameNow == /\ Seen.nbr_cycles = nbr_cycles /\ Seen.cycle_to_die = cycle_to_die
           /\ Seen.lives = lives /\ Seen.winner = winner /\ Seen.dead = dead
           /\ Seen.champ_lives = champ_lives /\ Seen.dumped = dumped

(* Nothing Game shows has changed. *)
LEMMA NotYet ==
    ASSUME Seen' = Seen, UNCHANGED <<ringVars, announced, turnVars, running, pc>>
    PROVE  UNCHANGED G!vars
  BY DEF G!vars, G!ringVars, G!coreVars, G!periodVars, G!turnVars, ringVars, turnVars

LEMMA PlainRefines ==
    ASSUME Plain
    PROVE  G!Next
  <1>0. at = "none" /\ at' = "none"
    BY DEF Plain, loopVars
  <1>1. SameNow /\ SameNow'
    BY <1>0 DEF SameNow, Seen, Shown
  <1>2. /\ Seen.nbr_cycles = nbr_cycles /\ Seen'.nbr_cycles = nbr_cycles'
        /\ Seen.cycle_to_die = cycle_to_die /\ Seen'.cycle_to_die = cycle_to_die'
        /\ Seen.lives = lives /\ Seen'.lives = lives'
        /\ Seen.winner = winner /\ Seen'.winner = winner'
        /\ Seen.dead = dead /\ Seen'.dead = dead'
        /\ Seen.champ_lives = champ_lives /\ Seen'.champ_lives = champ_lives'
        /\ Seen.dumped = dumped /\ Seen'.dumped = dumped'
    BY <1>1 DEF SameNow
  <1>3. Advance => G!Advance
    BY DEF Advance, G!Advance
  <1>4. \A o : Charge(o) => G!Charge(o)
    BY <1>2 DEF Charge, G!Charge
  <1>5. CASE KeepPlaying
    BY <1>2, <1>5 DEF KeepPlaying, PeriodOver, DumpNow, ringVars, coreVars, turnVars,
                      G!Next, G!KeepPlaying, G!PeriodOver, G!DumpNow,
                      G!ringVars, G!coreVars, G!turnVars
  <1>6. CASE StartRound
    BY <1>2, <1>6 DEF StartRound, Tick, ringVars, periodVars, HeadProc,
                      G!Next, G!StartRound, G!Tick, G!ringVars, G!periodVars, G!HeadProc
  <1>7. CASE StillRunning
    BY <1>2, <1>3, <1>7 DEF StillRunning, ringVars, coreVars, periodVars,
                      G!Next, G!Turn, G!StillRunning, G!ringVars, G!coreVars, G!periodVars
  <1>8. CASE InvalidOpcode
    BY <1>2, <1>3, <1>8 DEF InvalidOpcode, ringVars, coreVars, periodVars,
                      G!Next, G!Turn, G!InvalidOpcode, G!ringVars, G!coreVars, G!periodVars
  <1>9. CASE Nuked
    BY <1>2, <1>3, <1>9 DEF Nuked, ringVars, periodVars,
                      G!Next, G!Turn, G!Nuked, G!ringVars, G!periodVars
  <1>10. CASE ExecuteLive
    BY <1>2, <1>3, <1>4, <1>10 DEF ExecuteLive, Called, ringVars, periodVars, Mnemonics, Slots,
                      Loaded, G!Next, G!Turn, G!ExecuteLive, G!Called, G!ringVars,
                      G!periodVars, G!Mnemonics, G!Slots, G!Loaded
  <1>11. ASSUME NEW o \in Mnemonics \ (Forks \cup {"live"}), ExecuteOther(o)
         PROVE  G!Next
    <2>1. G!ExecuteOther(o)
      BY <1>2, <1>3, <1>4, <1>11 DEF ExecuteOther, ringVars, periodVars,
                      G!ExecuteOther, G!ringVars, G!periodVars
    <2>2. o \in G!Mnemonics \ (G!Forks \cup {"live"})
      BY <1>11 DEF Mnemonics, Forks, G!Mnemonics, G!Forks
    <2>. QED
      BY <2>1, <2>2 DEF G!Next, G!Turn
  <1>. QED
    BY <1>5, <1>6, <1>7, <1>8, <1>9, <1>10, <1>11 DEF Plain

(* check_champion_lives returns early for the last slot only, when all the *)
(* others are out; otherwise it returns how many champions have called.     *)
LEMMA CheckRefines ==
    ASSUME LoopsInv, at = "check", SpareLast \/ EndCheck
    PROVE  G!EndPeriod
  <1>0. /\ TypeOK /\ BeforeType /\ CheckInv /\ Walked /\ Conclude
        /\ N \in Nat \ {0} /\ N \in Slots /\ Slots \subseteq Nat
        /\ Loaded = 1..N /\ Loaded \subseteq Slots
    <2>1. TypeOK /\ BeforeType /\ CheckInv /\ Walked /\ Conclude
      BY DEF LoopsInv, TypeInv, CheckInv, SpareLast, EndCheck
    <2>2. Slots \subseteq Nat
      BY GameAssumption, SMT DEF Slots
    <2>. QED
      BY <2>1, <2>2, ConstantFacts DEF Loaded
  <1>1. Seen = before /\ SameNow'
    <2>1. at' = "none"
      BY <1>0 DEF Conclude, Idle
    <2>. QED
      BY <2>1 DEF Seen, SameNow, Shown
  <1>2. /\ \A s : G!Silent(s) = WasSilent(s)
        /\ \A s : G!Out(s) = WasOut(s)
    BY <1>1 DEF G!Silent, G!Out, WasSilent, WasOut
  <1>3. /\ G!LastIsSpared = WasSpared
        /\ G!Slots = Slots /\ G!Loaded = Loaded
    BY <1>2 DEF G!LastIsSpared, WasSpared, G!Slots, Slots, G!Loaded, Loaded
  <1>4. /\ G!Killed = {s \in Loaded : WasSilent(s) /\ ~(WasSpared /\ s = N)}
        /\ G!Callers = {s \in Loaded : ~WasOut(s)}
    BY <1>2, <1>3 DEF G!Killed, G!Callers
  <1> DEFINE O(m) == {s \in 1..m : WasOut(s)}
  <1>5. champs_left = N - Cardinality(O(k - 1)) /\ Cardinality(O(k - 1)) \in 0..(k - 1)
        /\ (Cardinality(O(k - 1)) = k - 1 => \A s \in 1..(k - 1) : WasOut(s))
    <2>1. k - 1 \in Nat
      BY <1>0 DEF Walked
    <2>. QED
      BY <1>0, <2>1, OneSlotFurther DEF Walked
  <1>6. /\ winner' = IF WasSpared THEN Id[N] ELSE 0
        /\ dead = [s \in Slots |-> before.dead[s] \/ s \in G!Killed]
        /\ champ_lives = [s \in Slots |-> IF s \in G!Callers THEN 0 ELSE before.champ_lives[s]]
        /\ champs_left = 1 <=> WasSpared \/ Cardinality(G!Callers) = 1
    <2>1. CASE SpareLast
      <3>1. k \in 1..N /\ champs_left = 1 /\ ~dead[k] /\ champ_lives[k] = 0 /\ winner' = Id[k]
        BY <1>0, <2>1 DEF SpareLast, Walked
      <3>2. k = N /\ \A s \in 1..(N - 1) : WasOut(s)
        <4>. HIDE DEF O
        <4>1. Cardinality(O(k - 1)) = k - 1 /\ k = N
          BY <1>0, <1>5, <3>1
        <4>. QED
          BY <1>5, <4>1
      <3>3. WasSilent(N)
        BY <1>0, <3>1, <3>2 DEF Walked, WasSilent
      <3>4. WasSpared
        BY <3>2, <3>3 DEF WasSpared
      <3>5. \A s \in Slots : s \in Loaded <=> (s < N \/ s = N)
        BY <1>0, <1>5, SMT DEF Loaded, Slots
      <3>6. \A s \in Slots : s < N => WasOut(s)
        BY <1>0, <3>2, SMT DEF Slots
      <3>7. \A s \in Slots : s \in G!Killed <=> (s < N /\ WasSilent(s))
        BY <1>0, <1>4, <3>4, <3>5
      <3>8. dead = [s \in Slots |-> before.dead[s] \/ s \in G!Killed]
        <4>1. dead = [s \in Slots |-> IF s < N THEN WasOut(s) ELSE before.dead[s]]
          BY <1>0, <3>2 DEF Walked
        <4>2. \A s \in Slots : (IF s < N THEN WasOut(s) ELSE before.dead[s])
                                   = (before.dead[s] \/ s \in G!Killed)
          BY <1>0, <3>7 DEF WasOut, BeforeType
        <4>. QED
          BY <4>1, <4>2, Zenon
      <3>9. \A s \in Slots : s \notin G!Callers
        BY <1>4, <3>3, <3>5, <3>6 DEF WasOut
      <3>10. champ_lives = [s \in Slots |-> IF s \in G!Callers THEN 0 ELSE before.champ_lives[s]]
        BY <1>0, <3>2, <3>6, <3>9 DEF Walked
      <3>. QED
        BY <3>1, <3>2, <3>4, <3>8, <3>10
    <2>2. CASE EndCheck
      <3>1. k = N + 1 /\ ~WasSpared /\ winner' = 0
        BY <1>0, <2>2 DEF EndCheck, Walked, CheckInv
      <3>2. \A s \in Slots : s \in Loaded <=> s < N + 1
        BY <1>0, SMT DEF Loaded, Slots
      <3>3. \A s \in Slots : s \in G!Killed <=> (s < N + 1 /\ WasSilent(s))
        BY <1>4, <3>1, <3>2
      <3>4. \A s \in Slots : s \in G!Callers <=> (s < N + 1 /\ ~WasOut(s))
        BY <1>4, <3>2
      <3>5. dead = [s \in Slots |-> before.dead[s] \/ s \in G!Killed]
        <4>1. dead = [s \in Slots |-> IF s < N + 1 THEN WasOut(s) ELSE before.dead[s]]
          BY <1>0, <3>1 DEF Walked
        <4>2. \A s \in Slots : (IF s < N + 1 THEN WasOut(s) ELSE before.dead[s])
                                   = (before.dead[s] \/ s \in G!Killed)
          BY <1>0, <3>3 DEF WasOut, BeforeType
        <4>. QED
          BY <4>1, <4>2, Zenon
      <3>6. champ_lives = [s \in Slots |-> IF s \in G!Callers THEN 0 ELSE before.champ_lives[s]]
        BY <1>0, <3>1, <3>4 DEF Walked
      <3>7. champs_left = Cardinality(G!Callers)
        <4>1. IsFiniteSet(1..N) /\ Cardinality(1..N) = N
          BY <1>0, FS_Interval, SMT
        <4>2. O(N) \in SUBSET (1..N) /\ G!Callers = (1..N) \ O(N)
          BY <1>0, <1>4
        <4>3. (1..N) \cap O(N) = O(N)
          BY <4>2
        <4>4. champs_left = N - Cardinality(O(N))
          <5>1. k - 1 = N
            BY <1>0, <3>1
          <5>. QED
            BY <1>5, <5>1
        <4>. HIDE DEF O
        <4>5. Cardinality((1..N) \ O(N)) = Cardinality(1..N) - Cardinality((1..N) \cap O(N))
          BY <4>1, FS_Difference
        <4>. QED
          BY <4>1, <4>2, <4>3, <4>4, <4>5
      <3>. QED
        BY <3>1, <3>5, <3>6, <3>7
    <2>. QED
      BY <2>1, <2>2
  <1>7. /\ Seen'.nbr_cycles = 0 /\ Seen'.lives = 0
        /\ Seen'.cycle_to_die = Seen.cycle_to_die - CYCLE_DELTA
        /\ Seen'.cycle_to_die = cycle_to_die
        /\ Seen'.dumped = (Seen.dumped \/ G!DumpNow)
        /\ Seen'.winner = winner' /\ Seen'.dead = dead /\ Seen'.champ_lives = champ_lives
        /\ pc = "game_on" /\ G!PeriodOver
    BY <1>0, <1>1 DEF Conclude, CheckInv, SameNow, G!DumpNow, G!PeriodOver
  <1>8. FindWinner(dead) = G!FindWinner(dead)
    BY DEF FindWinner, G!FindWinner, Standing, G!Standing, Slots, G!Slots
  <1>9. G!OneLeft <=> champs_left = 1
    <2>1. G!Cardinality(G!Callers) = Cardinality(G!Callers)
      BY DEF Cardinality, G!Cardinality, IsFiniteSet, G!IsFiniteSet
    <2>. QED
      BY <1>3, <1>6, <2>1 DEF G!OneLeft
  <1>10. IF G!OneLeft \/ Seen'.cycle_to_die <= 0
         THEN pc' = "over" /\ announced' = G!FindWinner(Seen'.dead)
         ELSE pc' = "run_instructions" /\ UNCHANGED announced
    BY <1>0, <1>7, <1>8, <1>9 DEF Conclude
  <1>11. UNCHANGED <<G!ringVars, G!turnVars, running>>
    BY <1>0 DEF Conclude, ringVars, turnVars, G!ringVars, G!turnVars
  <1>12. /\ Seen'.dead = [s \in G!Slots |-> Seen.dead[s] \/ s \in G!Killed]
         /\ Seen'.champ_lives = [s \in G!Slots |-> IF s \in G!Callers THEN 0
                                                   ELSE Seen.champ_lives[s]]
         /\ Seen'.winner = IF G!LastIsSpared THEN Id[N] ELSE 0
    BY <1>1, <1>3, <1>6, <1>7
  <1>. QED
    BY <1>7, <1>10, <1>11, <1>12 DEF G!EndPeriod

(* What the search returns is what find_process finds, if it returns. *)
LEMMA SearchAnswers ==
    ASSUME LoopsInv, SearchEndsHere
    PROVE  SearchEnds(player[current]) /\ FindProcess(player[current]) = Answer
  <1> DEFINE id == player[current]
  <1>0. /\ at = "search" /\ RingTypeOK /\ walker \in Visited(id) /\ walker \in Procs
        /\ Own(walker) \/ next[walker] = HeadProc
    BY WalkerIsVisited DEF SearchEndsHere
  <1>1. PICK P \in SUBSET Procs : Passed(P)
    BY <1>0, WalkerIsVisited
  <1>2. Visited(id) \subseteq P \cup {walker}
    <2>1. P \cup {walker} \in SUBSET Procs
      BY <1>0
    <2>2. VisitClosed(id, P \cup {walker})
      BY <1>0, <1>1 DEF VisitClosed, Passed, Own
    <2>. QED
      BY <2>1, <2>2 DEF Visited
  <1>3. Matches(id) \subseteq {walker}
    BY <1>1, <1>2 DEF Matches, Passed, Own
  <1>4. CASE Own(walker)
    <2>1. Matches(id) = {walker}
      BY <1>0, <1>3, <1>4 DEF Matches, Own
    <2>. QED
      BY <1>0, <1>4, <2>1 DEF SearchEnds, FindProcess, Answer, Own
  <1>5. CASE ~Own(walker)
    <2>1. Matches(id) = {}
      BY <1>3, <1>5 DEF Matches, Own
    <2>. QED
      BY <1>0, <1>5, <2>1 DEF SearchEnds, FindProcess, Answer
  <1>. QED
    BY <1>4, <1>5

LEMMA SearchRefines ==
    ASSUME LoopsInv, SearchEndsHere
    PROVE  G!Next
  <1>0. /\ at = "search" /\ at' = "none" /\ SearchInv
        /\ CloneAndLink(Answer) /\ Advance
        /\ running' = [running EXCEPT ![current] = Cycles[op] - 1]
        /\ UNCHANGED <<coreVars, periodVars>>
    BY DEF SearchEndsHere, Found, Idle, Answer, LoopsInv
  <1>1. SameNow' /\ Seen = before
    BY <1>0 DEF SameNow, Seen, Shown
  <1>2. op \in Forks \cap Mnemonics /\ pc = "turn" /\ running[current] = 0
    BY <1>0 DEF SearchInv
  <1>3. /\ Seen'.nbr_cycles = Seen.nbr_cycles + Cycles[op]
        /\ Seen'.lives = Seen.lives /\ Seen'.winner = Seen.winner
        /\ Seen'.champ_lives = Seen.champ_lives /\ Seen'.dead = Seen.dead
        /\ Seen'.cycle_to_die = Seen.cycle_to_die /\ Seen'.dumped = Seen.dumped
        /\ UNCHANGED announced
    BY <1>0, <1>1 DEF SameNow, SearchInv, coreVars, periodVars
  <1>4. \A id : /\ G!Visited(id) = Visited(id) /\ G!Matches(id) = Matches(id)
                /\ G!SearchEnds(id) = SearchEnds(id) /\ G!FindProcess(id) = FindProcess(id)
    <2>1. \A id : G!Visited(id) = Visited(id)
      BY DEF Visited, VisitClosed, Procs, HeadProc,
             G!Visited, G!VisitClosed, G!Procs, G!HeadProc
    <2>2. \A id : G!Matches(id) = Matches(id)
      BY <2>1 DEF Matches, G!Matches
    <2>3. \A id : G!SearchEnds(id) = SearchEnds(id)
      BY <2>1 DEF SearchEnds, G!SearchEnds, HeadProc, G!HeadProc
    <2>4. \A id : G!FindProcess(id) = FindProcess(id)
      BY DEF FindProcess, Matches, Visited, VisitClosed, Procs, HeadProc, G!FindProcess,
             G!Matches, G!Visited, G!VisitClosed, G!Procs, G!HeadProc
    <2>. QED
      BY <2>1, <2>2, <2>3, <2>4
  <1>5. G!SearchEnds(player[current]) /\ G!FindProcess(player[current]) = Answer
    BY <1>4, SearchAnswers
  <1>6. G!CloneAndLink(Answer) /\ G!Advance
    BY <1>0 DEF CloneAndLink, G!CloneAndLink, HeadProc, G!HeadProc, Advance, G!Advance
  <1>7. G!ExecuteFork(op)
    BY <1>0, <1>2, <1>3, <1>5, <1>6 DEF G!ExecuteFork, G!Charge, G!periodVars
  <1>8. op \in G!Forks \cap G!Mnemonics
    BY <1>2 DEF Forks, Mnemonics, G!Forks, G!Mnemonics
  <1>. QED
    BY <1>7, <1>8 DEF G!Next, G!Turn

LEMMA InitRefines == LoopsInit => G!Init
  <1> SUFFICES ASSUME LoopsInit PROVE G!Init
    OBVIOUS
  <1>1. SameNow
    BY DEF LoopsInit, SameNow, Seen, Shown
  <1>2. G!RingInit
    BY DEF LoopsInit, Init, RingInit, G!RingInit, Pool, G!Pool, HeadProc, G!HeadProc, NULL, G!NULL
  <1>. QED
    BY <1>1, <1>2 DEF LoopsInit, Init, SameNow, G!Init, Slots, G!Slots, Pool, G!Pool,
                      HeadProc, G!HeadProc

LEMMA StepRefines ==
    ASSUME LoopsInv, [LoopsNext]_allVars
    PROVE  G!Next \/ UNCHANGED G!vars
  <1>1. CASE Plain
    BY <1>1, PlainRefines
  <1>2. CASE BeginCheck
    <2>1. Seen' = Seen
      BY <1>2 DEF BeginCheck, Seen
    <2>. QED
      BY <1>2, <2>1, NotYet DEF BeginCheck
  <1>3. CASE SkipDead \/ KillSilent \/ ForgetLives
    <2>1. NextSlot /\ at = "check"
      BY <1>3 DEF SkipDead, KillSilent, ForgetLives
    <2>2. Seen' = Seen
      BY <2>1 DEF NextSlot, Seen
    <2>. QED
      BY <2>1, <2>2, NotYet DEF NextSlot
  <1>4. CASE SpareLast \/ EndCheck
    <2>1. at = "check"
      BY <1>4 DEF SpareLast, EndCheck
    <2>. QED
      BY <1>4, <2>1, CheckRefines DEF G!Next
  <1>5. ASSUME NEW o \in Forks \cap Mnemonics, BeginSearch(o) PROVE UNCHANGED G!vars
    <2>1. Seen' = Seen
      BY <1>5 DEF BeginSearch, Seen
    <2>2. UNCHANGED announced
      BY <1>5 DEF BeginSearch, periodVars
    <2>. QED
      BY <1>5, <2>1, <2>2, NotYet DEF BeginSearch
  <1>6. CASE SearchEndsHere
    BY <1>6, SearchRefines
  <1>7. CASE WalkOn \/ UNCHANGED allVars
    <2>1. UNCHANGED vars /\ at' = at /\ before' = before
      BY <1>7 DEF WalkOn, allVars, loopVars
    <2>2. UNCHANGED <<ringVars, announced, turnVars, running, pc>> /\ Shown' = Shown
      BY <2>1 DEF vars, coreVars, periodVars, Shown
    <2>3. Seen' = Seen
      BY <2>1, <2>2 DEF Seen
    <2>. QED
      BY <2>2, <2>3, NotYet
  <1>. QED
    BY <1>1, <1>2, <1>3, <1>4, <1>5, <1>6, <1>7 DEF LoopsNext

(***************************************************************************)
(* Taken one iteration at a time, check_champion_lives and find_process do  *)
(* what Game says they do at once, whatever the champions' numbers: the     *)
(* closed forms of Game are what the loops compute.                         *)
(***************************************************************************)
THEOREM LoopsImplementGame == LoopsSpec => LoopsAreGame
  BY InitLoops, LoopsStep, InitRefines, StepRefines, PTL DEF LoopsSpec, LoopsAreGame, G!Spec

(***************************************************************************)
(* A walk of find_process that Game calls endless never leaves its loop.    *)
(***************************************************************************)
THEOREM EndlessSearchesStay == LoopsSpec => EndlessSearch
  <1>1. ASSUME LoopsInv, [LoopsNext]_allVars, at = "search", ~SearchEnds(player[current])
        PROVE  at' = "search"
    <2>1. ~SearchEndsHere
      BY <1>1, SearchAnswers
    <2>. QED
      BY <1>1, <2>1
         DEF LoopsNext, Plain, BeginCheck, SkipDead, KillSilent, ForgetLives, SpareLast,
             EndCheck, BeginSearch, WalkOn, allVars, loopVars
  <1>. QED
    BY InitLoops, LoopsStep, <1>1, PTL DEF LoopsSpec, EndlessSearch
=============================================================================
