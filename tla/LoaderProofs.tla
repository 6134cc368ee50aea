---------------------------- MODULE LoaderProofs ----------------------------
(***************************************************************************)
(* Theorems about the set-up, for any memory, any slots and any command     *)
(* lines: where code and processes are placed.                              *)
(***************************************************************************)
EXTENDS Loader, NumberProofs, FiniteSetTheorems, SequenceTheorems

-----------------------------------------------------------------------------
(* Shares of the memory *)

LEMMA Monotone ==
    ASSUME NEW k \in Nat, NEW a \in Int, NEW b \in Int, a <= b
    PROVE  k * a <= k * b
  <1>1. b - a \in Nat /\ k * (b - a) >= 0
    BY SMT
  <1>2. k * b = k * a + k * (b - a)
    BY SMT
  <1>. QED
    BY <1>1, <1>2, SMT

LEMMA WholeShares ==
    ASSUME NEW m \in Nat \ {0}, NEW n \in Nat \ {0}
    PROVE  m \div n \in Nat /\ (m \div n) * n <= m
  BY SMT

(* The n shares lie in the memory one behind the other. *)
LEMMA SharesFit ==
    ASSUME NEW m \in Nat \ {0}, NEW n \in Nat \ {0}, NEW s \in 1..n
    PROVE  /\ (m \div n) * (s - 1) \in Nat
           /\ (m \div n) * (s - 1) + (m \div n) <= m
           /\ (m \div n) * (s - 1) < m
  <1> DEFINE k == m \div n
  <1>1. k \in Nat /\ k * n <= m
    BY WholeShares
  <1> HIDE DEF k
  <1>2. k * s <= k * n
    BY <1>1, Monotone
  <1>3. k * s = k * (s - 1) + k /\ k * s \in Nat
    BY <1>1, SMT
  <1>4. k * (s - 1) \in Nat
    BY <1>1, SMT
  <1>5. k = 0 => k * (s - 1) = 0
    BY SMT
  <1>6. k * (s - 1) < m
    BY <1>1, <1>2, <1>3, <1>4, <1>5, SMT
  <1>7. k * (s - 1) + k <= m
    BY <1>1, <1>2, <1>3, <1>4, SMT
  <1>. QED
    BY <1>4, <1>6, <1>7 DEF k

LEMMA SharesApart ==
    ASSUME NEW k \in Nat, NEW s \in Int, NEW t \in Int, s < t
    PROVE  k * (s - 1) + k <= k * (t - 1)
  <1>1. k * s <= k * (t - 1)
    BY Monotone
  <1>. QED
    BY <1>1, SMT

(* The remainder of a distance, forwards and backwards. *)
LEMMA Remainder ==
    ASSUME NEW m \in Nat \ {0}, NEW d \in 0..(m - 1)
    PROVE  d % m = d /\ (d # 0 => (-d) % m = m - d)
  BY SMT

-----------------------------------------------------------------------------
(* The invariant *)

(* As many champions as there are slots, whose code is loaded in turn. *)
Slots ==
    /\ pc # "corrupt" => Count <= MAX_CHAMPIONS
    /\ pc = "args" => loaded = 0
    /\ pc \in {"build", "ready", "playing"} => loaded = Count

(* The code of the loaded slots, as far as their own share reaches. *)
Loaded ==
    \A s \in 1..loaded : \A j \in 0..(champions[s].size - 1) :
        j < Share => memory[Share * (s - 1) + j] = <<s, j>>

(* The processes, one at the beginning of each share. *)
Placed ==
    SetUp => \A s \in 1..Count :
                /\ processes[s].player = champions[s].id
                /\ processes[s].index = Share * (s - 1)

LoaderInv == TypeOK /\ Slots /\ Loaded /\ Placed

LEMMA AvFacts ==
    ASSUME av \in CommandLines
    PROVE  /\ Len(av) \in Nat
           /\ \A p \in 1..Len(av) : /\ av[p].kind \in Kinds
                                    /\ av[p].value \in Int
                                    /\ av[p].size \in 0..MEM_SIZE
  <1>1. PICK n \in 0..MaxArgs : av \in [1..n -> Tokens]
    BY DEF CommandLines
  <1>2. n \in Nat
    BY <1>1, LoaderAssumption
  <1>3. av \in Seq(Tokens) /\ Len(av) = n
    BY <1>1, <1>2, SeqDef, LenProperties
  <1>. QED
    BY <1>1, <1>2, <1>3, LoaderAssumption

LEMMA InitInv == Init => LoaderInv
  <1> SUFFICES ASSUME Init PROVE LoaderInv
    OBVIOUS
  <1> USE DEF Init
  <1>1. Len(av) \in Nat
    BY AvFacts
  <1>2. Count = 0
    BY DEF Count
  <1>3. TypeOK
    <2>1. memory \in [Cells -> (0..MAX_CHAMPIONS) \X Cells]
      BY LoaderAssumption DEF Zero, Cells
    <2>2. champions \in Seq([id : Int, size : 0..MEM_SIZE])
      BY EmptySeq
    <2>3. processes \in Seq([player : Int, index : Cells])
      BY EmptySeq
    <2>. QED
      BY <1>1, <1>2, <2>1, <2>2, <2>3, LoaderAssumption DEF TypeOK
  <1>4. Slots
    BY <1>2, LoaderAssumption DEF Slots
  <1>5. Loaded
    BY DEF Loaded
  <1>6. Placed
    BY <1>2 DEF Placed, SetUp
  <1>. QED
    BY <1>3, <1>4, <1>5, <1>6 DEF LoaderInv

(* What TypeOK says of the slots. *)
LEMMA SlotFacts ==
    ASSUME TypeOK
    PROVE  /\ Count \in Nat
           /\ \A s \in 1..Count : champions[s].id \in Int /\ champions[s].size \in 0..MEM_SIZE
           /\ Count # 0 => Share \in Nat
  <1>1. champions \in Seq([id : Int, size : 0..MEM_SIZE])
    BY DEF TypeOK
  <1>2. /\ Len(champions) \in Nat
        /\ champions \in [1..Len(champions) -> [id : Int, size : 0..MEM_SIZE]]
    BY <1>1, LenProperties
  <1>3. Count \in Nat
    BY <1>2 DEF Count
  <1>4. Count # 0 => Share \in Nat
    BY <1>3, WholeShares, LoaderAssumption DEF Share
  <1>. QED
    BY <1>2, <1>3, <1>4 DEF Count

LEMMA AddInv ==
    ASSUME LoaderInv, AddChampion \/ AddOneTooMany
    PROVE  LoaderInv'
  <1> USE DEF LoaderInv
  <1>0. Count \in Nat /\ Len(av) \in Nat /\ at \in 1..Len(av)
    BY SlotFacts, AvFacts DEF TypeOK, AddChampion, AddOneTooMany, More
  <1>1. Numbered(set_id) \in [id : Int, size : 0..MEM_SIZE]
    BY <1>0, AvFacts DEF Numbered, TypeOK
  <1>2. champions' = Append(champions, Numbered(set_id))
    BY DEF AddChampion, AddOneTooMany
  <1>3. champions' \in Seq([id : Int, size : 0..MEM_SIZE]) /\ Count' = Count + 1
    BY <1>1, <1>2, AppendProperties DEF TypeOK, Count
  <1>4. loaded' = 0 /\ loaded = 0
    BY DEF AddChampion, AddOneTooMany, More, Slots
  <1>5. TypeOK'
    <2>1. at' \in 1..(Len(av') + 1) /\ av' = av
      BY <1>0 DEF AddChampion, AddOneTooMany
    <2>2. set_id' \in Int
      BY DEF AddChampion, AddOneTooMany, TypeOK, AfterUse
    <2>3. UNCHANGED <<dump, memory, processes>> /\ pc' \in {"args", "corrupt"}
      BY DEF AddChampion, AddOneTooMany, More
    <2>. QED
      BY <1>0, <1>3, <1>4, <2>1, <2>2, <2>3 DEF TypeOK
  <1>6. Slots'
    BY <1>0, <1>3, <1>4, LoaderAssumption
       DEF Slots, AddChampion, AddOneTooMany, More, SlotFree
  <1>7. Loaded'
    BY <1>4 DEF Loaded
  <1>8. Placed'
    BY DEF Placed, SetUp, AddChampion, AddOneTooMany, More
  <1>. QED
    BY <1>5, <1>6, <1>7, <1>8

LEMMA LoadInv ==
    ASSUME LoaderInv, LoadSlot
    PROVE  LoaderInv'
  <1> USE DEF LoaderInv
  <1>0. /\ Count \in Nat \ {0} /\ Share \in Nat /\ Count <= MAX_CHAMPIONS
        /\ loaded \in Nat /\ loaded < Count
        /\ loaded' = loaded + 1
        /\ Count' = Count /\ Share' = Share /\ champions' = champions
    BY SlotFacts DEF TypeOK, LoadSlot, Slot, Slots, Count, Share
  <1>1. /\ Slot \in 1..Count
        /\ champions[Slot].size \in 0..MEM_SIZE
        /\ StartOf(Slot) \in Nat
        /\ StartOf(Slot) + champions[Slot].size <= MEM_SIZE
    <2>1. Slot \in 1..Count
      BY <1>0 DEF Slot
    <2>2. StartOf(Slot) \in Nat
      BY <2>1, <1>0, SharesFit, LoaderAssumption DEF StartOf, Share
    <2>. QED
      BY <2>1, <2>2, SlotFacts DEF LoadSlot
  <1>2. memory' = [a \in Cells |->
                     IF a - StartOf(Slot) \in 0..(champions[Slot].size - 1)
                     THEN <<Slot, a - StartOf(Slot)>> ELSE memory[a]]
    BY DEF LoadSlot
  <1>3. TypeOK'
    <2>1. memory' \in [Cells -> (0..MAX_CHAMPIONS) \X Cells]
      <3>1. ASSUME NEW a \in Cells, a - StartOf(Slot) \in 0..(champions[Slot].size - 1)
            PROVE  a - StartOf(Slot) \in Cells
        BY <3>1, <1>1, LoaderAssumption DEF Cells
      <3>2. Slot \in 0..MAX_CHAMPIONS
        BY <1>0, <1>1, LoaderAssumption
      <3>3. \A a \in Cells : memory[a] \in (0..MAX_CHAMPIONS) \X Cells
        BY DEF TypeOK
      <3>. QED
        BY <1>2, <3>1, <3>2, <3>3
    <2>2. loaded' \in 0..Count'
      BY <1>0
    <2>3. UNCHANGED <<av, at, set_id, dump, champions, processes, pc>>
      BY DEF LoadSlot
    <2>. QED
      BY <2>1, <2>2, <2>3 DEF TypeOK, Count
  <1>4. Slots'
    BY <1>0 DEF Slots, LoadSlot
  <1>5. Loaded'
    <2> SUFFICES ASSUME NEW s \in 1..loaded', NEW j \in 0..(champions'[s].size - 1), j < Share'
                 PROVE  memory'[Share' * (s - 1) + j] = <<s, j>>
      BY DEF Loaded
    <2>1. s \in 1..Count /\ champions[s].size \in 0..MEM_SIZE /\ j \in Nat /\ j < Share
      BY <1>0, SlotFacts
    <2>2. /\ Share * (s - 1) \in Nat
          /\ Share * (s - 1) + Share <= MEM_SIZE
      BY <2>1, <1>0, SharesFit, LoaderAssumption DEF Share
    <2> DEFINE a == Share * (s - 1) + j
    <2>3. a \in Cells
      <3> HIDE DEF a
      <3>1. \A b \in Nat : b + Share <= MEM_SIZE => b + j \in 0..(MEM_SIZE - 1)
        BY <2>1, <1>0, LoaderAssumption
      <3>. QED
        BY <2>2, <3>1 DEF a, Cells
    <2>4. CASE s = Slot
      <3>1. StartOf(Slot) = Share * (s - 1)
        BY <2>4 DEF StartOf
      <3>2. a - StartOf(Slot) = j
        BY <3>1, <2>1, <2>2
      <3>3. j \in 0..(champions[Slot].size - 1)
        BY <2>4, <1>0
      <3> HIDE DEF a
      <3>4. memory'[a] = <<Slot, j>>
        BY <1>2, <2>3, <3>2, <3>3
      <3>. QED
        BY <3>4, <2>4, <1>0 DEF a
    <2>5. CASE s # Slot
      <3>1. s < Slot /\ s \in 1..loaded
        BY <2>5, <2>1, <1>0 DEF Slot
      <3>2. Share * (s - 1) + Share <= StartOf(Slot)
        BY <3>1, <2>1, <1>0, <1>1, SharesApart DEF StartOf
      <3>3. a < StartOf(Slot)
        <4>1. \A b \in Nat : b + Share <= StartOf(Slot) => b + j < StartOf(Slot)
          BY <2>1, <1>0, <1>1
        <4>. QED
          BY <4>1, <3>2, <2>2
      <3>4. memory[a] = <<s, j>>
        BY <3>1, <1>0, <2>1 DEF Loaded
      <3> HIDE DEF a
      <3>5. a - StartOf(Slot) \notin 0..(champions[Slot].size - 1)
        BY <3>3, <2>3, <1>1 DEF Cells
      <3>6. memory'[a] = memory[a]
        BY <1>2, <2>3, <3>5
      <3>. QED
        BY <3>4, <3>6, <1>0 DEF a
    <2>. QED
      BY <2>4, <2>5
  <1>6. Placed'
    BY DEF Placed, SetUp, LoadSlot
  <1>. QED
    BY <1>3, <1>4, <1>5, <1>6

(* A function on the first numbers is a sequence. *)
LEMMA IsSequence ==
    ASSUME NEW S, NEW n \in Nat, NEW f \in [1..n -> S]
    PROVE  f \in Seq(S)
  BY SeqDef, Zenon

LEMMA BuildInv ==
    ASSUME LoaderInv, BuildProcesses
    PROVE  LoaderInv'
  <1> USE DEF LoaderInv
  <1>0. /\ UNCHANGED <<av, at, set_id, dump, champions, loaded, memory>>
        /\ Count \in Nat /\ Count' = Count /\ Share' = Share
        /\ loaded = Count /\ Count <= MAX_CHAMPIONS
        /\ pc' = "ready"
    BY SlotFacts DEF BuildProcesses, Slots, Count, Share
  <1> DEFINE n == IF Count = 0 THEN 1 ELSE Count
  <1>1. processes' = [s \in 1..n |-> [player |-> IF Count = 0 THEN 0 ELSE champions[s].id,
                                      index  |-> IndexOf(s)]]
    BY DEF BuildProcesses
  <1>2. n \in Nat
    BY <1>0
  <1>3. ASSUME NEW s \in 1..n
        PROVE  /\ IndexOf(s) \in Cells
               /\ Count # 0 => IndexOf(s) = Share * (s - 1)
    <2>1. CASE s = 1
      <3>1. IndexOf(s) = 0
        BY <2>1 DEF IndexOf
      <3>2. Count # 0 => Share * (1 - 1) = 0
        BY SlotFacts
      <3>. QED
        BY <2>1, <3>1, <3>2, LoaderAssumption DEF Cells
    <2>2. CASE s # 1
      <3>1. Count \in Nat \ {0} /\ s \in 1..Count
        BY <2>2, <1>0
      <3>2. IndexOf(s) = Share * (s - 1)
        BY <2>2 DEF IndexOf, Share
      <3>3. Share * (s - 1) \in Nat /\ Share * (s - 1) < MEM_SIZE
        BY <3>1, SharesFit, LoaderAssumption DEF Share
      <3>. QED
        BY <3>2, <3>3, LoaderAssumption DEF Cells
    <2>. QED
      BY <2>1, <2>2
  <1>4. ASSUME NEW s \in 1..n
        PROVE  (IF Count = 0 THEN 0 ELSE champions[s].id) \in Int
    <2>1. CASE Count = 0
      BY <2>1
    <2>2. CASE Count # 0
      <3>1. s \in 1..Count
        BY <2>2
      <3>. QED
        BY <2>2, <3>1, SlotFacts
    <2>. QED
      BY <2>1, <2>2
  <1>5. processes' \in Seq([player : Int, index : Cells])
    <2> HIDE DEF n
    <2>1. processes' \in [1..n -> [player : Int, index : Cells]]
      BY <1>1, <1>3, <1>4
    <2>. QED
      BY <1>2, <2>1, IsSequence
  <1>6. TypeOK'
    BY <1>0, <1>5 DEF TypeOK, Count
  <1>7. Slots' /\ Loaded'
    BY <1>0 DEF Slots, Loaded
  <1>8. Placed'
    <2> SUFFICES ASSUME Count # 0, NEW s \in 1..Count
                 PROVE  /\ processes'[s].player = champions[s].id
                        /\ processes'[s].index = Share * (s - 1)
      BY <1>0 DEF Placed, SetUp
    <2>1. s \in 1..n
      OBVIOUS
    <2> HIDE DEF n
    <2>. QED
      BY <2>1, <1>1, <1>3
  <1>. QED
    BY <1>6, <1>7, <1>8

(* The other actions leave memory, slots and processes alone. *)
LEMMA RestInv ==
    ASSUME LoaderInv,
           \/ ReadDump \/ ReadNumber \/ Refuse \/ IgnoreWord \/ EndArgs
           \/ LoadPastTheEnd \/ EndLoad \/ FirstTurn \/ UNCHANGED lvars
    PROVE  LoaderInv'
  <1> USE DEF LoaderInv
  <1>1. UNCHANGED <<av, champions, loaded, memory, processes>>
    BY DEF ReadDump, ReadNumber, Refuse, IgnoreWord, EndArgs, LoadPastTheEnd, EndLoad,
           FirstTurn, lvars
  <1>2. Count' = Count /\ Share' = Share /\ Count \in Nat
    BY <1>1, SlotFacts DEF Count, Share
  <1>3. TypeOK'
    <2>1. /\ at' \in 1..(Len(av) + 1)
          /\ set_id' \in Int /\ dump' \in Int
      <3>1. CASE ReadDump \/ ReadNumber
        <4>1. Len(av) \in Nat /\ at + 1 \in 1..Len(av)
          BY <3>1, AvFacts DEF TypeOK, ReadDump, ReadNumber, HasValue
        <4>2. av[at + 1].value \in Int
          BY <4>1, AvFacts DEF TypeOK
        <4>3. at' = at + 2 /\ set_id' \in {set_id, av[at + 1].value}
              /\ dump' \in {dump, av[at + 1].value}
          BY <3>1 DEF ReadDump, ReadNumber
        <4>4. at + 2 \in 1..(Len(av) + 1)
          BY <4>1 DEF TypeOK
        <4>5. set_id \in Int /\ dump \in Int
          BY DEF TypeOK
        <4>. QED
          BY <4>2, <4>3, <4>4, <4>5
      <3>2. CASE IgnoreWord
        <4>1. Len(av) \in Nat /\ at \in 1..Len(av)
          BY <3>2, AvFacts DEF TypeOK, IgnoreWord, More
        <4>. QED
          BY <3>2, <4>1 DEF TypeOK, IgnoreWord
      <3>3. CASE UNCHANGED <<at, set_id, dump>>
        BY <3>3 DEF TypeOK
      <3>4. \/ ReadDump \/ ReadNumber \/ IgnoreWord
            \/ UNCHANGED <<at, set_id, dump>>
        BY DEF Refuse, EndArgs, LoadPastTheEnd, EndLoad, FirstTurn, lvars
      <3>. QED
        BY <3>1, <3>2, <3>3, <3>4
    <2>2. pc' \in {"args", "load", "build", "ready", "playing", "exit", "crashed", "corrupt"}
      BY DEF TypeOK, ReadDump, ReadNumber, Refuse, IgnoreWord, EndArgs, LoadPastTheEnd,
             EndLoad, FirstTurn, lvars
    <2>. QED
      BY <1>1, <1>2, <2>1, <2>2 DEF TypeOK
  <1>4. Slots'
    BY <1>1, <1>2
       DEF Slots, ReadDump, ReadNumber, Refuse, IgnoreWord, EndArgs, LoadPastTheEnd, EndLoad,
           FirstTurn, lvars, More
  <1>5. Loaded'
    BY <1>1, <1>2 DEF Loaded
  <1>6. Placed'
    BY <1>1, <1>2
       DEF Placed, SetUp, ReadDump, ReadNumber, Refuse, IgnoreWord, EndArgs, LoadPastTheEnd,
           EndLoad, FirstTurn, lvars, More
  <1>. QED
    BY <1>3, <1>4, <1>5, <1>6

LEMMA Invariance == Spec => []LoaderInv
  <1>1. LoaderInv /\ [Next]_lvars => LoaderInv'
    BY AddInv, LoadInv, BuildInv, RestInv DEF Next
  <1>. QED
    BY InitInv, <1>1, PTL DEF Spec

-----------------------------------------------------------------------------
(* The theorems *)

(***************************************************************************)
(* Whatever the command line, the memory keeps cells with what the loaded   *)
(* champions' code puts there, and every process stands in the memory.      *)
(***************************************************************************)
THEOREM LoaderTypeCorrect == Spec => []TypeOK
  BY Invariance, PTL DEF LoaderInv

(***************************************************************************)
(* For any size of the memory, any number of slots and champions of any     *)
(* length, every process starts at its own champion's code, whole as far as *)
(* its share reaches: load_instructions and build_processes agree, and no   *)
(* later champion is copied over it.                                        *)
(***************************************************************************)
THEOREM OwnCode == Spec => []StartsOnOwnCode
  <1>1. LoaderInv => StartsOnOwnCode
    <2> SUFFICES ASSUME LoaderInv, SetUp,
                        NEW s \in 1..Count, NEW j \in 0..(champions[s].size - 1)
                 PROVE  /\ processes[s].player = champions[s].id
                        /\ j < Share => memory[processes[s].index + j] = <<s, j>>
      BY DEF StartsOnOwnCode
    <2>1. loaded = Count
      BY DEF LoaderInv, Slots, SetUp
    <2>2. j < Share => memory[Share * (s - 1) + j] = <<s, j>>
      BY <2>1 DEF LoaderInv, Loaded
    <2>3. /\ processes[s].player = champions[s].id
          /\ processes[s].index = Share * (s - 1)
      BY DEF LoaderInv, Placed
    <2>. QED
      BY <2>2, <2>3
  <1>. QED
    BY Invariance, <1>1, PTL

(***************************************************************************)
(* On the circle of a memory of any size no two processes are nearer than a *)
(* share, in either direction, though the shares need not fill it.          *)
(***************************************************************************)
THEOREM ProcessesFarApart == Spec => []FarApart
  <1>1. LoaderInv => FarApart
    <2> SUFFICES ASSUME LoaderInv, SetUp, NEW s \in 1..Count, NEW t \in 1..Count, s # t
                 PROVE  (processes[s].index - processes[t].index) % MEM_SIZE >= Share
      BY DEF FarApart
    <2>1. Count \in Nat \ {0} /\ Share \in Nat /\ MEM_SIZE \in Nat \ {0}
      BY SlotFacts, LoaderAssumption DEF LoaderInv, SetUp
    <2> DEFINE P(q) == Share * (q - 1)
    <2>2. /\ processes[s].index = P(s) /\ processes[t].index = P(t)
      BY DEF LoaderInv, Placed
    <2>3. \A q \in 1..Count : P(q) \in Nat /\ P(q) + Share <= MEM_SIZE /\ P(q) < MEM_SIZE
      BY <2>1, SharesFit DEF Share
    <2>4. CASE t < s
      <3>1. P(t) + Share <= P(s)
        BY <2>4, <2>1, SharesApart
      <3> HIDE DEF P
      <3>2. P(s) - P(t) \in 0..(MEM_SIZE - 1) /\ P(s) - P(t) >= Share
        BY <3>1, <2>1, <2>3
      <3>3. (P(s) - P(t)) % MEM_SIZE = P(s) - P(t)
        BY <3>2, <2>1, Remainder
      <3>. QED
        BY <3>2, <3>3, <2>2
    <2>5. CASE s < t
      <3>1. P(s) + Share <= P(t)
        BY <2>5, <2>1, SharesApart
      <3> HIDE DEF P
      <3> DEFINE d == P(t) - P(s)
      <3>2. d \in 0..(MEM_SIZE - 1) /\ d >= Share /\ MEM_SIZE - d >= Share
        BY <3>1, <2>1, <2>3
      <3>3. P(s) - P(t) = -d
        BY <2>3
      <3> HIDE DEF d
      <3>4. CASE d # 0
        <4>1. (-d) % MEM_SIZE = MEM_SIZE - d
          BY <3>2, <3>4, <2>1, Remainder
        <4>. QED
          BY <4>1, <3>2, <3>3, <2>2
      <3>5. CASE d = 0
        <4>1. d % MEM_SIZE = d
          BY <3>2, <2>1, Remainder
        <4>2. Share = 0
          BY <3>2, <3>5, <2>1
        <4>3. P(s) - P(t) = d
          BY <3>3, <3>5
        <4>. QED
          BY <4>1, <4>2, <4>3, <3>5, <2>2
      <3>. QED
        BY <3>4, <3>5
    <2>. QED
      BY <2>4, <2>5
  <1>. QED
    BY Invariance, <1>1, PTL

-----------------------------------------------------------------------------
(* The numbers of the champions *)

(* The definitions of the property, for any command line a.                  *)
TakesValue(a, p) == a[p].kind \in {"-dump", "-n"}
Alternates(v, a) == v = [p \in 0..Len(a) |-> p > 1 /\ ~v[p - 1] /\ TakesValue(a, p - 1)]
ValuesOf(a) == CHOOSE v : Alternates(v, a)
FilesOf(a) == {p \in DOMAIN a : a[p].kind = "cor" /\ ~ValuesOf(a)[p]}
RankIn(a, p) == Cardinality({f \in FilesOf(a) : f <= p})
AskedIn(a, p) == {q \in DOMAIN a : /\ q < p /\ a[q].kind = "-n" /\ ~ValuesOf(a)[q]
                                   /\ \A f \in FilesOf(a) : ~(q < f /\ f < p)}
GivenIn(a, p) == IF AskedIn(a, p) = {} THEN 0 ELSE a[Max(AskedIn(a, p)) + 1].value
DefaultIn(a, p) == {RankIn(a, p)} \cup
                   IF RankIn(a, p) = 1 /\ AskedIn(a, p) = {} THEN Garbage ELSE {}
AsGiven(a, p, id) == id \in IF GivenIn(a, p) # 0 THEN {GivenIn(a, p)} ELSE DefaultIn(a, p)
AllAsGiven(a, c) == \A p \in FilesOf(a) : RankIn(a, p) <= Len(c) => AsGiven(a, p, c[RankIn(a, p)].id)

LEMMA FilesOfLine == IsValue = ValuesOf(av) /\ Files = FilesOf(av)
  <1>1. IsValue = ValuesOf(av)
    BY Zenon DEF IsValue, ValuesOf, Alternates, TakesValue
  <1>. QED
    BY <1>1, Zenon DEF Files, FilesOf

LEMMA OfAnyLine == NumbersAsGiven <=> AllAsGiven(av, champions)
  <1>1. IsValue = ValuesOf(av)
    BY FilesOfLine
  <1>2. Files = FilesOf(av)
    BY FilesOfLine
  <1>3. ASSUME NEW p PROVE Rank(p) = RankIn(av, p) /\ Asked(p) = AskedIn(av, p)
    BY <1>1, <1>2, Zenon DEF Rank, RankIn, Asked, AskedIn
  <1>4. ASSUME NEW p
        PROVE  (IF Asked(p) = {} THEN 0 ELSE av[Max(Asked(p)) + 1].value) = GivenIn(av, p)
    <2>1. Asked(p) = AskedIn(av, p)
      BY <1>3
    <2>. QED
      BY <2>1, SMT DEF GivenIn
  <1>5. ASSUME NEW p
        PROVE  {Rank(p)} \cup (IF Rank(p) = 1 /\ Asked(p) = {} THEN Garbage ELSE {})
                  = DefaultIn(av, p)
    <2>1. Rank(p) = RankIn(av, p) /\ Asked(p) = AskedIn(av, p)
      BY <1>3
    <2>. QED
      BY <2>1, SMT DEF DefaultIn
  <1>. QED
    BY <1>2, <1>3, <1>4, <1>5 DEF NumbersAsGiven, AllAsGiven, AsGiven, Count

(* The words of a, whatever their kinds. *)
Line(a) == Len(a) \in Nat /\ DOMAIN a = 1..Len(a)

(* An argument is the value of the option before it, unless that is a value. *)
LEMMA ValuesExist ==
    ASSUME NEW a, Len(a) \in Nat
    PROVE  \E v : Alternates(v, a)
  <1> DEFINE h == [x \in Nat \X BOOLEAN |-> x[1] > 1 /\ ~x[2] /\ TakesValue(a, x[1] - 1)]
  <1>1. \A m \in Nat : \A b \in BOOLEAN : h[<<m, b>>] = (m > 1 /\ ~b /\ TakesValue(a, m - 1))
    OBVIOUS
  <1>. HIDE DEF h
  <1>2. Into(h, BOOLEAN, Len(a))
    <2>1. ASSUME NEW m \in 1..Len(a), NEW b \in BOOLEAN
          PROVE  h[<<m, b>>] \in BOOLEAN
      <3>1. m \in Nat
        OBVIOUS
      <3>2. h[<<m, b>>] = (m > 1 /\ ~b /\ TakesValue(a, m - 1))
        BY <1>1, <3>1, Zenon
      <3>. QED
        BY <3>2, Zenon
    <2>. QED
      BY <2>1, Zenon DEF Into
  <1>3. PICK v \in [0..Len(a) -> BOOLEAN] :
            /\ v[0] = FALSE
            /\ \A m \in 1..Len(a) : v[m] = h[<<m, v[m - 1]>>]
    <2>1. FALSE \in BOOLEAN
      OBVIOUS
    <2>2. \E v \in [0..Len(a) -> BOOLEAN] : Follows(v, FALSE, h, Len(a))
      BY <1>2, <2>1, Recursion, Zenon
    <2>. QED
      BY <2>2, Zenon DEF Follows
  <1>4. ASSUME NEW p \in 0..Len(a)
        PROVE  v[p] = (p > 1 /\ ~v[p - 1] /\ TakesValue(a, p - 1))
    <2>1. CASE p = 0
      BY <1>3, <2>1
    <2>2. CASE p # 0
      <3>1. p \in 1..Len(a) /\ p \in Nat /\ p - 1 \in 0..Len(a)
        BY <2>2
      <3>2. v[p - 1] \in BOOLEAN
        BY <3>1
      <3>. QED
        BY <1>1, <1>3, <3>1, <3>2
    <2>. QED
      BY <2>1, <2>2
  <1>5. v = [p \in 0..Len(a) |-> p > 1 /\ ~v[p - 1] /\ TakesValue(a, p - 1)]
    BY <1>4, Zenon
  <1>. QED
    BY <1>5 DEF Alternates

LEMMA ValueFacts ==
    ASSUME NEW a, Len(a) \in Nat
    PROVE  \A p \in 1..Len(a) :
              ValuesOf(a)[p] = (p > 1 /\ ~ValuesOf(a)[p - 1] /\ TakesValue(a, p - 1))
  <1>1. Alternates(ValuesOf(a), a)
    BY ValuesExist, Zenon DEF ValuesOf
  <1>2. \A p \in 0..Len(a) :
           ValuesOf(a)[p] = (p > 1 /\ ~ValuesOf(a)[p - 1] /\ TakesValue(a, p - 1))
    BY <1>1, Zenon DEF Alternates
  <1>3. \A p \in 1..Len(a) : p \in 0..Len(a)
    OBVIOUS
  <1>. QED
    BY <1>2, <1>3, Zenon

(* After an option with a value comes an argument that is none. *)
LEMMA OptionAndValue ==
    ASSUME NEW a, Line(a), NEW i \in 1..Len(a), ~ValuesOf(a)[i], TakesValue(a, i)
    PROVE  /\ i + 1 <= Len(a) => ValuesOf(a)[i + 1]
           /\ i + 2 <= Len(a) => ~ValuesOf(a)[i + 2]
  <1>0. Len(a) \in Nat
    BY DEF Line
  <1>1. ASSUME i + 1 <= Len(a) PROVE ValuesOf(a)[i + 1]
    <2> DEFINE p == i + 1
    <2>1. p \in 1..Len(a) /\ p > 1 /\ p - 1 = i
      BY <1>0, <1>1
    <2>. HIDE DEF p
    <2>2. ValuesOf(a)[p]
      BY <1>0, <2>1, ValueFacts
    <2>. QED
      BY <2>2 DEF p
  <1>2. ASSUME i + 2 <= Len(a) PROVE ~ValuesOf(a)[i + 2]
    <2> DEFINE p == i + 2
    <2>1. p \in 1..Len(a) /\ p - 1 = i + 1 /\ i + 1 <= Len(a)
      BY <1>0, <1>2
    <2>. HIDE DEF p
    <2>2. ValuesOf(a)[p - 1]
      BY <1>1, <2>1
    <2>3. ~ValuesOf(a)[p]
      BY <1>0, <2>1, <2>2, ValueFacts
    <2>. QED
      BY <2>3 DEF p
  <1>. QED
    BY <1>1, <1>2

(* After an argument that is no option comes one that is no value. *)
LEMMA NoOption ==
    ASSUME NEW a, Line(a), NEW i \in 1..Len(a), ~TakesValue(a, i)
    PROVE  i + 1 <= Len(a) => ~ValuesOf(a)[i + 1]
  <1>0. Len(a) \in Nat
    BY DEF Line
  <1>1. SUFFICES ASSUME i + 1 <= Len(a) PROVE ~ValuesOf(a)[i + 1]
    OBVIOUS
  <1> DEFINE p == i + 1
  <1>2. p \in 1..Len(a) /\ p - 1 = i
    BY <1>0, <1>1
  <1>. HIDE DEF p
  <1>3. ~ValuesOf(a)[p]
    BY <1>0, <1>2, ValueFacts
  <1>. QED
    BY <1>3 DEF p

(* The arguments of an option, a word or a champion's file put behind: the   *)
(* champions before the next argument, and the numbers asked for there.      *)
BeforeIn(a, p) == {f \in FilesOf(a) : f < p}

LEMMA PastOption ==
    ASSUME NEW a, Line(a), NEW i \in 1..Len(a), ~ValuesOf(a)[i], TakesValue(a, i),
           i + 1 <= Len(a)
    PROVE  /\ BeforeIn(a, i + 2) = BeforeIn(a, i)
           /\ a[i].kind # "-n" => AskedIn(a, i + 2) = AskedIn(a, i)
           /\ a[i].kind = "-n" => AskedIn(a, i + 2) # {} /\ Max(AskedIn(a, i + 2)) = i
  <1>1. Len(a) \in Nat /\ DOMAIN a = 1..Len(a) /\ ValuesOf(a)[i + 1]
    BY OptionAndValue DEF Line
  <1>2. \A f \in FilesOf(a) : f \in 1..Len(a) /\ f # i /\ f # i + 1
    BY <1>1 DEF FilesOf, TakesValue
  <1>3. \A f \in FilesOf(a) : f < i + 2 <=> f < i
    BY <1>1, <1>2
  <1>4. BeforeIn(a, i + 2) = BeforeIn(a, i)
    BY <1>3, Zenon DEF BeforeIn
  <1>5. ASSUME a[i].kind # "-n" PROVE AskedIn(a, i + 2) = AskedIn(a, i)
    <2>1. ASSUME NEW q \in DOMAIN a, a[q].kind = "-n", ~ValuesOf(a)[q]
          PROVE  q < i + 2 <=> q < i
      BY <1>1, <1>5, <2>1
    <2>. QED
      BY <1>3, <2>1, Zenon DEF AskedIn
  <1>6. ASSUME a[i].kind = "-n" PROVE AskedIn(a, i + 2) # {} /\ Max(AskedIn(a, i + 2)) = i
    <2>1. \A f \in FilesOf(a) : ~(i < f /\ f < i + 2)
      BY <1>1, <1>2
    <2>2. i \in AskedIn(a, i + 2)
      <3>1. i < i + 2 /\ i \in DOMAIN a
        BY <1>1
      <3>. QED
        BY <1>6, <2>1, <3>1 DEF AskedIn
    <2>3. AskedIn(a, i + 2) \subseteq Nat
      BY <1>1 DEF AskedIn
    <2>4. ASSUME NEW q \in AskedIn(a, i + 2) PROVE q <= i
      <3>1. q \in 1..Len(a) /\ q < i + 2 /\ ~ValuesOf(a)[q]
        BY <1>1 DEF AskedIn
      <3>2. q # i + 1
        BY <1>1, <3>1
      <3>. QED
        BY <1>1, <3>1, <3>2
    <2>. HIDE DEF AskedIn
    <2>5. Max(AskedIn(a, i + 2)) = i
      BY <2>2, <2>3, <2>4, MaxFacts
    <2>. QED
      BY <2>2, <2>5
  <1>. QED
    BY <1>4, <1>5, <1>6

LEMMA PastWord ==
    ASSUME NEW a, Line(a), NEW i \in 1..Len(a), a[i].kind \notin {"-n", "cor"}
    PROVE  /\ BeforeIn(a, i + 1) = BeforeIn(a, i)
           /\ AskedIn(a, i + 1) = AskedIn(a, i)
  <1>1. Len(a) \in Nat /\ DOMAIN a = 1..Len(a)
    BY DEF Line
  <1>2. \A f \in FilesOf(a) : f \in 1..Len(a) /\ f # i
    BY <1>1 DEF FilesOf
  <1>3. \A f \in FilesOf(a) : f < i + 1 <=> f < i
    BY <1>1, <1>2
  <1>4. BeforeIn(a, i + 1) = BeforeIn(a, i)
    BY <1>3, Zenon DEF BeforeIn
  <1>5. ASSUME NEW q \in DOMAIN a, a[q].kind = "-n"
        PROVE  q < i + 1 <=> q < i
    <2>1. q \in 1..Len(a) /\ q # i
      BY <1>1, <1>5
    <2>. QED
      BY <1>1, <2>1
  <1>. QED
    BY <1>3, <1>4, <1>5, Zenon DEF AskedIn

LEMMA FilesFinite ==
    ASSUME NEW a, Line(a)
    PROVE  FilesOf(a) \subseteq 1..Len(a) /\ IsFiniteSet(FilesOf(a))
  <1>1. FilesOf(a) \subseteq 1..Len(a)
    BY DEF Line, FilesOf
  <1>2. 1 \in Int /\ Len(a) \in Int
    BY DEF Line
  <1>3. IsFiniteSet(1..Len(a))
    BY <1>2, FS_Interval
  <1>. QED
    BY <1>1, <1>3, FS_Subset

LEMMA PastFile ==
    ASSUME NEW a, Line(a), NEW i \in 1..Len(a), ~ValuesOf(a)[i], a[i].kind = "cor"
    PROVE  /\ i \in FilesOf(a)
           /\ BeforeIn(a, i + 1) = BeforeIn(a, i) \cup {i}
           /\ AskedIn(a, i + 1) = {}
           /\ RankIn(a, i) = Cardinality(BeforeIn(a, i)) + 1
           /\ Cardinality(BeforeIn(a, i)) \in Nat
  <1>1. Len(a) \in Nat /\ DOMAIN a = 1..Len(a)
    BY DEF Line
  <1>2. i \in FilesOf(a) /\ FilesOf(a) \subseteq 1..Len(a)
    BY <1>1 DEF FilesOf
  <1>3. \A f \in FilesOf(a) : (f < i + 1 <=> f < i \/ f = i) /\ (f <= i <=> f < i \/ f = i)
    BY <1>1, <1>2
  <1>4. BeforeIn(a, i + 1) = BeforeIn(a, i) \cup {i}
    BY <1>2, <1>3 DEF BeforeIn
  <1>5. AskedIn(a, i + 1) = {}
    <2>1. SUFFICES ASSUME NEW q \in AskedIn(a, i + 1) PROVE FALSE
      OBVIOUS
    <2>2. /\ q \in 1..Len(a) /\ q < i + 1 /\ a[q].kind = "-n"
          /\ \A f \in FilesOf(a) : ~(q < f /\ f < i + 1)
      BY <1>1 DEF AskedIn
    <2>3. ~(q < i /\ i < i + 1)
      BY <1>2, <2>2
    <2>4. q = i
      BY <1>1, <2>2, <2>3
    <2>. QED
      BY <2>2, <2>4
  <1>6. RankIn(a, i) = Cardinality(BeforeIn(a, i) \cup {i})
    <2>1. ASSUME NEW f PROVE f \in {g \in FilesOf(a) : g <= i} <=> f \in BeforeIn(a, i) \cup {i}
      BY <1>2, <1>3 DEF BeforeIn
    <2>2. {f \in FilesOf(a) : f <= i} = BeforeIn(a, i) \cup {i}
      BY <2>1
    <2>. QED
      BY <2>2, Zenon DEF RankIn
  <1>7. IsFiniteSet(BeforeIn(a, i)) /\ i \notin BeforeIn(a, i)
    <2>1. BeforeIn(a, i) \subseteq FilesOf(a) /\ i \notin BeforeIn(a, i)
      BY <1>1 DEF BeforeIn
    <2>. QED
      BY <2>1, FilesFinite, FS_Subset
  <1>8. /\ Cardinality(BeforeIn(a, i)) \in Nat
        /\ Cardinality(BeforeIn(a, i) \cup {i}) = Cardinality(BeforeIn(a, i)) + 1
    BY <1>7, FS_CardinalityType, FS_AddElement
  <1>. QED
    BY <1>2, <1>4, <1>5, <1>6, <1>8

(* No two champions have the same rank. *)
LEMMA RanksGrow ==
    ASSUME NEW a, Line(a), NEW p \in FilesOf(a), NEW q \in FilesOf(a), p < q
    PROVE  RankIn(a, p) < RankIn(a, q)
  <1> DEFINE P == {f \in FilesOf(a) : f <= p}
             Q == {f \in FilesOf(a) : f <= q}
  <1>1. Len(a) \in Nat /\ FilesOf(a) \subseteq 1..Len(a)
    BY DEF Line, FilesOf
  <1>2. Q \subseteq FilesOf(a)
    OBVIOUS
  <1>3. IsFiniteSet(Q)
    BY <1>2, FilesFinite, FS_Subset
  <1>4. P \subseteq Q /\ q \in Q /\ q \notin P
    BY <1>1
  <1>. HIDE DEF P, Q
  <1>5. /\ Cardinality(P) <= Cardinality(Q)
        /\ Cardinality(P) # Cardinality(Q)
        /\ Cardinality(P) \in Nat /\ Cardinality(Q) \in Nat
    BY <1>3, <1>4, FS_Subset, FS_CardinalityType
  <1>6. Cardinality(P) < Cardinality(Q)
    BY <1>5
  <1>7. RankIn(a, p) = Cardinality(P) /\ RankIn(a, q) = Cardinality(Q)
    BY Zenon DEF RankIn, P, Q
  <1>. QED
    BY <1>6, <1>7

(* The first champion is the first, the others come behind it. *)
LEMMA RankType ==
    ASSUME NEW a, Line(a), NEW p \in FilesOf(a)
    PROVE  RankIn(a, p) \in Nat \ {0}
  <1> DEFINE P == {f \in FilesOf(a) : f <= p}
  <1>1. Len(a) \in Nat /\ FilesOf(a) \subseteq 1..Len(a)
    BY DEF Line, FilesOf
  <1>2. P \subseteq FilesOf(a)
    OBVIOUS
  <1>6. p \in P
    BY <1>1
  <1>. HIDE DEF P
  <1>3. IsFiniteSet(P)
    BY <1>2, FilesFinite, FS_Subset
  <1>4. Cardinality(P) \in Nat /\ Cardinality(P) # 0
    BY <1>3, <1>6, FS_CardinalityType, FS_EmptySet
  <1>5. RankIn(a, p) = Cardinality(P)
    BY Zenon DEF RankIn, P
  <1>. QED
    BY <1>4, <1>5

(* What parse_args knows when it looks at argument i: that it is no value,   *)
(* how many champions there were, and the number asked for since the last.   *)
Parsed(a, i, c, id) ==
    /\ i <= Len(a) => ~ValuesOf(a)[i]
    /\ Len(c) = Cardinality(BeforeIn(a, i))
    /\ AskedIn(a, i) # {} => id = GivenIn(a, i)
    /\ AskedIn(a, i) = {} => id \in IF Len(c) = 0 THEN Garbage ELSE {0}

(* Until now all are numbered as given, and so will the next one be. *)
NumInv ==
    /\ AllAsGiven(av, champions)
    /\ pc = "args" => Parsed(av, at, champions, set_id)

LEMMA AfterNumber ==
    ASSUME NEW a, Line(a), NEW i \in 1..Len(a), i + 1 <= Len(a), a[i].kind = "-n",
           NEW c, NEW id, Parsed(a, i, c, id)
    PROVE  Parsed(a, i + 2, c, a[i + 1].value)
  <1>1. ~ValuesOf(a)[i] /\ TakesValue(a, i)
    BY DEF Parsed, TakesValue
  <1>2. /\ BeforeIn(a, i + 2) = BeforeIn(a, i)
        /\ AskedIn(a, i + 2) # {} /\ Max(AskedIn(a, i + 2)) = i
    BY <1>1, PastOption
  <1>3. i + 2 <= Len(a) => ~ValuesOf(a)[i + 2]
    BY <1>1, OptionAndValue
  <1>4. GivenIn(a, i + 2) = a[i + 1].value
    BY <1>2, Zenon DEF GivenIn
  <1>. QED
    BY <1>2, <1>3, <1>4, Zenon DEF Parsed

LEMMA AfterDump ==
    ASSUME NEW a, Line(a), NEW i \in 1..Len(a), i + 1 <= Len(a), a[i].kind = "-dump",
           NEW c, NEW id, Parsed(a, i, c, id)
    PROVE  Parsed(a, i + 2, c, id)
  <1>1. ~ValuesOf(a)[i] /\ TakesValue(a, i)
    BY DEF Parsed, TakesValue
  <1>2. BeforeIn(a, i + 2) = BeforeIn(a, i) /\ AskedIn(a, i + 2) = AskedIn(a, i)
    BY <1>1, PastOption
  <1>3. i + 2 <= Len(a) => ~ValuesOf(a)[i + 2]
    BY <1>1, OptionAndValue
  <1>4. GivenIn(a, i + 2) = GivenIn(a, i)
    BY <1>2, Zenon DEF GivenIn
  <1>. QED
    BY <1>2, <1>3, <1>4, Zenon DEF Parsed

LEMMA AfterWord ==
    ASSUME NEW a, Line(a), NEW i \in 1..Len(a), a[i].kind = "word",
           NEW c, NEW id, Parsed(a, i, c, id)
    PROVE  Parsed(a, i + 1, c, id)
  <1>2. BeforeIn(a, i + 1) = BeforeIn(a, i) /\ AskedIn(a, i + 1) = AskedIn(a, i)
    BY PastWord
  <1>3. i + 1 <= Len(a) => ~ValuesOf(a)[i + 1]
    BY NoOption DEF TakesValue
  <1>4. GivenIn(a, i + 1) = GivenIn(a, i)
    BY <1>2, Zenon DEF GivenIn
  <1>. QED
    BY <1>2, <1>3, <1>4, Zenon DEF Parsed

LEMMA AfterFile ==
    ASSUME NEW a, Line(a), NEW i \in 1..Len(a), a[i].kind = "cor",
           NEW S, NEW c \in Seq(S), NEW r \in S, NEW id, Parsed(a, i, c, id)
    PROVE  Parsed(a, i + 1, Append(c, r), 0)
  <1>1. ~ValuesOf(a)[i] /\ Len(c) = Cardinality(BeforeIn(a, i))
    BY DEF Parsed
  <1>2. /\ BeforeIn(a, i + 1) = BeforeIn(a, i) \cup {i} /\ AskedIn(a, i + 1) = {}
        /\ Cardinality(BeforeIn(a, i)) \in Nat
    BY <1>1, PastFile
  <1>3. IsFiniteSet(BeforeIn(a, i)) /\ i \notin BeforeIn(a, i)
    <2>1. BeforeIn(a, i) \subseteq FilesOf(a) /\ i \notin BeforeIn(a, i)
      BY DEF BeforeIn, Line
    <2>. QED
      BY <2>1, FilesFinite, FS_Subset
  <1>4. Cardinality(BeforeIn(a, i + 1)) = Cardinality(BeforeIn(a, i)) + 1
    BY <1>2, <1>3, FS_AddElement
  <1>5. Len(Append(c, r)) = Len(c) + 1
    OBVIOUS
  <1>6. i + 1 <= Len(a) => ~ValuesOf(a)[i + 1]
    BY NoOption DEF TakesValue
  <1>7. Len(Append(c, r)) # 0
    BY <1>1, <1>2, <1>5
  <1>. QED
    BY <1>1, <1>2, <1>4, <1>5, <1>6, <1>7 DEF Parsed

(* The champion added is numbered as given, and the others stay so. *)
LEMMA NextAsGiven ==
    ASSUME NEW a, Line(a), NEW i \in 1..Len(a), a[i].kind = "cor",
           NEW S, NEW c \in Seq(S), NEW r \in S, NEW id, Parsed(a, i, c, id),
           r.id = IF id # 0 THEN id ELSE Len(c) + 1,
           AllAsGiven(a, c)
    PROVE  AllAsGiven(a, Append(c, r))
  <1>1. /\ i \in FilesOf(a) /\ RankIn(a, i) = Len(c) + 1 /\ Len(c) \in Nat
    BY PastFile DEF Parsed
  <1>2. /\ Len(Append(c, r)) = Len(c) + 1
        /\ \A k \in 1..Len(c) : Append(c, r)[k] = c[k]
        /\ Append(c, r)[Len(c) + 1] = r
    OBVIOUS
  <1>3. AsGiven(a, i, r.id)
    <2>1. CASE AskedIn(a, i) # {}
      <3>1. id = GivenIn(a, i)
        BY <2>1 DEF Parsed
      <3>2. RankIn(a, i) \in DefaultIn(a, i)
        BY DEF DefaultIn
      <3>. QED
        BY <1>1, <3>1, <3>2 DEF AsGiven
    <2>2. CASE AskedIn(a, i) = {}
      <3>1. GivenIn(a, i) = 0
        BY <2>2, Zenon DEF GivenIn
      <3>2. CASE Len(c) = 0
        <4>1. id \in Garbage /\ RankIn(a, i) = 1
          BY <1>1, <2>2, <3>2 DEF Parsed
        <4>2. id \in DefaultIn(a, i) /\ RankIn(a, i) \in DefaultIn(a, i)
          BY <2>2, <4>1 DEF DefaultIn
        <4>. QED
          BY <1>1, <3>1, <4>2 DEF AsGiven
      <3>3. CASE Len(c) # 0
        <4>1. id = 0
          BY <2>2, <3>3 DEF Parsed
        <4>2. RankIn(a, i) \in DefaultIn(a, i)
          BY DEF DefaultIn
        <4>. QED
          BY <1>1, <3>1, <4>1, <4>2 DEF AsGiven
      <3>. QED
        BY <3>2, <3>3
    <2>. QED
      BY <2>1, <2>2
  <1>4. ASSUME NEW p \in FilesOf(a), RankIn(a, p) <= Len(c) + 1
        PROVE  AsGiven(a, p, Append(c, r)[RankIn(a, p)].id)
    <2>1. RankIn(a, p) \in Nat \ {0}
      BY RankType
    <2>2. CASE p = i
      BY <1>1, <1>2, <1>3, <2>2
    <2>3. CASE p # i
      <3>1. p \in Nat /\ i \in Nat
        BY FilesFinite DEF Line
      <3>2. RankIn(a, p) # RankIn(a, i)
        <4>1. p < i => RankIn(a, p) < RankIn(a, i)
          BY <1>1, RanksGrow
        <4>2. i < p => RankIn(a, i) < RankIn(a, p)
          BY <1>1, RanksGrow
        <4>3. p < i \/ i < p
          BY <2>3, <3>1
        <4>. QED
          BY <1>1, <2>1, <4>1, <4>2, <4>3
      <3>3. RankIn(a, p) \in 1..Len(c) /\ RankIn(a, p) <= Len(c)
        BY <1>1, <1>4, <2>1, <3>2
      <3>4. AsGiven(a, p, c[RankIn(a, p)].id)
        BY <3>3, Zenon DEF AllAsGiven
      <3>. QED
        BY <1>2, <3>3, <3>4
    <2>. QED
      BY <2>2, <2>3
  <1>. QED
    BY <1>2, <1>4 DEF AllAsGiven

LEMMA InitNum == Init => NumInv
  <1> SUFFICES ASSUME Init PROVE NumInv
    OBVIOUS
  <1>1. Line(av) /\ at = 1 /\ champions = <<>> /\ set_id \in Garbage
    <2>1. PICK n \in 0..MaxArgs : av \in [1..n -> Tokens]
      BY DEF Init, CommandLines
    <2>2. Len(av) \in Nat
      BY AvFacts DEF Init
    <2>3. n \in Nat
      BY <2>1, LoaderAssumption
    <2>4. Len(av) = n
      BY <2>1, <2>3, SeqDef, LenProperties
    <2>. QED
      BY <2>1, <2>2, <2>4 DEF Init, Line
  <1>2. Len(champions) = 0
    BY <1>1
  <1>3. AllAsGiven(av, champions)
    <2>1. \A p \in FilesOf(av) : ~(RankIn(av, p) <= 0)
      BY <1>1, RankType
    <2>. QED
      BY <1>2, <2>1 DEF AllAsGiven
  <1>4. BeforeIn(av, 1) = {} /\ AskedIn(av, 1) = {}
    <2>1. \A q \in DOMAIN av : ~(q < 1)
      BY <1>1 DEF Line
    <2>2. \A f \in FilesOf(av) : f \in DOMAIN av
      BY DEF FilesOf
    <2>3. BeforeIn(av, 1) = {}
      BY <2>1, <2>2 DEF BeforeIn
    <2>4. AskedIn(av, 1) = {}
      BY <2>1 DEF AskedIn
    <2>. QED
      BY <2>3, <2>4
  <1>5. ASSUME 1 <= Len(av) PROVE ~ValuesOf(av)[1]
    <2>1. Len(av) \in Nat /\ 1 \in 1..Len(av) /\ ~(1 > 1)
      BY <1>1, <1>5 DEF Line
    <2>2. ValuesOf(av)[1] = (1 > 1 /\ ~ValuesOf(av)[1 - 1] /\ TakesValue(av, 1 - 1))
      BY <2>1, ValueFacts, Zenon
    <2>. QED
      BY <2>1, <2>2, Zenon
  <1>6. Parsed(av, at, champions, set_id)
    <2>1. Cardinality(BeforeIn(av, 1)) = 0
      BY <1>4, FS_EmptySet
    <2>. QED
      BY <1>1, <1>2, <1>4, <1>5, <2>1 DEF Parsed
  <1>. QED
    BY <1>3, <1>6 DEF NumInv

LEMMA LineFacts ==
    ASSUME TypeOK
    PROVE  /\ Line(av)
           /\ champions \in Seq([id : Int, size : 0..MEM_SIZE])
  <1>1. PICK n \in 0..MaxArgs : av \in [1..n -> Tokens]
    BY DEF TypeOK, CommandLines
  <1>2. Len(av) \in Nat
    BY AvFacts DEF TypeOK
  <1>3. n \in Nat
    BY <1>1, LoaderAssumption
  <1>4. Len(av) = n
    BY <1>1, <1>3, SeqDef, LenProperties
  <1>5. champions \in Seq([id : Int, size : 0..MEM_SIZE])
    BY DEF TypeOK
  <1>. QED
    BY <1>1, <1>2, <1>4, <1>5 DEF Line

(* A step of parse_args keeps it; nothing is numbered afterwards. *)
LEMMA NextNum == LoaderInv /\ NumInv /\ [Next]_lvars => NumInv'
  <1> SUFFICES ASSUME LoaderInv, NumInv, [Next]_lvars PROVE NumInv'
    OBVIOUS
  <1>1. /\ Line(av) /\ AllAsGiven(av, champions) /\ at \in 1..(Len(av) + 1)
        /\ champions \in Seq([id : Int, size : 0..MEM_SIZE])
    BY LineFacts DEF LoaderInv, TypeOK, NumInv
  <1>2. More => at \in 1..Len(av) /\ Parsed(av, at, champions, set_id)
    BY <1>1 DEF More, NumInv, Line
  <1>3. ASSUME av' = av, champions' = champions,
               pc' = "args" => Parsed(av, at', champions, set_id')
        PROVE  NumInv'
    BY <1>1, <1>3 DEF NumInv
  <1>4. ASSUME ReadDump PROVE NumInv'
    <2>1. /\ More /\ av[at].kind = "-dump" /\ at + 1 <= Len(av) /\ at' = at + 2
          /\ av' = av /\ champions' = champions /\ set_id' = set_id
      BY <1>4 DEF ReadDump, HasValue, Kind
    <2>2. Parsed(av, at + 2, champions, set_id)
      BY <1>1, <1>2, <2>1, AfterDump
    <2>. QED
      BY <1>3, <2>1, <2>2
  <1>5. ASSUME ReadNumber PROVE NumInv'
    <2>1. /\ More /\ av[at].kind = "-n" /\ at + 1 <= Len(av) /\ at' = at + 2
          /\ av' = av /\ champions' = champions /\ set_id' = av[at + 1].value
      BY <1>5 DEF ReadNumber, HasValue, Kind
    <2>2. Parsed(av, at + 2, champions, av[at + 1].value)
      BY <1>1, <1>2, <2>1, AfterNumber
    <2>. QED
      BY <1>3, <2>1, <2>2
  <1>6. ASSUME IgnoreWord PROVE NumInv'
    <2>1. /\ More /\ av[at].kind = "word" /\ at' = at + 1
          /\ av' = av /\ champions' = champions /\ set_id' = set_id
      BY <1>6 DEF IgnoreWord, Kind
    <2>2. Parsed(av, at + 1, champions, set_id)
      BY <1>1, <1>2, <2>1, AfterWord
    <2>. QED
      BY <1>3, <2>1, <2>2
  <1>7. ASSUME AddChampion \/ AddOneTooMany PROVE NumInv'
    <2> DEFINE r == Numbered(set_id)
    <2>1. /\ More /\ av[at].kind = "cor" /\ av' = av
          /\ champions' = Append(champions, r)
      BY <1>7 DEF AddChampion, AddOneTooMany, Kind
    <2>2. r.id = IF set_id # 0 THEN set_id ELSE Len(champions) + 1
      BY DEF Numbered, Count
    <2>3. r \in [id : Int, size : 0..MEM_SIZE]
      <3>1. Count \in Nat
        BY SlotFacts DEF LoaderInv
      <3>2. set_id \in Int /\ av[at].size \in 0..MEM_SIZE
        BY <1>2, <2>1, AvFacts DEF LoaderInv, TypeOK
      <3>. QED
        BY <3>1, <3>2 DEF Numbered
    <2>. HIDE DEF r
    <2>4. AllAsGiven(av, Append(champions, r))
      BY <1>1, <1>2, <2>1, <2>2, <2>3, NextAsGiven
    <2>5. Parsed(av, at + 1, Append(champions, r), 0)
      BY <1>1, <1>2, <2>1, <2>3, AfterFile
    <2>6. pc' = "args" => at' = at + 1 /\ set_id' = 0
      BY <1>7 DEF AddChampion, AddOneTooMany, AfterUse
    <2>. QED
      BY <2>1, <2>4, <2>5, <2>6 DEF NumInv
  <1>8. ASSUME Refuse \/ EndArgs \/ LoadSlot \/ LoadPastTheEnd \/ EndLoad
               \/ BuildProcesses \/ FirstTurn
        PROVE  NumInv'
    <2>1. av' = av /\ champions' = champions /\ pc' # "args"
      <3>1. CASE Refuse \/ EndArgs
        BY <3>1 DEF Refuse, EndArgs
      <3>2. CASE LoadSlot \/ LoadPastTheEnd \/ EndLoad
        BY <3>2 DEF LoadSlot, LoadPastTheEnd, EndLoad
      <3>3. CASE BuildProcesses \/ FirstTurn
        BY <3>3 DEF BuildProcesses, FirstTurn
      <3>. QED
        BY <1>8, <3>1, <3>2, <3>3
    <2>. QED
      BY <1>3, <2>1
  <1>9. ASSUME UNCHANGED lvars PROVE NumInv'
    BY <1>9 DEF NumInv, lvars
  <1>. QED
    BY <1>4, <1>5, <1>6, <1>7, <1>8, <1>9 DEF Next

(***************************************************************************)
(* add_champion in parse_args: each champion gets the number of the last -n *)
(* before it and behind the champion before it, and its position if there   *)
(* is none, on every command line and with any number of slots.             *)
(***************************************************************************)
THEOREM NumbersAreAsGiven == Spec => []NumbersAsGiven
  <1>1. LoaderInv /\ NumInv /\ [Next]_lvars => NumInv'
    BY NextNum
  <1>2. NumInv => NumbersAsGiven
    BY OfAnyLine DEF NumInv
  <1>. QED
    BY <1>1, <1>2, InitNum, Invariance, PTL DEF Spec

(* When all arguments are read, the slots hold all the files. *)
Complete ==
    pc \in {"load", "build", "ready", "playing"} => Len(champions) = Cardinality(FilesOf(av))

LEMMA NextComplete == LoaderInv /\ NumInv /\ Complete /\ [Next]_lvars => Complete'
  <1> SUFFICES ASSUME LoaderInv, NumInv, Complete, [Next]_lvars PROVE Complete'
    OBVIOUS
  <1>1. Line(av) /\ at \in 1..(Len(av) + 1)
    BY LineFacts DEF LoaderInv, TypeOK
  <1>2. ASSUME EndArgs PROVE Complete'
    <2>1. /\ pc = "args" /\ at > Len(av)
          /\ av' = av /\ champions' = champions
      BY <1>2 DEF EndArgs
    <2>2. Len(champions) = Cardinality(BeforeIn(av, at))
      BY <2>1 DEF NumInv, Parsed
    <2>3. \A f \in FilesOf(av) : f < at
      BY <1>1, <2>1, FilesFinite DEF Line
    <2>4. BeforeIn(av, at) = FilesOf(av)
      BY <2>3 DEF BeforeIn
    <2>. QED
      BY <2>1, <2>2, <2>4 DEF Complete
  <1>3. ASSUME ReadDump \/ ReadNumber \/ Refuse \/ IgnoreWord \/ AddChampion \/ AddOneTooMany
        PROVE  Complete'
    <2>1. pc' \in {"args", "exit", "corrupt"}
      BY <1>3 DEF ReadDump, ReadNumber, Refuse, IgnoreWord, AddChampion, AddOneTooMany, More
    <2>. QED
      BY <2>1 DEF Complete
  <1>4. ASSUME LoadSlot \/ LoadPastTheEnd \/ EndLoad \/ BuildProcesses \/ FirstTurn
        PROVE  Complete'
    <2>1. av' = av /\ champions' = champions /\ pc \in {"load", "build", "ready"}
      BY <1>4 DEF LoadSlot, LoadPastTheEnd, EndLoad, BuildProcesses, FirstTurn
    <2>. QED
      BY <2>1 DEF Complete
  <1>5. ASSUME UNCHANGED lvars PROVE Complete'
    BY <1>5 DEF Complete, lvars
  <1>. QED
    BY <1>2, <1>3, <1>4, <1>5 DEF Next

(***************************************************************************)
(* add_champion does not look at the slots, on any command line: but a game *)
(* that comes to be set up has all the champions that are named, none       *)
(* twice, and no more than there are slots.                                 *)
(***************************************************************************)
THEOREM ChampionsAreAllInSlots == Spec => []AllInSlots
  <1>1. Init => Complete
    BY DEF Init, Complete
  <1>2. LoaderInv /\ NumInv /\ [Next]_lvars => NumInv'
    BY NextNum
  <1>3. LoaderInv /\ NumInv /\ Complete /\ [Next]_lvars => Complete'
    BY NextComplete
  <1>4. LoaderInv /\ Complete => AllInSlots
    BY FilesOfLine DEF AllInSlots, Complete, LoaderInv, Slots, SetUp, Count
  <1>. QED
    BY <1>1, <1>2, <1>3, <1>4, InitNum, Invariance, PTL DEF Spec
=============================================================================
