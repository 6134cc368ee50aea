---------------------------- MODULE MachineProofs ----------------------------
(***************************************************************************)
(* Theorems about Machine: whatever the programs, the machine plays the     *)
(* game of Game, so that what is proved of the scheduler holds of it; who   *)
(* can touch a champion's registers, and who is stuck; and the process a    *)
(* champion begins with executes its program in order and never reads       *)
(* outside of hex_memory, whatever the others do.                           *)
(***************************************************************************)
EXTENDS Machine, GameProofs, SequenceTheorems

-----------------------------------------------------------------------------
(* The machine plays the game *)

(* The opcode that is fetched is one Game has a turn for. *)
LEMMA FetchedIsMnemonic ==
    ASSUME Fetched
    PROVE  Op \in Mnemonics
  <1>1. Opcode \in DOMAIN OpTab
    BY DEF Fetched, OpTab
  <1>. QED
    BY <1>1, MachineAssumption DEF Op

(* Each step of the machine is one of the game, or none where it is stopped. *)
LEMMA MachineStepIsGameStep ==
    ASSUME [MachineNext]_<<vars, machineVars>>
    PROVE  [Next]_vars
  <1>1. CASE Between
    BY <1>1 DEF Between, Next
  <1>2. CASE Reset
    BY <1>2 DEF Reset, Next
  <1>3. CASE Wait \/ MeetInvalid \/ MeetZero
    BY <1>3 DEF Wait, MeetInvalid, MeetZero, Next, Turn
  <1>4. CASE DoLive
    BY <1>4 DEF DoLive, Next, Turn
  <1>5. CASE DoFork
    <2>1. Op \in Forks \cap Mnemonics /\ ExecuteFork(Op)
      BY <1>5, FetchedIsMnemonic DEF DoFork, Decoded
    <2>. QED
      BY <2>1 DEF Next, Turn
  <1>6. ASSUME NEW stray \in Stray, DoOther(stray) PROVE Next
    <2>1. Op \in Mnemonics \ (Forks \cup {"live"}) /\ ExecuteOther(Op)
      BY <1>6, FetchedIsMnemonic DEF DoOther, Decoded
    <2>. QED
      BY <2>1 DEF Next, Turn
  <1>7. ASSUME NEW array \in Arrays, Crash(array) PROVE UNCHANGED vars
    BY <1>7 DEF Crash
  <1>8. CASE UNCHANGED <<vars, machineVars>>
    BY <1>8
  <1>. QED
    BY <1>1, <1>2, <1>3, <1>4, <1>5, <1>6, <1>7, <1>8 DEF MachineNext

(***************************************************************************)
(* The machine implements the game, for any programs on any memory.         *)
(***************************************************************************)
THEOREM MachinePlaysGame == MachineSpec => Spec
  <1>1. MachineInit => Init
    BY DEF MachineInit
  <1>2. [MachineNext]_<<vars, machineVars>> => [Next]_vars
    BY MachineStepIsGameStep
  <1>. QED
    BY <1>1, <1>2, PTL DEF MachineSpec, Spec

(***************************************************************************)
(* So every search of the machine returns, its forks rewire only their own  *)
(* player's processes, and what they cut off or push behind the round's end *)
(* gets no turn any more.                                                   *)
(***************************************************************************)
THEOREM MachineScheduling ==
    MachineSpec => []SearchTerminates /\ ForkRewiresOwn /\ LostForGood /\ StarvedForGood
  <1>1. DistinctNumbers
    BY MachineAssumption
  <1>2. Spec => []SearchTerminates /\ ForkRewiresOwn /\ LostForGood /\ StarvedForGood
    BY <1>1, SearchesEnd, ForksKeepToTheirOwn, LostIsForever, StarvedIsForever
  <1>. QED
    BY <1>2, MachinePlaysGame
-----------------------------------------------------------------------------
(* Type correctness *)

IsFields(f) == 0..CARRY \subseteq DOMAIN f /\ \A r \in DOMAIN f : f[r] \in Word

StateTypes ==
    /\ program \in [Loaded -> Programs]
    /\ hex_memory \in [Cells -> {Blank} \cup 0..255]
    /\ index \in [Pool -> Int] /\ counter \in [Pool -> Int]
    /\ fields = [s \in Loaded |-> fields[s]]
    /\ \A s \in Loaded : IsFields(fields[s])
    /\ memory \in [Cells -> Word]
    /\ stopped \in Arrays \cup {"none"}
    /\ done \in [Pool -> Nat]

MachineInv == SchedInv /\ StateTypes

(* What is stored in an int is an int. *)
LEMMA WrapType ==
    ASSUME NEW v \in Int
    PROVE  Wrap(v) \in Word
  <1> DEFINE half == 2^(IntBits - 1)
  <1>1. half \in Nat \ {0} /\ 2^IntBits = 2 * half
    BY WordAssumption
  <1>2. \A h \in Nat \ {0} : ((v + h) % (2 * h)) - h \in -h..(h - 1)
    <2> TAKE h \in Nat \ {0}
    <2>1. 2 * h \in Nat \ {0} /\ v + h \in Int
      OBVIOUS
    <2>2. (v + h) % (2 * h) \in 0..(2 * h - 1)
      BY <2>1
    <2>. QED
      BY <2>2
  <1>. QED
    BY <1>1, <1>2 DEF Wrap, Word

LEMMA WordFacts == Word \subseteq Int /\ 0 \in Word /\ Fill \in Word
  <1>1. \A h \in Nat \ {0} : -h..(h - 1) \subseteq Int /\ 0 \in -h..(h - 1)
    OBVIOUS
  <1>. QED
    BY <1>1, WordAssumption, MachineAssumption DEF Word

LEMMA CounterFacts == COUNTER \in 0..CARRY /\ CARRY \in 0..CARRY /\ CARRY \in Nat
  BY MachineAssumption DEF COUNTER, CARRY

LEMMA RemType ==
    ASSUME NEW v \in Int, NEW m \in Nat \ {0}
    PROVE  Rem(v, m) \in Int
  BY DEF Rem

(* An address an operation computes from the champion's counter. *)
LEMMA AddressType ==
    ASSUME NEW c \in Int, NEW v \in Int
    PROVE  c + Rem(v, IDX_MOD) \in Int
  <1>1. IDX_MOD \in Nat \ {0}
    BY MachineAssumption
  <1>2. Rem(v, IDX_MOD) \in Int
    BY <1>1, RemType
  <1>. QED
    BY <1>2

(* A register that is written, and the carry, are words among the fields. *)
LEMMA PutType ==
    ASSUME NEW f, IsFields(f), NEW r, NEW v \in Int
    PROVE  IsFields(Put(f, r, v)) /\ IsFields(PutWithCarry(f, r, v))
  <1>1. ASSUME NEW g, IsFields(g), NEW q, NEW w \in Int PROVE IsFields(Put(g, q, w))
    <2>1. Wrap(w) \in Word
      BY WrapType
    <2>. QED
      BY <1>1, <2>1 DEF IsFields, Put
  <1>2. IsFields(Put(f, r, v))
    BY <1>1
  <1>3. (IF Wrap(v) = 0 THEN 1 ELSE 0) \in Int
    OBVIOUS
  <1>. QED
    BY <1>1, <1>2, <1>3 DEF PutWithCarry

LEMMA FieldType ==
    ASSUME NEW f, IsFields(f), NEW r
    PROVE  Field(f, r) \in Word /\ Field(f, r) \in Int
  BY WordFacts DEF Field, IsFields

(* The bytes and the operands that are read are numbers. *)
LEMMA ByteType ==
    ASSUME StateTypes, NEW a
    PROVE  Byte(hex_memory, a) \in 0..255
  BY DEF StateTypes, Byte, Cell, Blank

LEMMA GetValueType ==
    ASSUME StateTypes, NEW size, NEW a
    PROVE  GetValue(hex_memory, size, a) \in Int
  <1> DEFINE byte(j) == IF j < size THEN Byte(hex_memory, a + j) ELSE 0
  <1>1. byte(0) \in Int /\ byte(1) \in Int /\ byte(2) \in Int /\ byte(3) \in Int
    BY ByteType
  <1>. QED
    BY <1>1 DEF GetValue

LEMMA WidthType ==
    ASSUME NEW mem, NEW type, NEW a
    PROVE  Width(mem, type, a) \in {0, 1, 2, 4}
  BY DEF Width

LEMMA MoreByAByte ==
    ASSUME NEW u \in Int, NEW v \in 0..255
    PROVE  u + v \in Int
  OBVIOUS

LEMMA OperandsType ==
    ASSUME StateTypes, NEW a \in Int, NEW op
    PROVE  LET x == BuildOperands(hex_memory, a, op, Fill)
           IN  x.end \in Int /\ \A j \in 1..NbrArgs(op) : x.args[j] \in Int
  <1>1. CASE NbrArgs(op) = 1
    <2>1. Byte(hex_memory, LastOfOne(a)) \in 0..255
      BY ByteType
    <2>2. GetValue(hex_memory, 3, a) \in Int
      BY GetValueType
    <2>3. GetValue(hex_memory, 3, a) + Byte(hex_memory, LastOfOne(a)) \in Int
      BY <2>1, <2>2, MoreByAByte
    <2> DEFINE v == GetValue(hex_memory, 3, a) + Byte(hex_memory, LastOfOne(a))
    <2>4. BuildOperands(hex_memory, a, op, Fill)
            = [args |-> <<v>>, last |-> LastOfOne(a), end |-> a + 4]
      BY <1>1 DEF BuildOperands
    <2>5. v \in Int
      BY <2>3
    <2>. HIDE DEF v
    <2>. QED
      BY <1>1, <2>4, <2>5
  <1>2. CASE NbrArgs(op) # 1
    <2> DEFINE n == NbrArgs(op)
               type == [j \in 1..3 |-> ArgType(Byte(hex_memory, a), j)]
               second == a + 1 + Width(hex_memory, type[1], a + 1)
               third == second + Width(hex_memory, type[2], second)
               fourth == third + Width(hex_memory, type[3], third)
               start == <<a + 1, second, third, fourth>>
    <2>1. second \in Int /\ third \in Int /\ fourth \in Int
      BY WidthType
    <2>2. n \in {2, 3}
      BY <1>2 DEF NbrArgs
    <2>3. start[n + 1] \in Int
      BY <2>1, <2>2
    <2>4. \A j \in 1..n : (IF type[j] = "none" THEN Fill
                           ELSE GetValue(hex_memory, start[j + 1] - start[j], start[j])) \in Int
      BY GetValueType, WordFacts
    <2>5. BuildOperands(hex_memory, a, op, Fill)
            = [args |-> [j \in 1..n |-> IF type[j] = "none" THEN Fill
                                        ELSE GetValue(hex_memory, start[j + 1] - start[j], start[j])],
               last |-> start[n + 1] - 1,
               end  |-> start[n + 1]]
      BY <1>2 DEF BuildOperands
    <2>. HIDE DEF type, start, n
    <2>. QED
      BY <2>3, <2>4, <2>5 DEF n
  <1>. QED
    BY <1>1, <1>2
(* The champion whose code and registers a process uses: its own, or, for a *)
(* clone, the head's.                                                       *)
LEMMA ChampionOf ==
    ASSUME Owners, RingTypeOK, NEW p \in Procs
    PROVE  /\ FindChampion(player[p]) \in Loaded
           /\ p <= N => FindChampion(player[p]) = p
           /\ p > N => FindChampion(player[p]) = 1
  <1>0. N \in Nat /\ 1 \in Loaded /\ p \in Nat /\ p >= 1 /\ Loaded = 1..N
    BY ConstantFacts, SMT DEF Loaded, Procs, RingTypeOK
  <1>1. ASSUME NEW s \in Loaded PROVE FindChampion(Id[s]) = s
    <2>1. \A t \in Loaded : Id[t] = Id[s] => t = s
      BY MachineAssumption DEF DistinctNumbers, Loaded
    <2>2. \A t \in 1..(s - 1) : t \in Loaded /\ t # s
      BY <1>0, <1>1, SMT
    <2>. QED
      BY <2>1, <2>2 DEF FindChampion
  <1>2. CASE p <= N
    <2>1. p \in Loaded /\ player[p] = Id[p]
      BY <1>0, <1>2 DEF Owners
    <2>. QED
      BY <1>0, <1>1, <1>2, <2>1
  <1>3. CASE p > N
    <2>1. player[p] = Id[1]
      BY <1>0, <1>3 DEF Owners, HeadProc
    <2>. QED
      BY <1>0, <1>1, <1>3, <2>1
  <1>. QED
    BY <1>0, <1>2, <1>3

LEMMA SizeType ==
    ASSUME StateTypes, Owners, RingTypeOK, NEW p \in Procs
    PROVE  SizeOf(p) \in Nat \ {0}
  <1>1. program[FindChampion(player[p])] \in Programs
    BY ChampionOf DEF StateTypes
  <1>2. \A c \in Programs : Len(Code(c)) \in 1..Share
    BY MachineAssumption
  <1>3. Share \in Int
    BY MachineAssumption, ConstantFacts DEF Share
  <1>. QED
    BY <1>1, <1>2, <1>3 DEF SizeOf

LEMMA InstructionIndexType ==
    ASSUME StateTypes, Owners, RingTypeOK, NEW p \in Procs
    PROVE  /\ InstructionIndex(p) \in Int
           /\ ~(InstructionIndex(p) >= SizeOf(p))
  <1>1. counter[p] \in Int
    BY RingAssumption, SMT DEF StateTypes, RingTypeOK, Procs, Pool
  <1>2. SizeOf(p) \in Nat \ {0}
    BY SizeType
  <1>. QED
    BY <1>1, <1>2 DEF InstructionIndex

LEMMA InitTypes == MachineInit => MachineInv
  <1> SUFFICES ASSUME MachineInit PROVE MachineInv
    OBVIOUS
  <1>1. SchedInv
    BY InitSched DEF MachineInit
  <1>2. program \in [Loaded -> Programs] /\ 1 \in Loaded
    BY ConstantFacts, SMT DEF MachineInit, Loaded
  <1>3. Share \in Nat \ {0}
    <2>1. Share \in Int /\ Len(Code(program[1])) \in 1..Share
      BY <1>2, MachineAssumption, ConstantFacts DEF Share
    <2>. QED
      BY <2>1
  <1>4. hex_memory \in [Cells -> {Blank} \cup 0..255]
    <2> DEFINE codes == [s \in Loaded |-> Code(program[s])]
    <2>1. hex_memory = Image(codes)
      BY DEF MachineInit
    <2>2. ASSUME NEW s \in Loaded, NEW o \in Nat, o < Len(codes[s])
          PROVE  codes[s][o + 1] \in 0..255
      <3>1. codes[s] \in Seq(0..255)
        BY <1>2, MachineAssumption
      <3>2. o + 1 \in 1..Len(codes[s])
        BY <2>2, <3>1, LenProperties
      <3>. HIDE DEF codes
      <3>. QED
        BY <3>1, <3>2, ElementOfSeq
    <2>3. \A a \in Cells : a % Share \in Nat
      BY <1>3, MachineAssumption DEF Cells
    <2>. HIDE DEF codes
    <2>. QED
      BY <2>1, <2>2, <2>3 DEF Image
  <1>5. index \in [Pool -> Int] /\ counter \in [Pool -> Int] /\ done \in [Pool -> Nat]
    BY <1>3, RingAssumption, SMT DEF MachineInit, Pool
  <1>6. /\ fields = [s \in Loaded |-> fields[s]]
        /\ \A s \in Loaded : IsFields(fields[s])
    BY MachineAssumption, WordFacts DEF MachineInit, IsFields
  <1>7. memory \in [Cells -> Word]
    BY WordFacts DEF MachineInit
  <1>. QED
    BY <1>1, <1>2, <1>4, <1>5, <1>6, <1>7 DEF MachineInv, StateTypes, MachineInit

(***************************************************************************)
(* An operation changes the fields of one champion, that of the process, or *)
(* none, and all it stores is a word.                                       *)
(***************************************************************************)
LEMMA ResultType ==
    ASSUME NEW op \in {"add", "sub", "and", "or", "xor"}, NEW v \in Int, NEW w \in Int
    PROVE  Result(op, v, w) \in Int
  <1>1. \A bs \in SUBSET (0..(IntBits - 1)) : OfBits(bs) \in Int
    BY WordAssumption
  <1>2. Bits(v) \in SUBSET (0..(IntBits - 1)) /\ Bits(w) \in SUBSET (0..(IntBits - 1))
    BY DEF Bits
  <1>3. /\ OfBits(Bits(v) \cap Bits(w)) \in Int /\ OfBits(Bits(v) \cup Bits(w)) \in Int
        /\ OfBits((Bits(v) \cup Bits(w)) \ (Bits(v) \cap Bits(w))) \in Int
    BY <1>1, <1>2
  <1>4. v + w \in Int /\ v - w \in Int
    OBVIOUS
  <1>. QED
    BY <1>3, <1>4, Zenon DEF Result

LEMMA EffectType ==
    ASSUME StateTypes, Champion \in Loaded, Decoded,
           NEW stray \in Stray, Effect(Operands.args, stray)
    PROVE  /\ \E f : IsFields(f) /\ fields' = [fields EXCEPT ![Champion] = f]
           /\ memory' \in [Cells -> Word]
  <1> DEFINE x == Operands.args
             Changed == \E f : IsFields(f) /\ fields' = [fields EXCEPT ![Champion] = f]
  <1>0. F[COUNTER] \in Int
    BY CounterFacts, WordFacts DEF StateTypes, F, IsFields
  <1>1. IsFields(F) /\ fields = [fields EXCEPT ![Champion] = F]
    BY DEF StateTypes, F
  <1>2. memory \in [Cells -> Word] /\ UNCHANGED fields => Changed
    BY <1>1 DEF StateTypes
  <1>3. \A j \in 1..NbrArgs(Op) : x[j] \in Int
    <2>1. Here + 1 \in Int
      BY MachineAssumption DEF Decoded, Fetched, Cells
    <2>. QED
      BY <2>1, OperandsType DEF Operands
  <1>4. \A j : Reg(x, j) \in Int /\ Reg(x, j) \in Word
    BY <1>1, FieldType DEF Reg
  <1>5. IDX_MOD \in Nat \ {0}
    BY MachineAssumption
  <1>. HIDE DEF x
  <1>6. CASE Calculate(x)
    <2>1. Result(Op, Reg(x, 1), Reg(x, 2)) \in Int
      BY <1>4, <1>6, ResultType DEF Calculate
    <2>. QED
      BY <1>1, <1>2, <1>6, <2>1, PutType DEF Calculate, Becomes, StateTypes
  <1>7. CASE Ld(x) \/ Lld(x)
    <2>1. x[1] \in Int
      BY <1>3, <1>7 DEF Ld, Lld, NbrArgs
    <2>2. F[COUNTER] + Rem(x[1], IDX_MOD) \in Int
      BY <1>0, <2>1, AddressType
    <2>. QED
      BY <1>1, <1>7, <2>1, <2>2, PutType DEF Ld, Lld, Becomes, StateTypes
  <1>8. CASE LoadIndirect(x, stray)
    <2> DEFINE value == IF LoadAddress(Op, x) \in Cells THEN memory[LoadAddress(Op, x)] ELSE stray
    <2>1. value \in Int
      BY MachineAssumption, WordFacts DEF StateTypes
    <2>2. Becomes(PutWithCarry(F, x[3], value)) /\ UNCHANGED memory
      BY <1>8 DEF LoadIndirect
    <2>. HIDE DEF value
    <2>. QED
      BY <1>1, <2>1, <2>2, PutType DEF Becomes, StateTypes
  <1>9. CASE StRefused(x)
    BY <1>2, <1>9 DEF StRefused, StateTypes
  <1>10. CASE StRegister(x)
    BY <1>1, <1>4, <1>10, PutType DEF StRegister, Becomes, StateTypes
  <1>11. CASE StMemory(x)
    BY <1>2, <1>4, <1>11 DEF StMemory, StateTypes
  <1>12. CASE Sti(x)
    <2>1. x[2] + x[3] \in Int
      BY <1>3, <1>12 DEF Sti, NbrArgs
    <2>2. F[COUNTER] + Rem(x[2] + x[3], IDX_MOD) \in Int
      BY <1>0, <2>1, AddressType
    <2>. QED
      BY <1>1, <1>12, <2>2, PutType DEF Sti, Becomes, StateTypes
  <1>13. CASE Zjmp(x)
    <2>1. F[COUNTER] + x[1] \in Int
      BY <1>0, <1>3, <1>13 DEF Zjmp, NbrArgs
    <2>2. Rem(F[COUNTER] + x[1], IDX_MOD) \in Int
      BY <1>5, <2>1, RemType
    <2>3. F[CARRY] = 1 => Becomes(Put(F, COUNTER, Rem(F[COUNTER] + x[1], IDX_MOD)))
      BY <1>13 DEF Zjmp
    <2>4. F[CARRY] # 1 => UNCHANGED fields
      BY <1>13 DEF Zjmp
    <2>5. UNCHANGED memory
      BY <1>13 DEF Zjmp
    <2>. QED
      BY <1>1, <1>2, <2>2, <2>3, <2>4, <2>5, PutType DEF Becomes, StateTypes
  <1>14. CASE Aff
    BY <1>2, <1>14 DEF Aff, StateTypes
  <1>. QED
    BY <1>6, <1>7, <1>8, <1>9, <1>10, <1>11, <1>12, <1>13, <1>14 DEF Effect, x
(* What the turns that execute something do to a process's counter. *)
LEMMA CounterMoves ==
    ASSUME StateTypes, RingTypeOK, current \in Procs, Decoded
    PROVE  Behind \in Int
  <1>1. Here + 1 \in Int
    BY MachineAssumption DEF Decoded, Fetched, Cells
  <1>2. Operands.end \in Int
    BY <1>1, OperandsType DEF Operands
  <1>3. index[current] \in Int
    BY RingAssumption, SMT DEF StateTypes, RingTypeOK, Procs, Pool
  <1>. QED
    BY <1>2, <1>3 DEF Behind

LEMMA StateStep ==
    MachineInv /\ [MachineNext]_<<vars, machineVars>> => MachineInv'
  <1> SUFFICES ASSUME MachineInv, [MachineNext]_<<vars, machineVars>>
               PROVE  MachineInv'
    OBVIOUS
  <1>1. SchedInv'
    BY MachineStepIsGameStep, SchedStep, MachineAssumption DEF MachineInv
  <1>2. /\ StateTypes /\ Owners /\ RingTypeOK /\ current \in Procs
        /\ current \in Pool /\ 1 \in Procs
    <2>1. StateTypes /\ Owners /\ RingTypeOK /\ current \in Procs
      BY DEF MachineInv, SchedInv, TypeInv, TypeOK
    <2>2. current \in Pool
      BY <2>1, RingAssumption, SMT DEF RingTypeOK, Procs, Pool
    <2>3. 1 \in Procs
      BY <2>1, HeadReachable DEF HeadProc
    <2>. QED
      BY <2>1, <2>2, <2>3
  <1>3. Champion \in Loaded
    BY <1>2, ChampionOf DEF Champion
  <1>4. CASE Between
    BY <1>1, <1>2, <1>4
       DEF Between, StateTypes, machineVars, codeVars, stateVars, MachineInv, IsFields
  <1>5. CASE Reset
    <2>1. \A s \in Loaded : IsFields(Put(fields[s], COUNTER, 0))
      BY <1>2, PutType DEF StateTypes
    <2>2. fields' = [s \in Loaded |-> Put(fields[s], COUNTER, 0)]
      BY <1>5 DEF Reset
    <2>3. fields' = [s \in Loaded |-> fields'[s]] /\ \A s \in Loaded : IsFields(fields'[s])
      BY <2>1, <2>2
    <2>. QED
      BY <1>1, <1>2, <1>5, <2>3 DEF Reset, StateTypes, codeVars, MachineInv, IsFields
  <1>6. CASE Wait \/ MeetInvalid \/ MeetZero
    <2>1. Stay /\ InstructionIndex(current) \in Int
      BY <1>2, <1>6, InstructionIndexType DEF Wait, MeetInvalid, MeetZero
    <2>. QED
      BY <1>1, <1>2, <2>1 DEF Stay, StateTypes, codeVars, MachineInv, IsFields
  <1>7. CASE DoLive
    <2>1. Behind \in Int
      BY <1>2, <1>7, CounterMoves DEF DoLive
    <2>. QED
      BY <1>1, <1>2, <1>7, <2>1
         DEF DoLive, Executed, StateTypes, codeVars, MachineInv, IsFields
  <1>8. CASE DoFork
    <2> DEFINE sum == F[COUNTER] + Operands.args[1]
               address == IF Op = "fork" THEN Rem(sum, IDX_MOD) ELSE sum
               start == IF Op = "fork" THEN counter[HeadProc] ELSE address
    <2>1. Behind \in Int
      BY <1>2, <1>8, CounterMoves DEF DoFork
    <2>2. sum \in Int
      <3>1. F[COUNTER] \in Int
        BY <1>2, <1>3, CounterFacts, WordFacts DEF StateTypes, F, IsFields
      <3>2. Here + 1 \in Int /\ 1 \in 1..NbrArgs(Op)
        BY <1>8, MachineAssumption DEF DoFork, Decoded, Fetched, Cells, NbrArgs, Forks
      <3>3. Operands.args[1] \in Int
        BY <1>2, <3>2, OperandsType DEF Operands
      <3>. QED
        BY <3>1, <3>3
    <2>3. address \in Int /\ start \in Int
      <3>1. address \in Int
        BY <2>2, RemType, MachineAssumption
      <3>2. HeadProc \in Pool
        BY RingAssumption, SMT DEF HeadProc, Pool
      <3>3. counter[HeadProc] \in Int
        BY <1>2, <3>2 DEF StateTypes
      <3>. HIDE DEF address
      <3>. QED
        BY <3>1, <3>3
    <2>4. /\ index' = [index EXCEPT ![nprocs + 1] = address]
          /\ counter' = [counter EXCEPT ![nprocs + 1] = start, ![current] = Behind]
          /\ UNCHANGED <<fields, memory>> /\ Executed
      BY <1>8 DEF DoFork
    <2>. HIDE DEF address, start
    <2>5. index' \in [Pool -> Int] /\ counter' \in [Pool -> Int]
      BY <1>2, <2>1, <2>3, <2>4 DEF StateTypes
    <2>. QED
      BY <1>1, <1>2, <2>4, <2>5
         DEF Executed, StateTypes, codeVars, MachineInv, IsFields
  <1>9. ASSUME NEW stray \in Stray, DoOther(stray) PROVE MachineInv'
    <2>1. Behind \in Int
      BY <1>2, <1>9, CounterMoves DEF DoOther
    <2>2. /\ \E f : IsFields(f) /\ fields' = [fields EXCEPT ![Champion] = f]
          /\ memory' \in [Cells -> Word]
      BY <1>2, <1>3, <1>9, EffectType DEF DoOther
    <2>3. fields' = [s \in Loaded |-> fields'[s]] /\ \A s \in Loaded : IsFields(fields'[s])
      BY <1>2, <2>2 DEF StateTypes
    <2>4. counter' = [counter EXCEPT ![current] = Behind] /\ UNCHANGED index /\ Executed
      BY <1>9 DEF DoOther
    <2>5. index' \in [Pool -> Int] /\ counter' \in [Pool -> Int]
      BY <1>2, <2>1, <2>4 DEF StateTypes
    <2>6. /\ UNCHANGED <<program, hex_memory, stopped>>
          /\ done' = [done EXCEPT ![current] = done[current] + 1]
      BY <2>4 DEF Executed, codeVars
    <2>7. done' \in [Pool -> Nat]
      BY <1>2, <2>6 DEF StateTypes
    <2>. QED
      BY <1>1, <1>2, <2>2, <2>3, <2>5, <2>6, <2>7 DEF StateTypes, MachineInv, IsFields
  <1>10. ASSUME NEW array \in Arrays, Crash(array) PROVE MachineInv'
    BY <1>1, <1>2, <1>10 DEF Crash, StateTypes, codeVars, stateVars, MachineInv, IsFields
  <1>11. CASE UNCHANGED <<vars, machineVars>>
    BY <1>1, <1>2, <1>11 DEF StateTypes, machineVars, codeVars, stateVars, MachineInv, IsFields
  <1>. QED
    BY <1>4, <1>5, <1>6, <1>7, <1>8, <1>9, <1>10, <1>11 DEF MachineNext

(***************************************************************************)
(* Every reachable state of the machine is well typed, for any programs of  *)
(* bytes: what an instruction leaves in a register, in the memory or in a   *)
(* counter is an int, also where it indexes past the registers.             *)
(***************************************************************************)
THEOREM MachineTypeCorrect == MachineSpec => []MachineTypeOK
  <1>1. MachineInv => MachineTypeOK
    <2>1. StateTypes => \A s \in Loaded : {COUNTER, CARRY} \subseteq DOMAIN fields[s]
      BY CounterFacts DEF StateTypes, IsFields
    <2>. QED
      BY <2>1 DEF MachineInv, StateTypes, MachineTypeOK
  <1>. QED
    BY InitTypes, StateStep, <1>1, PTL DEF MachineSpec
-----------------------------------------------------------------------------
(* Whose registers a turn may touch *)

(***************************************************************************)
(* A turn changes the registers, counter and carry of the champion whose    *)
(* process it is, and no other's; every clone is the first champion's.      *)
(***************************************************************************)
THEOREM OnlyOwnersTouch == MachineSpec => OwnFieldsOnly
  <1> DEFINE Own == \A s \in Loaded : pc = "turn" /\ fields'[s] # fields[s] =>
                       current = s \/ (current > N /\ s = 1)
  <1>1. ASSUME MachineInv, [MachineNext]_<<vars, machineVars>> PROVE Own
    <2>1. StateTypes /\ Owners /\ RingTypeOK /\ current \in Procs
      BY <1>1 DEF MachineInv, SchedInv, TypeInv, TypeOK
    <2>2. /\ Champion \in Loaded /\ (current <= N => Champion = current)
          /\ (current > N => Champion = 1)
      BY <2>1, ChampionOf DEF Champion
    <2>3. CASE pc = "turn" /\ ~(UNCHANGED fields)
      <3>1. PICK stray \in Stray : DoOther(stray)
        BY <1>1, <2>3
           DEF MachineNext, Between, Reset, EndPeriod, Wait, MeetInvalid, MeetZero, Stay,
               DoLive, DoFork, Crash, machineVars, stateVars
      <3>2. PICK f : fields' = [fields EXCEPT ![Champion] = f]
        BY <2>1, <2>2, <3>1, EffectType DEF DoOther
      <3>3. \A s \in Loaded : s # Champion => fields'[s] = fields[s]
        BY <2>1, <3>2 DEF StateTypes
      <3>4. current <= N \/ current > N
        BY <2>1, RingAssumption, SMT DEF Procs, RingTypeOK
      <3>. QED
        BY <2>2, <3>3, <3>4
    <2>. QED
      BY <2>3
  <1>2. MachineInv /\ [MachineNext]_<<vars, machineVars>> => [Own]_<<vars, machineVars>>
    BY <1>1
  <1>. QED
    BY InitTypes, StateStep, <1>2, PTL DEF MachineSpec, OwnFieldsOnly

-----------------------------------------------------------------------------
(* Who is stuck *)

(* What the address of a process's next instruction depends on. *)
LEMMA SameInstruction ==
    ASSUME StateTypes, Owners, RingTypeOK, NEW p \in Procs,
           program' = program, hex_memory' = hex_memory,
           player'[p] = player[p], index'[p] = index[p],
           counter'[p] \in {counter[p], InstructionIndex(p)}
    PROVE  Stuck(p) => Stuck(p)'
  <1>1. SizeOf(p)' = SizeOf(p)
    BY DEF SizeOf, FindChampion
  <1>2. ~(InstructionIndex(p) >= SizeOf(p))
    BY InstructionIndexType
  <1>3. InstructionIndex(p)' = InstructionIndex(p)
    BY <1>1, <1>2 DEF InstructionIndex
  <1>. QED
    BY <1>3 DEF Stuck, Byte, Cell

(* A process that executes something is not stuck. *)
LEMMA NotStuck ==
    ASSUME Stuck(current)
    PROVE  ~Decoded
  <1>1. Decoded => Opcode \in DOMAIN OpTab
    BY DEF Decoded, Fetched, OpTab
  <1>. QED
    BY <1>1 DEF Stuck, Opcode, Here
(* So every step leaves a stuck process where it is and what it is. *)
LEMMA StuckStays ==
    ASSUME MachineInv, [MachineNext]_<<vars, machineVars>>, NEW p \in Procs, Stuck(p)
    PROVE  /\ player'[p] = player[p] /\ index'[p] = index[p] /\ done'[p] = done[p]
           /\ counter'[p] \in {counter[p], InstructionIndex(p)}
           /\ program' = program /\ hex_memory' = hex_memory
  <1>1. /\ StateTypes /\ Owners /\ RingTypeOK /\ current \in Procs
        /\ p \in Pool /\ p # nprocs + 1 /\ player \in [Pool -> Int]
    <2>1. StateTypes /\ Owners /\ RingTypeOK /\ current \in Procs
      BY DEF MachineInv, SchedInv, TypeInv, TypeOK
    <2>2. nprocs \in N..MaxProcs /\ player \in [Pool -> Int]
      BY <2>1 DEF RingTypeOK
    <2>3. p \in Pool /\ p # nprocs + 1
      BY <2>2, RingAssumption, SMT DEF Procs, Pool
    <2>. QED
      BY <2>1, <2>2, <2>3
  <1>2. Decoded => current # p
    BY NotStuck
  <1>3. CASE Between
    BY <1>3 DEF Between, KeepPlaying, StartRound, ringVars, machineVars, codeVars, stateVars
  <1>4. CASE Reset
    BY <1>4 DEF Reset, EndPeriod, ringVars, codeVars
  <1>5. CASE Wait \/ MeetInvalid \/ MeetZero
    <2>1. UNCHANGED player
      BY <1>5 DEF Wait, MeetInvalid, MeetZero, StillRunning, InvalidOpcode, Nuked, ringVars
    <2>2. Stay
      BY <1>5 DEF Wait, MeetInvalid, MeetZero
    <2>. QED
      BY <1>1, <2>1, <2>2 DEF Stay, StateTypes, codeVars
  <1>6. CASE DoLive
    BY <1>1, <1>2, <1>6 DEF DoLive, Executed, ExecuteLive, StateTypes, codeVars, ringVars
  <1>7. CASE DoFork
    <2>1. CloneAndLink(FindProcess(player[current]))
      BY <1>7 DEF DoFork, ExecuteFork
    <2>2. player'[p] = player[p]
      BY <1>1, <2>1 DEF CloneAndLink
    <2>. QED
      BY <1>1, <1>2, <1>7, <2>2 DEF DoFork, Executed, StateTypes, codeVars
  <1>8. ASSUME NEW stray \in Stray, DoOther(stray)
        PROVE  /\ player'[p] = player[p] /\ index'[p] = index[p] /\ done'[p] = done[p]
               /\ counter'[p] = counter[p]
               /\ program' = program /\ hex_memory' = hex_memory
    BY <1>1, <1>2, <1>8 DEF DoOther, Executed, ExecuteOther, StateTypes, codeVars, ringVars
  <1>9. ASSUME NEW array \in Arrays, Crash(array)
        PROVE  UNCHANGED <<player, index, counter, done, program, hex_memory>>
    BY <1>9 DEF Crash, vars, ringVars, codeVars, stateVars
  <1>10. CASE UNCHANGED <<vars, machineVars>>
    BY <1>10 DEF vars, ringVars, machineVars, codeVars, stateVars
  <1>. QED
    BY <1>3, <1>4, <1>5, <1>6, <1>7, <1>8, <1>9, <1>10 DEF MachineNext

(* While a champion's process is stuck, nobody calls live for it. *)
LEMMA StuckIsSilent ==
    ASSUME MachineInv, [MachineNext]_<<vars, machineVars>>, NEW p \in 2..N, Stuck(p)
    PROVE  champ_lives'[p] <= champ_lives[p]
  <1>1. /\ Owners /\ RingTypeOK /\ current \in Procs /\ p \in Slots /\ p \in Loaded
        /\ 1 \in Loaded /\ p # 1 /\ champ_lives \in [Slots -> Nat]
    <2>1. Owners /\ RingTypeOK /\ current \in Procs /\ champ_lives \in [Slots -> Nat]
      BY DEF MachineInv, SchedInv, TypeInv, TypeOK
    <2>. QED
      BY <2>1, ConstantFacts, SMT DEF Slots, Loaded
  <1>2. CASE DoLive
    <2>1. current # p
      BY <1>2, NotStuck DEF DoLive
    <2>2. player[current] # Id[p]
      <3>1. CASE current <= N
        <4>1. current \in Loaded /\ player[current] = Id[current]
          BY <1>1, <3>1, ConstantFacts, SMT DEF Owners, Loaded, Procs
        <4>. QED
          BY <1>1, <2>1, <4>1, MachineAssumption DEF DistinctNumbers, Loaded
      <3>2. CASE current > N
        <4>1. player[current] = Id[1]
          BY <1>1, <3>2 DEF Owners, HeadProc, Loaded
        <4>. QED
          BY <1>1, <4>1, MachineAssumption DEF DistinctNumbers, Loaded
      <3>. QED
        BY <1>1, <3>1, <3>2, RingAssumption, SMT DEF Procs, RingTypeOK
    <2>. QED
      BY <1>1, <1>2, <2>2 DEF DoLive, ExecuteLive, Called
  <1>3. CASE Reset
    BY <1>1, <1>3 DEF Reset, EndPeriod
  <1>4. CASE Between
    BY <1>1, <1>4 DEF Between, KeepPlaying, StartRound, coreVars
  <1>5. CASE Wait \/ MeetInvalid \/ MeetZero
    BY <1>1, <1>5 DEF Wait, MeetInvalid, MeetZero, StillRunning, InvalidOpcode, Nuked, coreVars
  <1>6. CASE DoFork
    BY <1>1, <1>6 DEF DoFork, ExecuteFork
  <1>7. ASSUME NEW stray \in Stray, DoOther(stray) PROVE champ_lives'[p] <= champ_lives[p]
    BY <1>1, <1>7 DEF DoOther, ExecuteOther
  <1>8. ASSUME NEW array \in Arrays, Crash(array) PROVE champ_lives'[p] <= champ_lives[p]
    BY <1>1, <1>8 DEF Crash, vars, coreVars
  <1>9. CASE UNCHANGED <<vars, machineVars>>
    BY <1>1, <1>9 DEF vars, coreVars
  <1>. QED
    BY <1>2, <1>3, <1>4, <1>5, <1>6, <1>7, <1>8, <1>9 DEF MachineNext

(***************************************************************************)
(* A process that meets no opcode meets none for ever, and a champion whose *)
(* only process that is, any but the head's, never calls live again.        *)
(***************************************************************************)
THEOREM StuckIsForever == MachineSpec => StuckForGood
  <1> DEFINE Good == \A p \in Procs : Stuck(p) =>
                        /\ Stuck(p)' /\ done'[p] = done[p]
                        /\ p \in 2..N => champ_lives'[p] <= champ_lives[p]
  <1>1. ASSUME MachineInv, [MachineNext]_<<vars, machineVars>> PROVE Good
    <2>1. StateTypes /\ Owners /\ RingTypeOK
      BY <1>1 DEF MachineInv, SchedInv, TypeInv, TypeOK
    <2>2. ASSUME NEW p \in Procs, Stuck(p) PROVE Stuck(p)' /\ done'[p] = done[p]
      BY <1>1, <2>1, <2>2, StuckStays, SameInstruction
    <2>. QED
      BY <1>1, <2>2, StuckIsSilent
  <1>2. MachineInv /\ [MachineNext]_<<vars, machineVars>> => [Good]_<<vars, machineVars>>
    BY <1>1
  <1>. QED
    BY InitTypes, StateStep, <1>2, PTL DEF MachineSpec, StuckForGood


-----------------------------------------------------------------------------
(* The code of a program, instruction by instruction *)

LEMMA Flattened ==
    ASSUME NEW c, Len(c) \in Nat \ {0}
    PROVE  \E f : Concatenates(f, c, Len(c)) /\ Code(c) = f[Len(c)]
  <1> DEFINE g == CHOOSE f : Concatenates(f, c, Len(c))
  <1>1. Concatenates(g, c, Len(c))
    BY ConcatenationExists
  <1>2. Code(c) = g[Len(c)]
    BY DEF Code, FlattenSeq, Concatenates
  <1>. QED
    BY <1>1, <1>2

Instructions == Seq(Seq(0..255))

(* The code of the first k instructions, and where the next one begins. *)
Until(c, k) == Code(SubSeq(c, 1, k))
Offset(c, k) == Len(Until(c, k))

LEMMA Beginnings ==
    ASSUME NEW c \in Instructions, NEW k \in 0..Len(c)
    PROVE  /\ Len(c) \in Nat /\ k \in Nat
           /\ Len(SubSeq(c, 1, k)) = k
           /\ \A x \in 1..k : SubSeq(c, 1, k)[x] = c[x] /\ c[x] \in Seq(0..255)
  <1>1. Len(c) \in Nat
    BY LenProperties DEF Instructions
  <1>2. \A x \in 1..k : x \in 1..Len(c)
    BY <1>1
  <1>3. \A x \in 1..k : c[x] \in Seq(0..255)
    BY <1>2, ElementOfSeq DEF Instructions
  <1>4. /\ Len(SubSeq(c, 1, k)) = IF 1 <= k THEN k - 1 + 1 ELSE 0
        /\ \A x \in 1..(k - 1 + 1) : SubSeq(c, 1, k)[x] = c[1 + x - 1]
    BY <1>1, <1>3, SubSeqProperties
  <1>5. Len(SubSeq(c, 1, k)) = k
    BY <1>1, <1>4
  <1>6. \A x \in 1..k : SubSeq(c, 1, k)[x] = c[x]
    BY <1>1, <1>4
  <1>. QED
    BY <1>1, <1>3, <1>5, <1>6

(* The code grows by an instruction at a time. *)
LEMMA UntilNone ==
    ASSUME NEW c \in Instructions
    PROVE  Until(c, 0) = <<>>
  <1>1. SubSeq(c, 1, 0) = <<>>
    BY SubSeqEmpty
  <1>. QED
    BY <1>1 DEF Until, Code, FlattenSeq

LEMMA UntilOneMore ==
    ASSUME NEW c \in Instructions, NEW k \in 1..Len(c), Until(c, k - 1) \in Seq(0..255)
    PROVE  Until(c, k) = Until(c, k - 1) \o c[k]
  <1>1. Len(c) \in Nat
    BY LenProperties DEF Instructions
  <1>2. k \in Nat \ {0} /\ k \in 0..Len(c) /\ k - 1 \in 0..Len(c)
    BY <1>1
  <1> DEFINE d == SubSeq(c, 1, k)
             e == SubSeq(c, 1, k - 1)
  <1>3. /\ Len(d) = k /\ \A x \in 1..k : d[x] = c[x] /\ c[x] \in Seq(0..255)
        /\ Len(e) = k - 1 /\ \A x \in 1..(k - 1) : e[x] = c[x]
    BY <1>2, Beginnings
  <1> HIDE DEF d, e
  <1>4. PICK f : Concatenates(f, d, k) /\ Code(d) = f[k]
    BY <1>2, <1>3, Flattened
  <1>5. f[k] = IF k = 1 THEN d[1] ELSE f[k - 1] \o d[k]
    <2>1. k \in 1..k
      BY <1>2
    <2>. QED
      BY <1>4, <2>1 DEF Concatenates
  <1>6. CASE k = 1
    <2>1. Until(c, k - 1) = <<>>
      BY <1>6, UntilNone
    <2>2. f[k] = c[k]
      BY <1>3, <1>5, <1>6
    <2>3. <<>> \o c[k] = c[k]
      BY <1>2, <1>3, ConcatEmptySeq
    <2>. QED
      BY <1>4, <2>1, <2>2, <2>3 DEF Until, d
  <1>7. CASE k # 1
    <2>1. k - 1 \in Nat \ {0} /\ k - 1 <= k /\ k - 1 \in 1..(k - 1)
      BY <1>2, <1>7
    <2>2. PICK g : Concatenates(g, e, k - 1) /\ Code(e) = g[k - 1]
      BY <1>3, <2>1, Flattened
    <2>3. \A x \in 1..(k - 1) : e[x] = d[x]
      BY <1>2, <1>3
    <2>4. \A x \in 1..(k - 1) : g[x] = f[x]
      BY <1>2, <1>4, <2>1, <2>2, <2>3, ConcatenationUnique
    <2>5. Until(c, k - 1) = f[k - 1]
      BY <2>1, <2>2, <2>4 DEF Until, e
    <2>6. d[k] = c[k]
      BY <1>2, <1>3
    <2>7. Until(c, k) = f[k]
      BY <1>4 DEF Until, d
    <2>. QED
      BY <1>5, <1>7, <2>5, <2>6, <2>7
  <1>. QED
    BY <1>6, <1>7

LEMMA UntilType ==
    ASSUME NEW c \in Instructions, NEW k \in 0..Len(c)
    PROVE  Until(c, k) \in Seq(0..255)
  <1> DEFINE S == {m \in Nat : m <= Len(c) => Until(c, m) \in Seq(0..255)}
  <1>1. Len(c) \in Nat
    BY LenProperties DEF Instructions
  <1>2. 0 \in S
    BY UntilNone, EmptySeq
  <1>3. ASSUME NEW m \in Nat, m \in S PROVE m + 1 \in S
    <2>1. SUFFICES ASSUME m + 1 <= Len(c) PROVE Until(c, m + 1) \in Seq(0..255)
      OBVIOUS
    <2> DEFINE n == m + 1
    <2>2. n \in 1..Len(c) /\ n - 1 = m /\ m <= Len(c)
      BY <1>1, <2>1
    <2>. HIDE DEF n
    <2>3. Until(c, n - 1) \in Seq(0..255)
      BY <1>3, <2>2
    <2>4. c[n] \in Seq(0..255)
      BY <2>2, ElementOfSeq DEF Instructions
    <2>5. Until(c, n) = Until(c, n - 1) \o c[n]
      BY <2>2, <2>3, UntilOneMore
    <2>6. Until(c, n - 1) \o c[n] \in Seq(0..255)
      BY <2>3, <2>4, ConcatProperties
    <2>. QED
      BY <2>5, <2>6 DEF n
  <1>. HIDE DEF S
  <1>4. k \in S
    BY <1>1, <1>2, <1>3, Counting
  <1>. QED
    BY <1>1, <1>4 DEF S

(* The bytes of an instruction in its code. *)
LEMMA OffsetNone ==
    ASSUME NEW c \in Instructions
    PROVE  Offset(c, 0) = 0
  BY UntilNone, EmptySeq DEF Offset

LEMMA OffsetOneMore ==
    ASSUME NEW c \in Instructions, NEW k \in 1..Len(c)
    PROVE  /\ Offset(c, k - 1) \in Nat /\ Len(c[k]) \in Nat
           /\ Offset(c, k) = Offset(c, k - 1) + Len(c[k])
           /\ \A j \in 1..Len(c[k]) : Until(c, k)[Offset(c, k - 1) + j] = c[k][j]
           /\ \A x \in 1..Offset(c, k - 1) : Until(c, k)[x] = Until(c, k - 1)[x]
  <1>1. Len(c) \in Nat /\ k - 1 \in 0..Len(c)
    BY LenProperties DEF Instructions
  <1>2. Until(c, k - 1) \in Seq(0..255)
    BY <1>1, UntilType
  <1>3. c[k] \in Seq(0..255)
    BY ElementOfSeq DEF Instructions
  <1>4. Until(c, k) = Until(c, k - 1) \o c[k]
    BY <1>2, UntilOneMore
  <1> DEFINE u == Until(c, k - 1)
             v == c[k]
  <1>5. Len(u) \in Nat /\ Len(v) \in Nat
    BY <1>2, <1>3, LenProperties
  <1>6. u \in Seq(0..255) /\ v \in Seq(0..255)
    BY <1>2, <1>3
  <1>. HIDE DEF u, v
  <1>7. /\ Len(u \o v) = Len(u) + Len(v)
        /\ \A x \in 1..(Len(u) + Len(v)) :
              (u \o v)[x] = IF x <= Len(u) THEN u[x] ELSE v[x - Len(u)]
    BY <1>6, ConcatProperties
  <1>8. \A j \in 1..Len(v) : (u \o v)[Len(u) + j] = v[j]
    BY <1>5, <1>7
  <1>9. \A x \in 1..Len(u) : (u \o v)[x] = u[x]
    BY <1>5, <1>7
  <1>. QED
    BY <1>4, <1>5, <1>7, <1>8, <1>9 DEF Offset, u, v

LEMMA UntilAll ==
    ASSUME NEW c \in Instructions
    PROVE  Until(c, Len(c)) = Code(c)
  <1>1. SubSeq(c, 1, Len(c)) = c
    BY SubSeqFull DEF Instructions
  <1>. QED
    BY <1>1 DEF Until

(* Later instructions leave the earlier ones where they are. *)
LEMMA UntilGrows ==
    ASSUME NEW c \in Instructions, NEW k \in 0..Len(c), NEW n \in k..Len(c)
    PROVE  /\ Offset(c, k) \in Nat /\ Offset(c, k) <= Offset(c, n)
           /\ \A x \in 1..Offset(c, k) : Until(c, n)[x] = Until(c, k)[x]
  <1> DEFINE Kept(m) == /\ Offset(c, m) \in Nat /\ Offset(c, k) <= Offset(c, m)
                        /\ \A x \in 1..Offset(c, k) : Until(c, m)[x] = Until(c, k)[x]
             S == {d \in Nat : k + d <= Len(c) => Kept(k + d)}
  <1>1. Len(c) \in Nat
    BY LenProperties DEF Instructions
  <1>2. Offset(c, k) \in Nat
    BY UntilType, LenProperties DEF Offset
  <1>3. 0 \in S
    BY <1>1, <1>2
  <1>4. ASSUME NEW d \in Nat, d \in S PROVE d + 1 \in S
    <2>1. SUFFICES ASSUME k + (d + 1) <= Len(c) PROVE Kept(k + (d + 1))
      OBVIOUS
    <2> DEFINE m == k + (d + 1)
    <2>2. m \in 1..Len(c) /\ m - 1 = k + d /\ k + d <= Len(c)
      BY <1>1, <2>1
    <2>. HIDE DEF m
    <2>3. Kept(m - 1)
      BY <1>4, <2>2
    <2>4. /\ Offset(c, m - 1) \in Nat /\ Len(c[m]) \in Nat
          /\ Offset(c, m) = Offset(c, m - 1) + Len(c[m])
          /\ \A x \in 1..Offset(c, m - 1) : Until(c, m)[x] = Until(c, m - 1)[x]
      BY <2>2, OffsetOneMore
    <2>5. Offset(c, m) \in Nat /\ Offset(c, k) <= Offset(c, m)
      BY <1>2, <2>3, <2>4
    <2>6. ASSUME NEW x \in 1..Offset(c, k) PROVE Until(c, m)[x] = Until(c, k)[x]
      <3>1. x \in 1..Offset(c, m - 1)
        BY <1>2, <2>3
      <3>. QED
        BY <2>3, <2>4, <3>1
    <2>7. Kept(m)
      BY <2>5, <2>6
    <2>. QED
      BY <2>7 DEF m
  <1>. HIDE DEF S
  <1>5. Nat \subseteq S
    BY <1>3, <1>4, Counting
  <1>6. n - k \in Nat /\ k + (n - k) = n /\ n <= Len(c)
    BY <1>1
  <1>7. n - k \in S
    BY <1>5, <1>6
  <1>8. Kept(n)
    BY <1>6, <1>7 DEF S
  <1>. QED
    BY <1>2, <1>8

(* Where an instruction is in the code. *)
LEMMA InstructionInCode ==
    ASSUME NEW c \in Instructions, NEW k \in 1..Len(c)
    PROVE  /\ Offset(c, k - 1) \in Nat /\ Len(c[k]) \in Nat /\ Len(Code(c)) \in Nat
           /\ Offset(c, k) = Offset(c, k - 1) + Len(c[k])
           /\ Offset(c, k) <= Len(Code(c))
           /\ \A j \in 1..Len(c[k]) : Code(c)[Offset(c, k - 1) + j] = c[k][j]
  <1>1. Len(c) \in Nat /\ k \in 0..Len(c) /\ Len(c) \in k..Len(c) /\ Len(c) \in 0..Len(c)
    BY LenProperties DEF Instructions
  <1>2. Until(c, Len(c)) = Code(c) /\ Offset(c, Len(c)) = Len(Code(c))
    BY UntilAll DEF Offset
  <1>3. /\ Offset(c, k) \in Nat /\ Offset(c, k) <= Len(Code(c))
        /\ \A x \in 1..Offset(c, k) : Code(c)[x] = Until(c, k)[x]
    BY <1>1, <1>2, UntilGrows
  <1>4. Len(Code(c)) \in Nat
    BY <1>1, <1>2, UntilType, LenProperties
  <1>5. ASSUME NEW j \in 1..Len(c[k]) PROVE Code(c)[Offset(c, k - 1) + j] = c[k][j]
    <2>1. Offset(c, k - 1) + j \in 1..Offset(c, k)
      BY OffsetOneMore
    <2>. QED
      BY <1>3, <2>1, OffsetOneMore
  <1>. QED
    BY <1>3, <1>4, <1>5, OffsetOneMore

-----------------------------------------------------------------------------
(* What is decoded where an instruction is *)

LiesAt(bytes, mem, h) == \A a \in 0..(Len(bytes) - 1) : Cell(mem, h + a) = bytes[a + 1]

(* An operand that is there in full has the same width alone. *)
LEMMA SameWidth ==
    ASSUME NEW mem, NEW h \in Int, NEW bytes \in Seq(0..255),
           LiesAt(bytes, mem, h),
           NEW type, NEW a \in Nat, a + Width(Alone(bytes), type, a) <= Len(bytes)
    PROVE  Width(mem, type, h + a) = Width(Alone(bytes), type, a)
  <1>1. Len(bytes) \in Nat
    BY LenProperties
  <1>2. ASSUME NEW b \in 0..(Len(bytes) - 1) PROVE Cell(Alone(bytes), b) = Cell(mem, h + b)
    BY <1>2 DEF LiesAt, Cell, Alone
  <1>3. CASE type = "T_DIR"
    <2>1. Width(Alone(bytes), type, a) \in {2, 4}
      BY <1>3 DEF Width
    <2>2. a \in 0..(Len(bytes) - 1) /\ a + 1 \in 0..(Len(bytes) - 1)
      BY <1>1, <2>1
    <2>3. /\ Cell(Alone(bytes), a) = Cell(mem, h + a)
          /\ Cell(Alone(bytes), a + 1) = Cell(mem, h + a + 1)
      <3>1. h + (a + 1) = h + a + 1
        BY <2>2
      <3>2. Cell(Alone(bytes), a + 1) = Cell(mem, h + (a + 1))
        BY <1>2, <2>2
      <3>. QED
        BY <1>2, <2>2, <3>1, <3>2
    <2>. QED
      BY <1>3, <2>3 DEF Width
  <1>4. CASE type # "T_DIR"
    BY <1>4 DEF Width
  <1>. QED
    BY <1>3, <1>4

(* A whole instruction ends in memory where it ends alone. *)
LEMMA SameEnd ==
    ASSUME NEW mem, NEW h \in Int, NEW bytes \in Seq(0..255),
           LiesAt(bytes, mem, h),
           NEW op, BuildOperands(Alone(bytes), 1, op, Fill).end = Len(bytes)
    PROVE  LET x == BuildOperands(mem, h + 1, op, Fill)
           IN  /\ x.end = h + Len(bytes)
               /\ x.last = IF NbrArgs(op) = 1 THEN h + 5 ELSE x.end - 1
               /\ NbrArgs(op) = 1 => Len(bytes) = 5
  <1>1. Len(bytes) \in Nat
    BY LenProperties
  <1>2. CASE NbrArgs(op) = 1
    <2>1. /\ BuildOperands(Alone(bytes), 1, op, Fill).end = 1 + 4
          /\ BuildOperands(mem, h + 1, op, Fill).end = h + 1 + 4
          /\ BuildOperands(mem, h + 1, op, Fill).last = h + 1 + 4
      BY <1>2 DEF BuildOperands, LastOfOne
    <2>2. h + 1 + 4 = h + 5 /\ 1 + 4 = 5
      OBVIOUS
    <2>3. Len(bytes) = 5
      BY <2>1, <2>2
    <2>. QED
      BY <1>2, <2>1, <2>2, <2>3, Zenon
  <1>3. CASE NbrArgs(op) # 1
    <2> DEFINE Type(m, a) == [j \in 1..3 |-> ArgType(Byte(m, a), j)]
               Second(m, a) == a + 1 + Width(m, Type(m, a)[1], a + 1)
               Third(m, a) == Second(m, a) + Width(m, Type(m, a)[2], Second(m, a))
               Fourth(m, a) == Third(m, a) + Width(m, Type(m, a)[3], Third(m, a))
               End(m, a) == IF NbrArgs(op) = 2 THEN Third(m, a) ELSE Fourth(m, a)
    <2>1. ASSUME NEW m, NEW a
          PROVE  /\ BuildOperands(m, a, op, Fill).end = End(m, a)
                 /\ BuildOperands(m, a, op, Fill).last = End(m, a) - 1
      <3>1. NbrArgs(op) \in {2, 3}
        BY <1>3 DEF NbrArgs
      <3> DEFINE start == <<a + 1, Second(m, a), Third(m, a), Fourth(m, a)>>
      <3>2. start[NbrArgs(op) + 1] = End(m, a)
        BY <3>1
      <3>3. /\ BuildOperands(m, a, op, Fill).end = start[NbrArgs(op) + 1]
            /\ BuildOperands(m, a, op, Fill).last = start[NbrArgs(op) + 1] - 1
        BY <1>3 DEF BuildOperands
      <3>. HIDE DEF start, End
      <3>. QED
        BY <3>2, <3>3
    <2> DEFINE iso == Alone(bytes)
               L == Len(bytes)
    <2>0. ASSUME NEW t, NEW b \in Nat, b + Width(iso, t, b) <= L
          PROVE  Width(mem, t, h + b) = Width(iso, t, b)
      BY <2>0, SameWidth
    <2>. HIDE DEF iso, Type
    <2>2. ASSUME NEW m, NEW a \in Int, NEW type PROVE Width(m, type, a) \in Nat
      BY WidthType
    <2>3. /\ Second(iso, 1) \in Nat /\ Third(iso, 1) \in Nat
          /\ 2 <= Second(iso, 1) /\ Second(iso, 1) <= Third(iso, 1)
          /\ Third(iso, 1) <= End(iso, 1) /\ End(iso, 1) = L
      <3>1. End(iso, 1) = L
        BY <2>1 DEF iso
      <3>2. Second(iso, 1) \in Nat /\ 2 <= Second(iso, 1)
        BY <2>2
      <3>. HIDE DEF Second
      <3>3. Third(iso, 1) \in Nat /\ Second(iso, 1) <= Third(iso, 1)
        BY <2>2, <3>2
      <3>. HIDE DEF Third
      <3>4. Fourth(iso, 1) \in Nat /\ Third(iso, 1) <= Fourth(iso, 1)
        BY <2>2, <3>3
      <3>. QED
        BY <3>1, <3>2, <3>3, <3>4
    <2>4. Type(mem, h + 1) = Type(iso, 1)
      <3>1. 1 \in 0..(L - 1)
        BY <1>1, <2>3
      <3>2. Cell(mem, h + 1) = bytes[1 + 1] /\ Cell(iso, 1) = bytes[1 + 1]
        BY <3>1 DEF iso, LiesAt, Alone, Cell
      <3>. QED
        BY <3>2 DEF Type, Byte
    <2>5. Second(mem, h + 1) = h + Second(iso, 1)
      <3>1. Width(mem, Type(iso, 1)[1], h + 2) = Width(iso, Type(iso, 1)[1], 2)
        <4>1. 2 + Width(iso, Type(iso, 1)[1], 2) <= L
          BY <1>1, <2>2, <2>3
        <4>. QED
          BY <2>0, <4>1
      <3>2. h + 1 + 1 = h + 2
        OBVIOUS
      <3>. QED
        BY <2>2, <2>4, <3>1, <3>2
    <2>. HIDE DEF Second
    <2>6. Third(mem, h + 1) = h + Third(iso, 1)
      <3>1. Width(mem, Type(iso, 1)[2], h + Second(iso, 1)) = Width(iso, Type(iso, 1)[2], Second(iso, 1))
        <4>1. Second(iso, 1) + Width(iso, Type(iso, 1)[2], Second(iso, 1)) <= L
          BY <1>1, <2>2, <2>3
        <4>. QED
          BY <2>0, <2>3, <4>1
      <3>. QED
        BY <2>2, <2>3, <2>4, <2>5, <3>1
    <2>. HIDE DEF Third
    <2>7. NbrArgs(op) # 2 => Fourth(mem, h + 1) = h + Fourth(iso, 1)
      <3>1. SUFFICES ASSUME NbrArgs(op) # 2 PROVE Fourth(mem, h + 1) = h + Fourth(iso, 1)
        OBVIOUS
      <3>2. Width(mem, Type(iso, 1)[3], h + Third(iso, 1)) = Width(iso, Type(iso, 1)[3], Third(iso, 1))
        <4>1. Third(iso, 1) + Width(iso, Type(iso, 1)[3], Third(iso, 1)) <= L
          BY <1>1, <2>2, <2>3, <3>1
        <4>. QED
          BY <2>0, <2>3, <4>1
      <3>. QED
        BY <2>2, <2>3, <2>4, <2>6, <3>1, <3>2
    <2>8. End(mem, h + 1) = h + End(iso, 1)
      BY <2>6, <2>7
    <2>. HIDE DEF End
    <2>9. BuildOperands(mem, h + 1, op, Fill).end = h + L
      BY <2>1, <2>3, <2>8
    <2>. QED
      BY <1>3, <2>1, <2>9
  <1>. QED
    BY <1>2, <1>3

-----------------------------------------------------------------------------
(* Where the code is in the memory *)

(* Share by share. *)
LEMMA WithinShares ==
    ASSUME NEW m \in Nat \ {0}, NEW q \in Nat, NEW r \in 0..(m - 1)
    PROVE  (m * q + r) \div m = q /\ (m * q + r) % m = r
  OBVIOUS

LEMMA SharesAddUp ==
    ASSUME NEW m \in Nat, NEW n \in Nat, NEW s \in 1..n
    PROVE  m * (s - 1) \in Nat /\ m * (s - 1) + m <= n * m
  <1>1. m * (s - 1) \in Nat /\ m * (s - 1) + m = s * m
    OBVIOUS
  <1>2. s * m <= n * m
    <2>1. (n - s) * m \in Nat /\ n * m = s * m + (n - s) * m
      OBVIOUS
    <2>2. s * m \in Nat /\ n * m \in Nat
      OBVIOUS
    <2>. QED
      BY <2>1, <2>2
  <1>. QED
    BY <1>1, <1>2

LEMMA ShareFacts ==
    /\ Share \in Nat /\ MEM_SIZE \in Nat
    /\ \A s \in Loaded : s \in Nat /\ Share * (s - 1) \in Nat /\ Share * (s - 1) + Share <= MEM_SIZE
    /\ \A c \in Programs : Code(c) \in Seq(0..255) /\ Len(Code(c)) \in 1..Share
  <1>1. N \in Nat /\ N >= 1 /\ MEM_SIZE \in Nat \ {0} /\ Share \in Nat
    BY ConstantFacts, MachineAssumption DEF Share
  <1>2. N * Share <= MEM_SIZE
    BY <1>1 DEF Share
  <1>3. ASSUME NEW s \in Loaded
        PROVE  s \in Nat /\ Share * (s - 1) \in Nat /\ Share * (s - 1) + Share <= MEM_SIZE
    <2>1. s \in Nat /\ s \in 1..N
      BY <1>1 DEF Loaded
    <2>2. Share * (s - 1) \in Nat /\ Share * (s - 1) + Share <= N * Share
      BY <1>1, <2>1, SharesAddUp
    <2> DEFINE a == Share * (s - 1)
               all == N * Share
    <2>3. all \in Nat
      BY <1>1
    <2>. HIDE DEF a, all
    <2>4. a + Share <= MEM_SIZE
      BY <1>1, <1>2, <2>2, <2>3 DEF a, all
    <2>. QED
      BY <2>1, <2>2, <2>4 DEF a
  <1>4. \A c \in Programs : Code(c) \in Seq(0..255) /\ Len(Code(c)) \in 1..Share
    BY MachineAssumption
  <1>. QED
    BY <1>1, <1>3, <1>4

LEMMA CellOfCode ==
    ASSUME NEW codes, NEW s \in Loaded, NEW o \in Nat, codes[s] \in Seq(0..255),
           o < Len(codes[s]), Len(codes[s]) <= Share
    PROVE  /\ Share * (s - 1) + o \in Cells
           /\ Image(codes)[Share * (s - 1) + o] = codes[s][o + 1]
           /\ codes[s][o + 1] \in 0..255
  <1> DEFINE a == Share * (s - 1) + o
             q == s - 1
  <1>1. Share \in Nat \ {0} /\ q \in Nat /\ Len(codes[s]) \in Nat
    <2>1. Share \in Nat /\ q \in Nat /\ Len(codes[s]) \in Nat
      BY ShareFacts, LenProperties DEF Loaded
    <2>. QED
      BY <2>1
  <1>2. o \in 0..(Share - 1)
    BY <1>1
  <1>3. a \div Share = q /\ a % Share = o
    BY <1>1, <1>2, WithinShares
  <1>4. q + 1 = s
    BY DEF Loaded
  <1>5. a \in Cells
    <2> DEFINE b == Share * (s - 1)
    <2>1. b \in Nat /\ b + Share <= MEM_SIZE /\ MEM_SIZE \in Nat
      BY ShareFacts
    <2>2. a = b + o
      OBVIOUS
    <2>. HIDE DEF a, b
    <2>. QED
      BY <1>1, <1>2, <2>1, <2>2 DEF Cells
  <1>6. Image(codes)[a] = codes[s][o + 1]
    BY <1>3, <1>4, <1>5 DEF Image
  <1>7. o + 1 \in 1..Len(codes[s])
    BY <1>1
  <1>8. codes[s][o + 1] \in 0..255
    BY <1>7, ElementOfSeq
  <1>. QED
    BY <1>5, <1>6, <1>8

-----------------------------------------------------------------------------
(* Instruction by instruction *)

Position(s) == done[s] % Len(program[s])

AtInstruction(s) ==
    \/ counter[s] = Offset(program[s], Position(s))
    \/ Position(s) = 0 /\ counter[s] = Len(Code(program[s]))

(***************************************************************************)
(* The memory is as it was loaded, and the process a champion begins with   *)
(* stands where it began and counts to an instruction's first byte, or is   *)
(* behind the last of them.                                                 *)
(***************************************************************************)
OrderInv ==
    /\ hex_memory = Image([s \in Loaded |-> Code(program[s])])
    /\ \A s \in Loaded : index[s] = Share * (s - 1) /\ AtInstruction(s)

LEMMA NextRemainder ==
    ASSUME NEW d \in Nat, NEW n \in Nat \ {0}
    PROVE  /\ d % n \in 0..(n - 1)
           /\ (d + 1) % n = IF (d % n) + 1 = n THEN 0 ELSE (d % n) + 1
  <1> DEFINE q == d \div n
             r == d % n
  <1>1. q \in Nat /\ r \in 0..(n - 1) /\ d = n * q + r
    OBVIOUS
  <1>. HIDE DEF q, r
  <1>2. CASE r + 1 = n
    <2>1. d + 1 = n * (q + 1) + 0
      BY <1>1, <1>2
    <2>2. q + 1 \in Nat /\ 0 \in 0..(n - 1)
      BY <1>1
    <2>3. (n * (q + 1) + 0) % n = 0
      BY <2>2, WithinShares
    <2>. QED
      BY <1>1, <1>2, <2>1, <2>3 DEF r
  <1>3. CASE r + 1 # n
    <2>1. d + 1 = n * q + (r + 1) /\ r + 1 \in 0..(n - 1)
      BY <1>1, <1>3
    <2>2. (n * q + (r + 1)) % n = r + 1
      BY <1>1, <2>1, WithinShares
    <2>. QED
      BY <1>1, <1>3, <2>1, <2>2 DEF r
  <1>. QED
    BY <1>2, <1>3

(* The process a champion begins with is its own. *)
LEMMA FirstProcess ==
    ASSUME Owners, RingTypeOK, NEW s \in Loaded
    PROVE  s \in Procs /\ s \in Pool /\ s # nprocs + 1 /\ FindChampion(player[s]) = s
  <1>1. s \in Procs /\ s \in Pool /\ s # nprocs + 1 /\ s <= N
    BY RingAssumption, SMT DEF RingTypeOK, Procs, Pool, Loaded
  <1>. QED
    BY <1>1, ChampionOf

(* The instruction it comes to next. *)
LEMMA ComesTo ==
    ASSUME WholeInstructions, StateTypes, NEW s \in Loaded
    PROVE  LET c == program[s]
           IN  /\ c \in Programs /\ c \in Instructions
               /\ Len(c) \in Nat \ {0}
               /\ Position(s) \in 0..Len(c) /\ Position(s) + 1 \in 1..Len(c)
               /\ c[Position(s) + 1] \in Seq(0..255) /\ WholeInstruction(c[Position(s) + 1])
  <1> DEFINE c == program[s]
             k == Position(s)
  <1>1. c \in Programs
    BY DEF StateTypes
  <1>2. c \in Instructions /\ c # <<>>
    BY <1>1 DEF WholeInstructions, Instructions
  <1>3. Len(c) \in Nat \ {0} /\ DOMAIN c = 1..Len(c)
    BY <1>2, LenProperties, EmptySeq DEF Instructions
  <1>4. done[s] \in Nat
    BY RingAssumption, SMT DEF StateTypes, Loaded, Pool
  <1>5. k \in 0..(Len(c) - 1)
    BY <1>3, <1>4, NextRemainder DEF Position
  <1>. HIDE DEF c, k
  <1>6. k \in 0..Len(c) /\ k + 1 \in 1..Len(c)
    BY <1>3, <1>5
  <1>7. c[k + 1] \in Seq(0..255)
    BY <1>2, <1>6, ElementOfSeq DEF Instructions
  <1>8. WholeInstruction(c[k + 1])
    BY <1>1, <1>3, <1>6 DEF WholeInstructions
  <1>. QED
    BY <1>1, <1>2, <1>3, <1>6, <1>7, <1>8 DEF c, k

LEMMA InstructionInOrder ==
    ASSUME WholeInstructions, MachineInv, OrderInv, NEW s \in Loaded
    PROVE  InstructionIndex(s) = Offset(program[s], Position(s))
  <1> DEFINE c == program[s]
             k == Position(s)
  <1>1. /\ c \in Programs /\ c \in Instructions /\ Len(c) \in Nat \ {0}
        /\ k \in 0..Len(c) /\ k + 1 \in 1..Len(c) /\ WholeInstruction(c[k + 1])
    BY ComesTo DEF MachineInv
  <1>2. SizeOf(s) = Len(Code(c))
    BY FirstProcess DEF MachineInv, SchedInv, TypeInv, TypeOK, SizeOf
  <1>3. counter[s] = Offset(c, k) \/ (k = 0 /\ counter[s] = Len(Code(c)))
    BY DEF OrderInv, AtInstruction
  <1>. HIDE DEF c, k
  <1>4. /\ Offset(c, k) \in Nat /\ Len(c[k + 1]) \in Nat /\ Len(Code(c)) \in Nat
        /\ Offset(c, k + 1) = Offset(c, k) + Len(c[k + 1])
        /\ Offset(c, k + 1) <= Len(Code(c))
    <2>1. (k + 1) - 1 = k
      BY <1>1
    <2>. QED
      BY <1>1, <2>1, InstructionInCode
  <1>5. Len(c[k + 1]) # 0
    <2>1. c[k + 1] \in Seq(0..255) /\ c[k + 1] # <<>>
      BY <1>1, ElementOfSeq DEF Instructions, WholeInstruction
    <2>. QED
      BY <2>1, EmptySeq
  <1>6. ASSUME counter[s] = Offset(c, k)
        PROVE  InstructionIndex(s) = Offset(c, k)
    BY <1>2, <1>4, <1>5, <1>6 DEF InstructionIndex
  <1>7. ASSUME k = 0, counter[s] = Len(Code(c))
        PROVE  InstructionIndex(s) = Offset(c, k)
    <2>1. Len(Code(c)) \in Nat \ {0}
      BY <1>4, <1>5
    <2>2. \A n \in Nat \ {0} : n % n = 0
      OBVIOUS
    <2>3. Len(Code(c)) % Len(Code(c)) = 0
      BY <2>1, <2>2
    <2>4. Offset(c, k) = 0
      BY <1>1, <1>7, OffsetNone
    <2>. QED
      BY <1>2, <1>7, <2>1, <2>3, <2>4 DEF InstructionIndex
  <1>. QED
    BY <1>3, <1>6, <1>7 DEF c, k

(***************************************************************************)
(* The process meets the bytes of that instruction, which are all in the    *)
(* memory, and after the last of them comes the next.                       *)
(***************************************************************************)
LEMMA InstructionLies ==
    ASSUME WholeInstructions, MachineInv, OrderInv, current \in Loaded
    PROVE  LET bytes == program[current][Position(current) + 1]
           IN  /\ bytes \in Seq(0..255) /\ Len(bytes) \in Nat \ {0}
               /\ Here \in Cells /\ Here + Len(bytes) <= MEM_SIZE
               /\ LiesAt(bytes, hex_memory, Here)
               /\ Opcode = bytes[1]
  <1> DEFINE s == current
             c == program[s]
             k == Position(s)
             bytes == c[k + 1]
             codes == [t \in Loaded |-> Code(program[t])]
  <1>1. /\ c \in Programs /\ c \in Instructions /\ Len(c) \in Nat \ {0}
        /\ k \in 0..Len(c) /\ k + 1 \in 1..Len(c)
        /\ bytes \in Seq(0..255) /\ WholeInstruction(bytes)
    BY ComesTo DEF MachineInv
  <1>2. Here = Share * (s - 1) + Offset(c, k)
    BY InstructionInOrder DEF OrderInv, Here
  <1>3. hex_memory = Image(codes) /\ codes[s] = Code(c)
    BY DEF OrderInv
  <1>4. DOMAIN hex_memory = Cells
    BY DEF MachineInv, StateTypes
  <1>. HIDE DEF c, k, bytes, codes
  <1>5. Len(bytes) \in Nat \ {0} /\ 1 \in 1..Len(bytes)
    BY <1>1, LenProperties, EmptySeq DEF WholeInstruction
  <1>6. /\ Offset(c, k) \in Nat /\ Len(Code(c)) \in Nat
        /\ Offset(c, k) + Len(bytes) <= Len(Code(c))
        /\ \A j \in 1..Len(bytes) : Code(c)[Offset(c, k) + j] = bytes[j]
    <2>1. (k + 1) - 1 = k
      BY <1>1
    <2>. QED
      BY <1>1, <2>1, InstructionInCode DEF bytes
  <1>7. /\ Share \in Nat /\ Share * (s - 1) \in Nat /\ Share * (s - 1) + Share <= MEM_SIZE
        /\ Code(c) \in Seq(0..255) /\ Len(Code(c)) <= Share /\ MEM_SIZE \in Nat
    BY <1>1, ShareFacts
  <1>8. Here \in Nat /\ Here + Len(bytes) <= MEM_SIZE
    <2> DEFINE b == Share * (s - 1)
    <2>1. Here = b + Offset(c, k) /\ b \in Nat /\ b + Share <= MEM_SIZE
      BY <1>2, <1>7
    <2>. HIDE DEF b
    <2>. QED
      BY <1>5, <1>6, <1>7, <2>1
  <1>9. ASSUME NEW a \in 0..(Len(bytes) - 1)
        PROVE  Cell(hex_memory, Here + a) = bytes[a + 1] /\ bytes[a + 1] \in 0..255
    <2> DEFINE o == Offset(c, k) + a
    <2>1. o \in Nat /\ o < Len(Code(c)) /\ a + 1 \in 1..Len(bytes)
      BY <1>5, <1>6
    <2>2. Here + a = Share * (s - 1) + o
      <3> DEFINE b == Share * (s - 1)
      <3>1. b \in Nat /\ Here = b + Offset(c, k)
        BY <1>2, <1>7
      <3>. HIDE DEF b
      <3>2. Here + a = b + o
        BY <1>6, <3>1
      <3>. QED
        BY <3>2 DEF b
    <2>3. o + 1 = Offset(c, k) + (a + 1)
      BY <1>6
    <2>. HIDE DEF o
    <2>4. /\ Share * (s - 1) + o \in Cells
          /\ Image(codes)[Share * (s - 1) + o] = Code(c)[o + 1]
          /\ Code(c)[o + 1] \in 0..255
      <3>1. codes[s] \in Seq(0..255) /\ o < Len(codes[s]) /\ Len(codes[s]) <= Share
        BY <1>3, <1>7, <2>1
      <3>2. /\ Share * (s - 1) + o \in Cells
            /\ Image(codes)[Share * (s - 1) + o] = codes[s][o + 1]
            /\ codes[s][o + 1] \in 0..255
        BY <2>1, <3>1, CellOfCode
      <3>. QED
        BY <1>3, <3>2
    <2>5. Code(c)[o + 1] = bytes[a + 1]
      BY <1>6, <2>1, <2>3
    <2>. QED
      BY <1>3, <1>4, <2>2, <2>4, <2>5 DEF Cell
  <1>10. Opcode = bytes[1] /\ Here \in Cells
    <2>1. 0 \in 0..(Len(bytes) - 1) /\ Here + 0 = Here /\ 0 + 1 = 1
      BY <1>5, <1>8
    <2>2. Cell(hex_memory, Here) = bytes[1] /\ bytes[1] \in 0..255
      BY <1>9, <2>1
    <2>3. Here \in Cells
      BY <1>5, <1>7, <1>8 DEF Cells
    <2>. QED
      BY <2>2, <2>3 DEF Opcode, Byte, Blank
  <1>11. LiesAt(bytes, hex_memory, Here)
    BY <1>9 DEF LiesAt
  <1>. QED
    BY <1>1, <1>5, <1>8, <1>10, <1>11 DEF bytes, c, k

LEMMA InstructionDecoded ==
    ASSUME WholeInstructions, MachineInv, OrderInv, current \in Loaded,
           Opcode \in DOMAIN OpTab
    PROVE  LET bytes == program[current][Position(current) + 1]
           IN  /\ Operands.end = Here + Len(bytes)
               /\ Operands.last = IF NbrArgs(Op) = 1 THEN Here + 5 ELSE Operands.end - 1
               /\ NbrArgs(Op) = 1 => Len(bytes) = 5
  <1> DEFINE bytes == program[current][Position(current) + 1]
  <1>1. /\ bytes \in Seq(0..255) /\ Here \in Int
        /\ LiesAt(bytes, hex_memory, Here) /\ Opcode = bytes[1]
    BY InstructionLies, ShareFacts DEF Cells
  <1>2. WholeInstruction(bytes)
    BY ComesTo DEF MachineInv
  <1>. HIDE DEF bytes
  <1>3. BuildOperands(Alone(bytes), 1, Op, Fill).end = Len(bytes)
    BY <1>1, <1>2 DEF WholeInstruction, Op
  <1>4. LET x == BuildOperands(hex_memory, Here + 1, Op, Fill)
        IN  /\ x.end = Here + Len(bytes)
            /\ x.last = IF NbrArgs(Op) = 1 THEN Here + 5 ELSE x.end - 1
            /\ NbrArgs(Op) = 1 => Len(bytes) = 5
    BY <1>1, <1>3, SameEnd
  <1>. QED
    BY <1>4 DEF Operands, bytes

(* An executed instruction takes the process to the next one. *)
LEMMA GoesOn ==
    ASSUME WholeInstructions, MachineInv, OrderInv, NEW s \in Loaded, s = current, Decoded,
           UNCHANGED program, counter'[s] = Behind, done'[s] = done[s] + 1
    PROVE  AtInstruction(s)'
  <1> DEFINE c == program[s]
             k == Position(s)
             bytes == c[k + 1]
  <1>1. /\ c \in Programs /\ c \in Instructions /\ Len(c) \in Nat \ {0}
        /\ k \in 0..(Len(c) - 1) /\ k + 1 \in 1..Len(c)
    BY ComesTo DEF MachineInv
  <1>2. index[s] = Share * (s - 1)
    BY DEF OrderInv
  <1>3. Here = index[s] + Offset(c, k)
    BY InstructionInOrder DEF Here
  <1>4. Operands.end = Here + Len(bytes)
    <2>1. Opcode \in DOMAIN OpTab
      BY DEF Decoded, Fetched, OpTab
    <2>. QED
      BY <2>1, InstructionDecoded
  <1>5. done[s] \in Nat
    BY RingAssumption, SMT DEF MachineInv, StateTypes, Loaded, Pool
  <1>6. /\ k \in 0..(Len(c) - 1)
        /\ (done[s] + 1) % Len(c) = IF k + 1 = Len(c) THEN 0 ELSE k + 1
    BY <1>1, <1>5, NextRemainder DEF Position
  <1> DEFINE kk == (done[s] + 1) % Len(c)
  <1>7. AtInstruction(s)' <=> \/ counter'[s] = Offset(c, kk)
                              \/ kk = 0 /\ counter'[s] = Len(Code(c))
    BY DEF AtInstruction, Position
  <1>. HIDE DEF c, k, bytes
  <1>8. /\ Offset(c, k) \in Nat /\ Len(bytes) \in Nat
        /\ Offset(c, k + 1) = Offset(c, k) + Len(bytes)
    <2>1. (k + 1) - 1 = k
      BY <1>1
    <2>. QED
      BY <1>1, <2>1, InstructionInCode DEF bytes
  <1>9. counter'[s] = Offset(c, k + 1)
    <2>1. index[s] \in Int
      BY <1>2, ShareFacts
    <2>. QED
      BY <1>3, <1>4, <1>8, <2>1 DEF Behind
  <1>10. k + 1 = Len(c) => Offset(c, k + 1) = Len(Code(c))
    BY <1>1, UntilAll DEF Offset
  <1>. QED
    BY <1>6, <1>7, <1>9, <1>10

LEMMA InitOrder == MachineInit /\ WholeInstructions => OrderInv
  <1> SUFFICES ASSUME MachineInit, WholeInstructions PROVE OrderInv
    OBVIOUS
  <1>1. hex_memory = Image([s \in Loaded |-> Code(program[s])])
    BY DEF MachineInit
  <1>2. ASSUME NEW s \in Loaded
        PROVE  index[s] = Share * (s - 1) /\ AtInstruction(s)
    <2>1. s \in Pool /\ s <= N
      BY RingAssumption, SMT DEF Loaded, Pool
    <2>2. index[s] = Share * (s - 1) /\ counter[s] = 0 /\ done[s] = 0
      BY <2>1 DEF MachineInit
    <2>3. program[s] \in Instructions /\ program[s] # <<>>
      BY DEF MachineInit, WholeInstructions, Instructions
    <2>4. Len(program[s]) \in Nat \ {0}
      BY <2>3, LenProperties, EmptySeq DEF Instructions
    <2>5. 0 % Len(program[s]) = 0
      <3>1. \A n \in Nat \ {0} : 0 % n = 0
        OBVIOUS
      <3>. QED
        BY <2>4, <3>1
    <2>6. Offset(program[s], 0) = 0
      BY <2>3, OffsetNone
    <2>. QED
      BY <2>2, <2>5, <2>6 DEF AtInstruction, Position
  <1>. QED
    BY <1>1, <1>2 DEF OrderInv

(***************************************************************************)
(* A step moves only the process whose turn it is, past the instruction it  *)
(* executes or nowhere, and the clone that it makes.                        *)
(***************************************************************************)
LEMMA OrderStep ==
    ASSUME WholeInstructions, MachineInv, OrderInv, [MachineNext]_<<vars, machineVars>>
    PROVE  OrderInv'
  <1>1. /\ StateTypes /\ Owners /\ RingTypeOK /\ current \in Procs /\ current \in Pool
        /\ index \in [Pool -> Int] /\ counter \in [Pool -> Int] /\ done \in [Pool -> Nat]
    <2>1. StateTypes /\ Owners /\ RingTypeOK /\ current \in Procs
      BY DEF MachineInv, SchedInv, TypeInv, TypeOK
    <2>2. current \in Pool
      BY <2>1, RingAssumption, SMT DEF RingTypeOK, Procs, Pool
    <2>. QED
      BY <2>1, <2>2 DEF StateTypes
  <1>2. UNCHANGED codeVars
    BY DEF MachineNext, Between, Reset, Wait, MeetInvalid, MeetZero, Stay, DoLive, DoFork,
           DoOther, Executed, Crash, machineVars
  <1>3. ASSUME NEW s \in Loaded
        PROVE  /\ index'[s] = index[s]
               /\ \/ counter'[s] = counter[s] /\ done'[s] = done[s]
                  \/ counter'[s] = InstructionIndex(s) /\ done'[s] = done[s]
                  \/ /\ s = current /\ Decoded
                     /\ counter'[s] = Behind /\ done'[s] = done[s] + 1
    <2>1. s \in Pool /\ s # nprocs + 1
      BY <1>1, FirstProcess
    <2>2. CASE UNCHANGED <<index, counter, done>>
      BY <2>2
    <2>3. CASE Wait \/ MeetInvalid \/ MeetZero
      BY <1>1, <2>1, <2>3 DEF Wait, MeetInvalid, MeetZero, Stay
    <2>4. CASE DoLive
      BY <1>1, <2>1, <2>4 DEF DoLive, Executed
    <2>5. CASE DoFork
      BY <1>1, <2>1, <2>5 DEF DoFork, Executed
    <2>6. ASSUME NEW stray \in Stray, DoOther(stray)
          PROVE  /\ UNCHANGED index /\ Decoded
                 /\ counter' = [counter EXCEPT ![current] = Behind]
                 /\ done' = [done EXCEPT ![current] = @ + 1]
      BY <2>6 DEF DoOther, Executed
    <2>7. CASE \E stray \in Stray : DoOther(stray)
      BY <1>1, <2>1, <2>6, <2>7
    <2>. QED
      BY <2>2, <2>3, <2>4, <2>5, <2>7
         DEF MachineNext, Between, Reset, Crash, machineVars, stateVars
  <1>4. ASSUME NEW s \in Loaded PROVE AtInstruction(s)'
    <2>1. CASE counter'[s] = counter[s] /\ done'[s] = done[s]
      BY <1>2, <2>1 DEF OrderInv, AtInstruction, Position, codeVars
    <2>2. CASE counter'[s] = InstructionIndex(s) /\ done'[s] = done[s]
      <3>1. counter'[s] = Offset(program[s], Position(s))
        BY <2>2, InstructionInOrder
      <3>. QED
        BY <1>2, <2>2, <3>1 DEF AtInstruction, Position, codeVars
    <2>3. CASE /\ s = current /\ Decoded
               /\ counter'[s] = Behind /\ done'[s] = done[s] + 1
      BY <1>2, <2>3, GoesOn DEF codeVars
    <2>. QED
      BY <1>3, <2>1, <2>2, <2>3
  <1>. QED
    BY <1>2, <1>3, <1>4 DEF OrderInv, codeVars

-----------------------------------------------------------------------------
(* The theorems *)

(***************************************************************************)
(* The process a champion begins with executes the instructions of its      *)
(* program in their order, over and over: no jump, no store and no fork of  *)
(* anybody makes it do anything else, for any champions and any programs    *)
(* whose instructions are whole.                                            *)
(***************************************************************************)
THEOREM ProgramsRunInOrder == WholeInstructions => (MachineSpec => []ProgramOrder)
  <1> SUFFICES ASSUME WholeInstructions PROVE MachineSpec => []ProgramOrder
    OBVIOUS
  <1> DEFINE Inv == MachineInv /\ OrderInv
  <1>1. MachineInit => Inv
    BY InitTypes, InitOrder
  <1>2. Inv /\ [MachineNext]_<<vars, machineVars>> => Inv'
    BY StateStep, OrderStep
  <1>3. Inv => ProgramOrder
    <2> SUFFICES ASSUME Inv, NEW s \in Loaded
                 PROVE  InstructionIndex(s) = Len(Code(SubSeq(program[s], 1, done[s] % Len(program[s]))))
      BY DEF ProgramOrder
    <2>. QED
      BY InstructionInOrder DEF Offset, Until, Position
  <1>. QED
    BY <1>1, <1>2, <1>3, PTL DEF MachineSpec

(* Where the machine is stopped for reading outside of hex_memory, it is a  *)
(* clone's turn, or an operation with one argument is the last in memory.   *)
LEMMA ReadsOutside ==
    ASSUME WholeInstructions, MachineInv, OrderInv, Crash("hex_memory")
    PROVE  current > N \/ (Here + 5 = MEM_SIZE /\ NbrArgs(Op) = 1)
  <1> SUFFICES ASSUME ~(current > N) PROVE Here + 5 = MEM_SIZE /\ NbrArgs(Op) = 1
    OBVIOUS
  <1>1. current \in Loaded
    <2>1. current \in Procs /\ RingTypeOK
      BY DEF MachineInv, SchedInv, TypeInv, TypeOK
    <2>. QED
      BY <2>1, RingAssumption, SMT DEF RingTypeOK, Procs, Loaded
  <1> DEFINE bytes == program[current][Position(current) + 1]
  <1>2. /\ Len(bytes) \in Nat \ {0} /\ Here \in Cells /\ Here + Len(bytes) <= MEM_SIZE
    BY <1>1, InstructionLies
  <1>3. Fetched /\ Operands.last \notin Cells
    BY <1>2 DEF Crash, Decoded
  <1>4. /\ Operands.end = Here + Len(bytes)
        /\ Operands.last = IF NbrArgs(Op) = 1 THEN Here + 5 ELSE Operands.end - 1
        /\ NbrArgs(Op) = 1 => Len(bytes) = 5
    <2>1. Opcode \in DOMAIN OpTab
      BY <1>3 DEF Fetched, OpTab
    <2>. QED
      BY <1>1, <2>1, InstructionDecoded
  <1>. HIDE DEF bytes
  <1>5. MEM_SIZE \in Nat /\ Here \in Nat
    BY <1>2, ShareFacts DEF Cells
  <1>6. NbrArgs(Op) = 1
    <2>1. SUFFICES ASSUME NbrArgs(Op) # 1 PROVE FALSE
      OBVIOUS
    <2>2. Operands.last = Here + Len(bytes) - 1
      <3>1. Operands.last = Operands.end - 1 /\ Operands.end = Here + Len(bytes)
        BY <1>4, <2>1
      <3>. QED
        BY <1>2, <1>5, <3>1
    <2> DEFINE l == Len(bytes)
    <2>3. l \in Nat \ {0} /\ Here + l <= MEM_SIZE /\ Operands.last = Here + l - 1
      BY <1>2, <2>2
    <2>. HIDE DEF l
    <2>4. Here + l - 1 \in Cells
      BY <1>5, <2>3 DEF Cells
    <2>5. Operands.last \in Cells
      BY <2>3, <2>4
    <2>. QED
      BY <1>3, <2>5
  <1>7. Here + 5 <= MEM_SIZE /\ Here + 5 \notin Cells
    BY <1>2, <1>3, <1>4, <1>6
  <1>. QED
    BY <1>5, <1>6, <1>7 DEF Cells

(***************************************************************************)
(* The process a champion begins with never reads outside of hex_memory,    *)
(* whatever clones do to its champion's registers and counter, but for the  *)
(* byte behind the memory that an operation with one argument reads where   *)
(* it is the last.                                                          *)
(***************************************************************************)
THEOREM FirstProcessesStayInside == WholeInstructions => (MachineSpec => []OnlyClonesCrash)
  <1> SUFFICES ASSUME WholeInstructions PROVE MachineSpec => []OnlyClonesCrash
    OBVIOUS
  <1> DEFINE Inv == MachineInv /\ OrderInv /\ OnlyClonesCrash
  <1>1. MachineInit => Inv
    <2>1. MachineInit => OnlyClonesCrash
      BY DEF MachineInit, OnlyClonesCrash
    <2>. QED
      BY <2>1, InitTypes, InitOrder
  <1>2. ASSUME Inv, [MachineNext]_<<vars, machineVars>> PROVE OnlyClonesCrash'
    <2>0. ASSUME UNCHANGED <<current, player, program, hex_memory, index, counter>>
          PROVE  current' = current /\ Here' = Here /\ Op' = Op
      <3>1. SizeOf(current)' = SizeOf(current)
        BY <2>0 DEF SizeOf, FindChampion
      <3>2. Here' = Here
        BY <2>0, <3>1 DEF Here, InstructionIndex
      <3>3. Opcode' = Opcode
        BY <2>0, <3>2 DEF Opcode, Byte, Cell
      <3>. QED
        BY <2>0, <3>2, <3>3 DEF Op
    <2>1. CASE UNCHANGED <<vars, machineVars>>
      <3>1. /\ UNCHANGED <<current, player, program, hex_memory, index, counter, stopped>>
            /\ stopped' = stopped
        BY <2>1 DEF vars, turnVars, ringVars, machineVars, codeVars, stateVars
      <3>2. current' = current /\ Here' = Here /\ Op' = Op
        BY <2>0, <3>1
      <3>. QED
        BY <1>2, <3>1, <3>2 DEF OnlyClonesCrash, NbrArgs
    <2>2. CASE Crash("hex_memory")
      <3>1. current > N \/ (Here + 5 = MEM_SIZE /\ NbrArgs(Op) = 1)
        BY <1>2, <2>2, ReadsOutside
      <3>2. UNCHANGED <<current, player, program, hex_memory, index, counter>>
        BY <2>2 DEF Crash, vars, turnVars, ringVars, codeVars, stateVars
      <3>3. /\ current' = current /\ Here' = Here /\ Op' = Op
        BY <2>0, <3>2
      <3>. QED
        BY <3>1, <3>3 DEF OnlyClonesCrash, NbrArgs
    <2>3. CASE MachineNext /\ ~Crash("hex_memory")
      <3>1. stopped' # "hex_memory"
        BY <2>3 DEF MachineNext, Between, Reset, Wait, MeetInvalid, MeetZero, Stay, MyTurn,
                    DoLive, DoFork, DoOther, Decoded, Fetched, Executed, Crash, Arrays,
                    machineVars
      <3>. QED
        BY <3>1 DEF OnlyClonesCrash
    <2>. QED
      BY <1>2, <2>1, <2>2, <2>3
  <1>3. Inv /\ [MachineNext]_<<vars, machineVars>> => Inv'
    BY <1>2, StateStep, OrderStep
  <1>. QED
    BY <1>1, <1>3, PTL DEF MachineSpec
=============================================================================
