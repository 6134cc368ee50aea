------------------------------ MODULE Machine ------------------------------
(***************************************************************************)
(* The game with its memory: what a process meets in its turn is decoded    *)
(* from the bytes at its counter (instructions.c), and the operations       *)
(* (operations/) work on the champion's registers, carry and counter and on *)
(* core->memory.  Each step of Machine is a step of Game that is no longer  *)
(* a choice; once the programs are chosen the game is determined.           *)
(***************************************************************************)
EXTENDS Game, Decoder, SequencesExt

CONSTANTS
    MEM_SIZE,    \* cells of core->hex_memory and of core->memory
    IDX_MOD,
    REG_NUMBER,
    IntBits,     \* the width of an int
    Programs,    \* what a champion's code may be: a sequence of instructions,
                 \* each the sequence of its bytes
    Fill,        \* what the allocator leaves in the first bytes it returns
    Filled,      \* cells of core->memory that are among these bytes
    Stray        \* what may lie below core->memory

Cells == 0..(MEM_SIZE - 1)
Share == MEM_SIZE \div N

(* The code as it is in the file, without the bounds of the instructions. *)
Code(instructions) == FlattenSeq(instructions)

(* The values of an int. *)
Word == -(2^(IntBits - 1))..(2^(IntBits - 1) - 1)

ASSUME MachineAssumption ==
    /\ MEM_SIZE \in Nat \ {0} /\ IDX_MOD \in 1..MEM_SIZE
    /\ REG_NUMBER \in Nat \ {0} /\ IntBits \in Nat \ {0}
    /\ \A c \in Programs : Code(c) \in Seq(0..255) /\ Len(Code(c)) \in 1..Share
    /\ Fill \in Word /\ Fill < 0 /\ Filled \in Nat /\ Stray \subseteq Int /\ Stray # {}
    /\ \A s \in Loaded : Id[s] \in Word
    /\ Mnemonics = {OpTab[o] : o \in DOMAIN OpTab}
    /\ DistinctNumbers  \* Game has games of others too

VARIABLES
    program,     \* the instructions of each champion
    hex_memory,  \* core->hex_memory
    index,       \* process->index
    counter,     \* process->counter
    fields,      \* a champion from its registers on: see below
    memory,      \* core->memory, the ints ldi reads and st writes
    stopped,     \* the array the machine was stopped for going out of, or "none"
    done         \* instructions each process has executed (an auxiliary variable)

Arrays == {"hex_memory", "memory", "registers"}

codeVars == <<program, hex_memory>>
stateVars == <<index, counter, fields, memory, done>>
machineVars == <<codeVars, stateVars, stopped>>

(***************************************************************************)
(* Registers are indexed by operands nobody checks, in struct champion, so  *)
(* the fields behind them are registers too: registers[REG_NUMBER] is the   *)
(* counter, registers[REG_NUMBER + 1] the carry flag, and what is behind    *)
(* them is as malloc returned it until it is written.                       *)
(***************************************************************************)
COUNTER == REG_NUMBER
CARRY == REG_NUMBER + 1
Field(f, r) == IF r \in DOMAIN f THEN f[r] ELSE Fill

(* A slip: a register is an unsigned enum. *)
WrapUnsigned(v) == v % 2^IntBits
Wrap(v) == ((v + 2^(IntBits - 1)) % 2^IntBits) - 2^(IntBits - 1)
Put(f, r, v) == [q \in DOMAIN f \cup {r} |-> IF q = r THEN Wrap(v) ELSE f[q]]
PutWithCarry(f, r, v) == Put(Put(f, r, v), CARRY, IF Wrap(v) = 0 THEN 1 ELSE 0)

(* The remainder of C, negative for a negative dividend. *)
Rem(v, m) == IF v >= 0 THEN v % m ELSE -((-v) % m)

(* load_instructions and build_processes, for code no longer than its share. *)
Image(codes) ==
    [a \in Cells |->
        LET s == (a \div Share) + 1  offset == a % Share
        IN  IF s \in Loaded /\ offset < Len(codes[s]) THEN codes[s][offset + 1] ELSE Blank]

MachineInit ==
    /\ Init
    /\ program \in [Loaded -> Programs]
    /\ hex_memory = Image([s \in Loaded |-> Code(program[s])])
    /\ index = [p \in Pool |-> IF p <= N THEN Share * (p - 1) ELSE 0]
    /\ counter = [p \in Pool |-> 0]
    /\ fields = [s \in Loaded |-> [r \in 0..CARRY |-> IF r = 0 THEN Id[s] ELSE 0]]
    /\ memory = [a \in Cells |-> IF a < Filled THEN Fill ELSE 0]
    /\ stopped = "none"
    /\ done = [p \in Pool |-> 0]

-----------------------------------------------------------------------------
(* Where a process stands, and what it finds there *)

(* Slips: the champion of the head answers, the counter is not wrapped. *)
FindHeadsChampion(id) == HeadProc

(* find_champion: the first slot with the number. *)
FindChampion(id) == CHOOSE s \in Loaded : Id[s] = id /\ \A t \in 1..(s - 1) : Id[t] # id

SizeOf(p) == Len(Code(program[FindChampion(player[p])]))

NotWrapped(p) == counter[p]
InstructionIndex(p) == IF counter[p] >= SizeOf(p) THEN counter[p] % SizeOf(p) ELSE counter[p]

Here == index[current] + InstructionIndex(current)
Opcode == Byte(hex_memory, Here)
Op == OpTab[Opcode]
Champion == FindChampion(player[current])
F == fields[Champion]

MyTurn == pc = "turn" /\ stopped = "none"

(* A slip: what is no opcode is passed over. *)
StayUnlessInvalid ==
    /\ counter' = [counter EXCEPT ![current] =
                       InstructionIndex(current) + (IF Opcode \in DOMAIN OpTab THEN 0 ELSE 1)]
    /\ UNCHANGED <<codeVars, index, fields, memory, stopped, done>>

(* An early return leaves the process where it is, with its counter wrapped. *)
Stay ==
    /\ counter' = [counter EXCEPT ![current] = InstructionIndex(current)]
    /\ UNCHANGED <<codeVars, index, fields, memory, stopped, done>>

Wait == MyTurn /\ StillRunning /\ Stay
MeetInvalid == MyTurn /\ Here \in Cells /\ Opcode > Len(OpTab) /\ InvalidOpcode /\ Stay
MeetZero == MyTurn /\ Here \in Cells /\ Opcode = 0 /\ Nuked /\ Stay

Fetched == MyTurn /\ running[current] = 0 /\ Here \in Cells /\ Opcode \in 1..Len(OpTab)

Operands == BuildOperands(hex_memory, Here + 1, Op, Fill)
Decoded == Fetched /\ Operands.last \in Cells
-----------------------------------------------------------------------------
(* The operations, with operands x, on the fields of the process's champion *)

Becomes(f) == fields' = [fields EXCEPT ![Champion] = f]
Reg(x, j) == Field(F, x[j])

(* Words bit by bit, negative ones in two's complement. *)
Bits(v) == {b \in 0..(IntBits - 1) : (v \div 2^b) % 2 = 1}
OfBits(bs) == MapThenSumSet(LAMBDA b : 2^b, bs)

(* Arithmetic that is beyond the provers, which know no powers and no sums. *)
ASSUME WordAssumption ==
    /\ 2^(IntBits - 1) \in Nat \ {0} /\ 2^IntBits = 2 * 2^(IntBits - 1)
    /\ \A bs \in SUBSET (0..(IntBits - 1)) : OfBits(bs) \in Nat

Result(op, v, w) ==
    CASE op = "add" -> v + w
      [] op = "sub" -> v - w
      [] op = "and" -> OfBits(Bits(v) \cap Bits(w))
      [] op = "or"  -> OfBits(Bits(v) \cup Bits(w))
      [] op = "xor" -> OfBits((Bits(v) \cup Bits(w)) \ (Bits(v) \cap Bits(w)))

Calculate(x) ==
    /\ Op \in {"add", "sub", "and", "or", "xor"}
    /\ Becomes(PutWithCarry(F, x[3], Result(Op, Reg(x, 1), Reg(x, 2))))
    /\ UNCHANGED memory

(* Nothing is read from memory: the register gets the address. *)
Ld(x) ==
    /\ Op = "ld"
    /\ Becomes(Put(F, x[2], F[COUNTER] + Rem(x[1], IDX_MOD)))
    /\ UNCHANGED memory

Lld(x) ==
    /\ Op = "lld"
    /\ Becomes(PutWithCarry(F, x[2], x[1]))
    /\ UNCHANGED memory

(* The operands are registers, whatever their types say. *)
LoadAddress(op, x) ==
    LET sum == Wrap(Reg(x, 1) + Reg(x, 2))
    IN  Rem(IF op = "ldi" THEN Rem(sum, IDX_MOD) ELSE sum, MEM_SIZE)

LoadIndirect(x, stray) ==
    LET a == LoadAddress(Op, x)
        value == IF a \in Cells THEN memory[a] ELSE stray
    IN  /\ Op \in {"ldi", "lldi"}
        /\ Becomes(PutWithCarry(F, x[3], value))
        /\ UNCHANGED memory

(* st refuses what is no register, so an address is at most REG_NUMBER - 1. *)
BothRegisters(x) == x[1] \in 0..(REG_NUMBER - 1) /\ x[2] \in 0..(REG_NUMBER - 1)

StRefused(x) == Op = "st" /\ ~BothRegisters(x) /\ UNCHANGED <<fields, memory>>

StRegister(x) ==
    /\ Op = "st" /\ BothRegisters(x) /\ x[2] % 2 = 1
    /\ Becomes(Put(F, x[2], Reg(x, 1)))
    /\ UNCHANGED memory

(* What a write below core->memory overwrites is not modelled. *)
StoreAddress(x) == Rem(F[COUNTER] + Rem(x[2], IDX_MOD), MEM_SIZE)

StMemory(x) ==
    /\ Op = "st" /\ BothRegisters(x) /\ x[2] % 2 = 0
    /\ LET a == StoreAddress(x)
       IN  memory' = IF a \in Cells THEN [memory EXCEPT ![a] = Reg(x, 1)] ELSE memory
    /\ UNCHANGED fields

(* Nothing is stored: the register gets the address. *)
Sti(x) ==
    /\ Op = "sti"
    /\ Becomes(PutWithCarry(F, x[1], F[COUNTER] + Rem(x[2] + x[3], IDX_MOD)))
    /\ UNCHANGED memory

(* The champion's counter jumps, the process's does not. *)
Zjmp(x) ==
    /\ Op = "zjmp"
    /\ IF F[CARRY] = 1 THEN Becomes(Put(F, COUNTER, Rem(F[COUNTER] + x[1], IDX_MOD)))
                       ELSE UNCHANGED fields
    /\ UNCHANGED memory

Aff == Op = "aff" /\ UNCHANGED <<fields, memory>>

-----------------------------------------------------------------------------
(* A turn in which an instruction is executed, or the machine stopped *)

(* The operands an operation takes for registers without looking. *)
Unchecked(op) ==
    CASE op \in {"ld", "lld"} -> {2}
      [] op = "sti" -> {1}
      [] op \in {"add", "sub", "and", "or", "xor", "ldi", "lldi"} -> {1, 2, 3}
      [] OTHER -> {}

WildRegister == Decoded /\ \E j \in Unchecked(Op) : Operands.args[j] < 0

BelowMemory ==
    /\ Decoded /\ ~WildRegister
    /\ LET x == Operands.args
       IN  \/ Op \in {"ldi", "lldi"} /\ LoadAddress(Op, x) \notin Cells
           \/ Op = "st" /\ BothRegisters(x) /\ x[2] % 2 = 0 /\ StoreAddress(x) \notin Cells

(***************************************************************************)
(* What is found behind hex_memory is no pointer to a text, and an operand  *)
(* of no type is no register of anything.  Below core->memory there may be  *)
(* other memory, or none.                                                   *)
(***************************************************************************)
Crash(array) ==
    /\ MyTurn /\ running[current] = 0
    /\ \/ array = "hex_memory" /\ (Here \notin Cells \/ (Fetched /\ ~Decoded))
       \/ array = "registers" /\ WildRegister
       \/ array = "memory" /\ BelowMemory
    /\ stopped' = array
    /\ UNCHANGED <<vars, codeVars, stateVars>>

(* A slip: the address behind the instruction, not its distance. *)
AddressBehind == Operands.end
Behind == Operands.end - index[current]

Executed ==
    /\ done' = [done EXCEPT ![current] = @ + 1]
    /\ UNCHANGED <<codeVars, stopped>>

DoLive ==
    /\ Decoded /\ Op = "live"
    /\ ExecuteLive
    /\ counter' = [counter EXCEPT ![current] = Behind]
    /\ UNCHANGED <<index, fields, memory>>
    /\ Executed

(* The clone starts at an address of its own, with the counter of the head, *)
(* or, after lfork, with that address for a counter too.                    *)
DoFork ==
    LET sum == F[COUNTER] + Operands.args[1]
        address == IF Op = "fork" THEN Rem(sum, IDX_MOD) ELSE sum
        clone == nprocs + 1
    IN  /\ Decoded /\ Op \in Forks
        /\ ExecuteFork(Op)
        /\ index' = [index EXCEPT ![clone] = address]
        /\ counter' = [counter EXCEPT
                          ![clone] = IF Op = "fork" THEN counter[HeadProc] ELSE address,
                          ![current] = Behind]
        /\ UNCHANGED <<fields, memory>>
        /\ Executed

Effect(x, stray) ==
    \/ Calculate(x) \/ Ld(x) \/ Lld(x) \/ LoadIndirect(x, stray)
    \/ StRefused(x) \/ StRegister(x) \/ StMemory(x) \/ Sti(x)
    \/ Zjmp(x) \/ Aff

DoOther(stray) ==
    /\ Decoded /\ ~WildRegister /\ Op \notin Forks \cup {"live"}
    /\ ExecuteOther(Op)
    /\ Effect(Operands.args, stray)
    /\ counter' = [counter EXCEPT ![current] = Behind]
    /\ UNCHANGED index
    /\ Executed

Between == stopped = "none" /\ (KeepPlaying \/ StartRound) /\ UNCHANGED machineVars

(* reset_champ_counters *)
Reset ==
    /\ stopped = "none"
    /\ EndPeriod
    /\ fields' = [s \in Loaded |-> Put(fields[s], COUNTER, 0)]
    /\ UNCHANGED <<codeVars, index, counter, memory, stopped, done>>

MachineNext ==
    \/ Between \/ Reset
    \/ Wait \/ MeetInvalid \/ MeetZero
    \/ DoLive \/ DoFork
    \/ \E stray \in Stray : DoOther(stray)
    \/ \E array \in Arrays : Crash(array)

MachineSpec == MachineInit /\ [][MachineNext]_<<vars, machineVars>>
-----------------------------------------------------------------------------
(* Properties *)

MachineTypeOK ==
    /\ index \in [Pool -> Int] /\ counter \in [Pool -> Int]
    /\ \A s \in Loaded : {COUNTER, CARRY} \subseteq DOMAIN fields[s]
    /\ memory \in [Cells -> Word]
    /\ stopped \in Arrays \cup {"none"} /\ done \in [Pool -> Nat]

(***************************************************************************)
(* Programs of whole instructions: each begins with its opcode, has all its *)
(* operands, as build_operands takes them with nothing behind, and no more, *)
(* unless its opcode is none.                                               *)
(***************************************************************************)
Alone(bytes) == [a \in 0..(Len(bytes) - 1) |-> bytes[a + 1]]
WholeInstruction(bytes) ==
    /\ bytes # <<>>
    /\ bytes[1] \in DOMAIN OpTab =>
          BuildOperands(Alone(bytes), 1, OpTab[bytes[1]], Fill).end = Len(bytes)
WholeInstructions ==
    \A c \in Programs : /\ c \in Seq(Seq(0..255)) /\ c # <<>>
                        /\ \A k \in DOMAIN c : WholeInstruction(c[k])

(***************************************************************************)
(* The process a champion begins with executes the instructions of its code *)
(* in their order, over and over, however many bytes each has: operands are *)
(* taken to their end and the counter comes back to the first instruction   *)
(* from the last.  Neither a jump of any process, nor a store, nor a fork   *)
(* of another champion makes it do anything else.  (Of WholeInstructions.)  *)
(***************************************************************************)
ProgramOrder ==
    \A s \in Loaded :
        InstructionIndex(s) = Len(Code(SubSeq(program[s], 1, done[s] % Len(program[s]))))

(***************************************************************************)
(* The processes the champions begin with never read outside hex_memory,    *)
(* whatever clones with wild addresses do to their champion's registers;    *)
(* but for one: build_operands reads one cell too far for an operation with *)
(* one argument, which matters where it is the last of the memory.          *)
(***************************************************************************)
OnlyClonesCrash ==
    stopped = "hex_memory" =>
        current > N \/ (Here + 5 = MEM_SIZE /\ NbrArgs(Op) = 1)

(***************************************************************************)
(* A champion's registers, counter and carry change only in turns of its    *)
(* own processes and at the end of a period.  As every clone is the head's  *)
(* player's, nobody but its first process touches those of another champion.*)
(***************************************************************************)
OwnFieldsOnly ==
    [][\A s \in Loaded : pc = "turn" /\ fields'[s] # fields[s] =>
          current = s \/ (current > N /\ s = 1)]_<<vars, machineVars>>

(***************************************************************************)
(* A process that meets no opcode is stuck: it stands there for ever and    *)
(* executes nothing, as neither a store nor a jump nor a fork of another    *)
(* helps it.  A champion whose only process it is is not heard of again;    *)
(* that is every champion but the head's, which gets the others' clones.    *)
(* (README.md:53 says otherwise; InvalidPassedOver is that claim.)          *)
(***************************************************************************)
Stuck(p) ==
    LET here == index[p] + InstructionIndex(p)
    IN  here \in Cells /\ Byte(hex_memory, here) \notin DOMAIN OpTab
StuckForGood ==
    [][\A p \in Procs : Stuck(p) =>
          /\ Stuck(p)' /\ done'[p] = done[p]
          /\ p \in 2..N => champ_lives'[p] <= champ_lives[p]]_<<vars, machineVars>>
=============================================================================
