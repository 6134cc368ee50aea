------------------------------- MODULE Loader -------------------------------
(***************************************************************************)
(* How a game is set up: parse_args (parse_args.c) walks the arguments,     *)
(* add_champion and load_instructions (vm.c) number the champions and put   *)
(* their code into memory, build_processes (process.c) places the processes.*)
(*                                                                          *)
(* An argument is a token: what strstr and strcmp make of it, what atoi     *)
(* makes of it when it stands where a value is expected, and, for the name  *)
(* of a .cor file, whether it can be loaded and how many bytes of code      *)
(* parse_instructions keeps of it.                                          *)
(***************************************************************************)
EXTENDS Integers, Sequences, FiniteSets, FiniteSetsExt

CONSTANTS
    MEM_SIZE,       \* cells of core->hex_memory
    MAX_CHAMPIONS,  \* slots of core->champions
    Tokens,         \* the arguments a command line is made of
    MaxArgs,        \* bound of the model: arguments on a command line
    Garbage         \* what parse_args may find in set_id, never initialised

Kinds == {"-dump", "-n", "dash", "cor", "badcor", "word"}

ASSUME LoaderAssumption ==
    /\ MEM_SIZE \in Nat \ {0}
    /\ MAX_CHAMPIONS \in Nat \ {0}
    /\ MaxArgs \in Nat
    /\ Tokens \subseteq [kind : Kinds, value : Int, size : 0..MEM_SIZE]
    /\ Garbage \subseteq Int

CommandLines == UNION {[1..n -> Tokens] : n \in 0..MaxArgs}

VARIABLES
    av,         \* the arguments
    at,         \* parse_args: i
    set_id,     \* parse_args: set_id
    dump,       \* core->dump
    champions,  \* core->champions, the loaded slots: number and size of code
    loaded,     \* load_instructions: i, slots whose code is in memory
    memory,     \* core->hex_memory: <<slot, offset>> of a byte of code, or Zero
    processes,  \* build_processes: player and index of each process
    pc          \* "args", "load", "build", "ready", "playing", "exit",
                \* "crashed" or "corrupt"

lvars == <<av, at, set_id, dump, champions, loaded, memory, processes, pc>>

Zero == <<0, 0>>
Cells == 0..(MEM_SIZE - 1)
Count == Len(champions)
Share == MEM_SIZE \div Count

(* A slip of load_instructions: the share of a full house. *)
StartOfFour(s) == (MEM_SIZE \div MAX_CHAMPIONS) * (s - 1)
StartOf(s) == Share * (s - 1)

TypeOK ==
    /\ av \in CommandLines
    /\ at \in 1..(Len(av) + 1)
    /\ set_id \in Int
    /\ dump \in Int
    /\ champions \in Seq([id : Int, size : 0..MEM_SIZE])
    /\ loaded \in 0..Count
    /\ memory \in [Cells -> (0..MAX_CHAMPIONS) \X Cells]
    /\ processes \in Seq([player : Int, index : Cells])
    /\ pc \in {"args", "load", "build", "ready", "playing", "exit", "crashed", "corrupt"}

Init ==
    /\ av \in CommandLines
    /\ at = 1
    /\ set_id \in Garbage
    /\ dump = 0
    /\ champions = <<>>
    /\ loaded = 0
    /\ memory = [a \in Cells |-> Zero]
    /\ processes = <<>>
    /\ pc = IF av = <<>> THEN "exit" ELSE "args"

-----------------------------------------------------------------------------
(* parse_args, one argument a step *)

More == pc = "args" /\ at <= Len(av)
Kind == av[at].kind
HasValue == at + 1 <= Len(av)

ReadDump ==
    /\ More /\ Kind = "-dump" /\ HasValue
    /\ dump' = av[at + 1].value
    /\ at' = at + 2
    /\ UNCHANGED <<av, set_id, champions, loaded, memory, processes, pc>>

ReadNumber ==
    /\ More /\ Kind = "-n" /\ HasValue
    /\ set_id' = av[at + 1].value
    /\ at' = at + 2
    /\ UNCHANGED <<av, dump, champions, loaded, memory, processes, pc>>

(* An option without its value, any other "-", a file that is no champion. *)
Refuse ==
    /\ More
    /\ (Kind \in {"-dump", "-n"} /\ ~HasValue) \/ Kind \in {"dash", "badcor"}
    /\ pc' = "exit"
    /\ UNCHANGED <<av, at, set_id, dump, champions, loaded, memory, processes>>

IgnoreWord ==
    /\ More /\ Kind = "word"
    /\ at' = at + 1
    /\ UNCHANGED <<av, set_id, dump, champions, loaded, memory, processes, pc>>

(* Slips: the number is kept for the next champion, one slot too many. *)
KeepNumber == set_id
OneSlotMore == Count <= MAX_CHAMPIONS

AfterUse == 0
SlotFree == Count < MAX_CHAMPIONS

(***************************************************************************)
(* init_champion, create_champion and add_champion.  A number that is not 0 *)
(* is used once; otherwise the champion is numbered by its position.        *)
(***************************************************************************)
Numbered(number) == [id |-> IF number # 0 THEN number ELSE Count + 1, size |-> av[at].size]

AddChampion ==
    /\ More /\ Kind = "cor" /\ SlotFree
    /\ champions' = Append(champions, Numbered(set_id))
    /\ set_id' = AfterUse
    /\ at' = at + 1
    /\ UNCHANGED <<av, dump, loaded, memory, processes, pc>>

(* add_champion does not look at MAX_CHAMPIONS: it writes past the slots. *)
AddOneTooMany ==
    /\ More /\ Kind = "cor" /\ ~SlotFree
    /\ champions' = Append(champions, Numbered(set_id))
    /\ pc' = "corrupt"
    /\ UNCHANGED <<av, at, set_id, dump, loaded, memory, processes>>

EndArgs ==
    /\ pc = "args" /\ at > Len(av)
    /\ pc' = "load"
    /\ UNCHANGED <<av, at, set_id, dump, champions, loaded, memory, processes>>

-----------------------------------------------------------------------------
(* load_instructions, one slot a step *)

Slot == loaded + 1

LoadSlot ==
    /\ pc = "load" /\ loaded < Count
    /\ StartOf(Slot) + champions[Slot].size <= MEM_SIZE
    /\ memory' = [a \in Cells |->
                     IF a - StartOf(Slot) \in 0..(champions[Slot].size - 1)
                     THEN <<Slot, a - StartOf(Slot)>> ELSE memory[a]]
    /\ loaded' = Slot
    /\ UNCHANGED <<av, at, set_id, dump, champions, processes, pc>>

(* The code is not checked against the end of the memory either. *)
LoadPastTheEnd ==
    /\ pc = "load" /\ loaded < Count
    /\ StartOf(Slot) + champions[Slot].size > MEM_SIZE
    /\ pc' = "corrupt"
    /\ UNCHANGED <<av, at, set_id, dump, champions, loaded, memory, processes>>

EndLoad ==
    /\ pc = "load" /\ loaded = Count
    /\ pc' = "build"
    /\ UNCHANGED <<av, at, set_id, dump, champions, loaded, memory, processes>>

(* A slip of build_processes: the memory is shared by one more. *)
IndexOfOneMore(s) == (MEM_SIZE \div (Count + 1)) * (s - 1)
IndexOf(s) == IF s = 1 THEN 0 ELSE (MEM_SIZE \div Count) * (s - 1)

(* build_processes: the head at cell 0, even when there is no champion. *)
BuildProcesses ==
    /\ pc = "build"
    /\ processes' = [s \in 1..(IF Count = 0 THEN 1 ELSE Count) |->
                        [player |-> IF Count = 0 THEN 0 ELSE champions[s].id,
                         index  |-> IndexOf(s)]]
    /\ pc' = "ready"
    /\ UNCHANGED <<av, at, set_id, dump, champions, loaded, memory>>

(***************************************************************************)
(* The first turn of run_instructions: the head's counter is taken modulo   *)
(* the size of its champion's code, a division by 0 when that is empty.     *)
(***************************************************************************)
FirstTurn ==
    /\ pc = "ready"
    /\ pc' = IF Count = 0 \/ champions[1].size = 0 THEN "crashed" ELSE "playing"
    /\ UNCHANGED <<av, at, set_id, dump, champions, loaded, memory, processes>>

Next ==
    \/ ReadDump \/ ReadNumber \/ Refuse \/ IgnoreWord
    \/ AddChampion \/ AddOneTooMany \/ EndArgs
    \/ LoadSlot \/ LoadPastTheEnd \/ EndLoad
    \/ BuildProcesses \/ FirstTurn

Spec == Init /\ [][Next]_lvars
-----------------------------------------------------------------------------
(* Properties *)

SetUp == pc \in {"ready", "playing"} /\ Count > 0

(***************************************************************************)
(* load_instructions and build_processes compute the addresses each on its  *)
(* own, and code is copied without looking at what is there.  Still every   *)
(* process starts at the first byte of its own champion's code, and finds   *)
(* it whole as long as it is no longer than one champion's share, however   *)
(* long the others are.                                                     *)
(***************************************************************************)
StartsOnOwnCode ==
    SetUp => \A s \in 1..Count : \A j \in 0..(champions[s].size - 1) :
                /\ processes[s].player = champions[s].id
                /\ j < Share => memory[processes[s].index + j] = <<s, j>>

(***************************************************************************)
(* README.md:39, without -a the processes are placed as far apart as        *)
(* possible: on the circle of the memory no two of them are nearer than an  *)
(* equal share of it, for numbers of champions that divide it or not.       *)
(***************************************************************************)
FarApart ==
    SetUp => \A s, t \in 1..Count :
                s # t => (processes[s].index - processes[t].index) % MEM_SIZE >= Share

(* The arguments parse_args takes as the value of the option before them. *)
IsValue == LET v[p \in 0..Len(av)] ==
                   /\ p > 1
                   /\ ~v[p - 1]
                   /\ av[p - 1].kind \in {"-dump", "-n"}
           IN  v
Files == {p \in DOMAIN av : av[p].kind = "cor" /\ ~IsValue[p]}
Rank(p) == Cardinality({f \in Files : f <= p})
Asked(p) == {q \in DOMAIN av : /\ q < p /\ av[q].kind = "-n" /\ ~IsValue[q]
                               /\ \A f \in Files : ~(q < f /\ f < p)}

(***************************************************************************)
(* Each champion has the number of the last -n between it and the champion  *)
(* before it, and its position if there is none or it is 0: a number is     *)
(* neither forgotten nor used for two.  Only the first champion can get the *)
(* value that happens to be in set_id.  (By README.md:37 a champion without *)
(* -n has the first free number: its position may be taken, -n 2 a.cor      *)
(* b.cor gives 2 twice.  EveryGameEnds shows what may come of it.)          *)
(***************************************************************************)
NumbersAsGiven ==
    \A p \in Files : Rank(p) <= Count =>
        LET k == Rank(p)
            given == IF Asked(p) = {} THEN 0 ELSE av[Max(Asked(p)) + 1].value
            default == {k} \cup IF k = 1 /\ Asked(p) = {} THEN Garbage ELSE {}
        IN  champions[k].id \in IF given # 0 THEN {given} ELSE default

(***************************************************************************)
(* A file that is the value of an option is no champion, any other is one:  *)
(* a game is set up only with all the champions that are named, none twice, *)
(* and with no more of them than slots.                                     *)
(***************************************************************************)
AllInSlots == SetUp => Count = Cardinality(Files) /\ Count <= MAX_CHAMPIONS
=============================================================================
