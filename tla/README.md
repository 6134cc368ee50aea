# Core War: a verification development

TLA+ models, TLC configurations and TLAPS proofs for the Core War virtual machine
of this repository. Paths are relative to the repository's root: the virtual
machine is in `src/`, the assembler in `assembler/`.

## 1. The system

Two programs that only meet in a `.cor` file.

The **virtual machine** (`corewar a.cor b.cor ...`) is one sequential thread:
`main` makes the core (`init_vm`), reads the arguments and loads the champions
(`parse_args`), and plays (`run_game`). What looks like concurrency is in the
machine's own scheduler: processes of several champions take turns on one
memory, one process list and one set of counters, and an instruction executed
in a turn may rewire the list the scheduler is walking.

| Part | State | Operations | Talks to |
|---|---|---|---|
| Set-up: `parse_args.c`, `vm.c`, `create_champion` in `champion.c` | `set_id`, `core->dump`, `core->champions`, `champion_count`, `core->hex_memory` | reading options, numbering a champion, copying its code, placing its process | fills the core before the first cycle |
| Game loop: `game.c`, `check_champion_lives` in `champion.c` | `nbr_cycles`, `cycle_to_die`, `lives`, `winner`, `champions[].lives`, `champions[].dead` | `game_on`, `check_champion_lives`, `find_winner`, `print_results` | calls the scheduler once a round; reads what `live` has counted |
| Scheduler: `run_instructions`, `run_instruction`, `execute_instruction` in `instructions.c` | `current`, `i`, `process->cycles_running`, `process->counter` | a round of `champion_count` turns, a turn | walks the process list; calls the operations |
| Process list: `process.c` | `core->process`, `process->next`, `process->player` | `build_processes`, `find_process`, `clone_process`, `fork_process` | rewired by `fork`/`lfork` while the scheduler walks it |
| Operations: `operations/`, `op.c` | registers, carry, counter, memory | the 16 instructions | `live` drives the game loop, `fork` and `lfork` the list, the others only the champion |
| Decoding: `build_operands` and its helpers in `instructions.c` | none of its own | opcode, argument types, operands | reads the memory |
| Output: `operations/utils.c` | none | logs, `display_memory` | reads |

The **assembler** is `tokenizer.c` (tokens of a line), `parser.c` (lines, sizes,
label addresses), `lookup_symbol.c` (the symbol table, a list), `encoder.c` (the
code, with an address counter of its own) and `compiler.c` (`main`). It is a sequential
program of two passes; its state is the header (size, kept instructions, labels) and, in
each pass, an address.

### What is hard about it

* **Forks in mid-round.** A fork overwrites the successor of one process and gives
  the clone the *head's* successor. The list stops being a ring through the head;
  the scheduler goes on along it, and `find_process` needs to come back to the head
  or to the player to return at all.
* **A walk that kills and counts.** `check_champion_lives` decides whether a silent
  champion is spared from a countdown it updates in the same loop, and returns out
  of the middle.
* **Counters reset in different places.** `core->lives`, `champions[].lives`, `dead`
  and the clock are reset by different functions under different conditions.
* **A clock looked at between rounds only**, that grows by whole instructions:
  periods overrun, and a comparison with `==` can be jumped over.
* **Termination.** The game ends only because each period is shorter than the last,
  so every period must end whatever the champions execute.
* **Numbers that are not unique.** `-n` may give one number to two champions, and
  `find_champion`, `update_champion_lives` and `find_process` treat that differently.
* **Addresses computed in two places**: where the code is loaded and where the process
  starts; in the assembler, where a label is and where its reference is: the first pass
  counts sizes the second does not write.
* **Text read piece by piece.** What kind of argument a text is, is decided three times (by
  the tokenizer, the description and the encoder), and a piece that no case of `lex_token`
  is for is not consumed.
* **Two programs, one format.** How long an operand is, is decided by the assembler from
  its text and by the machine from its bytes.

What makes each part correct:

* *Set-up*: every champion has the number it was given, and its process starts on its
  own code, as far as possible from the others.
* *Game loop*: a period is judged on time; the calls of a period are those counted;
  the last survivor is noticed; the game ends and announces a champion.
* *Scheduler and list*: the process whose turn it is is on the list; searches return; a
  fork touches only its own player's processes; what is off the list stays off.
* *Decoding and operations*: an instruction consumes the bytes it is made of, writes its
  own champion's fields only, the memory is read within its bounds, and a jump is taken.
* *Assembler*: every line is read to its end, a reference finds its label and is encoded
  as the distance to it, and the machine reads an instruction as it was written.

## 2. The modules

| Module | What it is |
|---|---|
| `ProcessRing` | the process list: `nprocs`, `next`, `player`; `build_processes`, `find_process`, `clone_process` + `fork_process` |
| `Game` | game loop, scheduler, `live`, `fork`, `lfork`; EXTENDS `ProcessRing` |
| `Tournament` | the abstract specification: who is alive, who has spoken, the shrinking period, the verdict |
| `GameLoops` | `Game` with `check_champion_lives` and `find_process` taken one iteration a step; shown to implement `Game` |
| `Loader` | the set-up, from the arguments to the first turn |
| `Decoder` | `build_operands` and its helpers: operands and length of the instruction at an address |
| `Machine` | the game with its memory, counters and registers, all sixteen operations; EXTENDS `Game`, `Decoder` |
| `Assembler` | the assembler: lines, labels and the two passes |
| `RoundTrip` | what `Assembler` writes, read by `Decoder`; EXTENDS both |
| `GameClaims`, `MachineClaims`, `AssemblerClaims` | statements of the documentation that the code does not keep |
| `MCGame`, `MCGameLoops`, `MCLoader`, `MCMachine`, `MCAssembler` | instances for TLC |
| `NumberProofs` | lemmas on numbers: least and greatest, induction, sums, concatenations, recursion |
| `GameProofs` | the theorems about the process list, the scheduler, periods, lives and the verdict, and the refinement of `Tournament` |
| `LoopsProofs` | the refinement of `Game` by `GameLoops` |
| `MachineProofs` | the theorems about `Machine`: the game it plays, its fields, its programs |
| `LoaderProofs` | the theorems about `Loader` |
| `AssemblerProofs`, `EncoderProofs` | the theorems about `Assembler`: its lines and labels; the bytes, the addresses and the references |
| `RoundTripProofs` | the theorems about `RoundTrip` |

A few definitions are marked "a slip": the same definition with a plausible mistake in
it. No action uses them; they are the mutations under which each property has been seen
to fail, listed in `PROJECT.json`.

### Correspondence

`ProcessRing`. A process is a number: 1 is `core->process`, `1..N` the processes of
`build_processes`, and each fork allocates the next. `find_process` is a walk along
`next`; `Visited(id)` is the set of processes its do-while loop looks at (the least set
with the head that is closed under going on), `SearchEnds(id)` says that one of them is
the player's or leads back to the head, and `FindProcess(id)` is what it returns. This
closed form needs no recursion, so the proofs can use it; `GameLoops` has the loop.
`CloneAndLink` is the body of `inst_fork` after the search, *with the head as what is
cloned*, as in the code.

`Game`. `pc` names the function the thread is in: `game_on`, `run_instructions` (about to
start a round), `turn` (in its loop), `over`, and `hung` (in a search that never ends).

* `KeepPlaying` and `EndPeriod` are `game_on` without and with its `if`: `EndPeriod` is the
  whole of it, up to both returns, with `check_champion_lives` in closed form.
* `StartRound` is `run_instructions` up to its loop, and each disjunct of `Turn` is one
  pass of the loop, one per return of `run_instruction`: still running, invalid opcode,
  opcode 0, `live`, the forks, all others. All of them end in `Advance`, which reads
  `current->next` *after* the turn.
* `execute_instruction` charges an operation's cycles to the period before it runs, and
  `cycles_running` is set after it; only the sign of `cycles_running` is tested, so what
  is negative in the code is 0 here.
* What a process finds in memory is not modelled: in each turn it may meet any opcode.
  This over-approximates every program, so safety carries over to each of them.
* `champ_lives` and `dead` are never initialised by the code. `champion_t` is so large
  that `malloc` takes it from fresh pages, which are 0; `Init` says so. The slots above
  `N` are part of the state because `find_winner` looks at them.

`Loader`. An argument is a token: its kind (what `strstr` and `strcmp` find), its value
(what `atoi` makes of it if it follows an option) and its size (how much code
`parse_instructions` keeps). `Garbage` is what the uninitialised `set_id` may hold.
`corrupt` is a state in which the code has written past an array; the model stops there.

`Decoder` has no state. Cells hold the byte their text spells; `Blank` is a cell nothing was
loaded into, which `strtol` reads as 0 but which is not the `"00"` that makes a direct
operand four bytes long. `GetValue` *adds* the bytes of an operand (at most four), as
`get_value` does.
The operand of an operation with one argument is the sum of three of its bytes and of the
byte behind it (`LastOfOne`): `temp_address` is incremented before the last one is read.

`Machine` has every turn of `Game` again, with what the process meets now read from
`hex_memory` at `index + counter`: each of its actions is an action of `Game` together with
what that does to the machine, so that `MachineNext` implies `Next` or, in `Crash`, a stutter.

* `fields` is a `champion_t` from its registers on. Operands index `registers` unchecked, and
  what lies behind `registers[15]` are `counter` and `carry_flag`: `fields[s][16]` and
  `fields[s][17]`.
* What is behind those, an operand whose description names no type, and the beginning of
  `core->memory` have never been written. The Makefile builds with the address sanitizer,
  whose `malloc` fills the first 4096 bytes it returns with `0xbe`: `Fill`, and `Filled`
  for how many ints of `core->memory` that is. The rest of `core->memory` is 0.
* A register holds a word of `IntBits` bits, kept signed (`Wrap`); `Rem` is C's remainder.
* `counter` is `process->counter`. The early returns of `run_instruction` leave the address
  where it was, but what is stored back is the wrapped counter: `Stay`.
* `Crash(array)` is an access outside an array that stops the machine: what lies behind
  `hex_memory` is no pointer to a text; a register numbered `Fill` is nowhere near the
  champion; below `core->memory` (`%` of a negative address) is what the sanitizer guards, or
  farther off other memory: there the model also goes on, with a value of `Stray`.
* `Reset` is the end of a period with `reset_champ_counters`.
* `done` counts the instructions a process has executed and is read by properties only.
* `Machine` was compared with the program: a build with the constants of `MCMachine` and
  16-bit registers played the 1331 games with a trace after each turn, and each of the
  55,024 states traced (clock, processes, registers and what is behind them, memory) is a
  state of the model; it stopped in the games in which the model has a `Crash`, and in no
  game without one did the model have a turn that was not traced.
* `MachineAssumption` asks for distinct numbers and for code that is not empty and fits its
  share; `Loader` has the other cases.

`Assembler`. A line is a sequence of lexemes, the pieces of text `lex_token` makes one token
of. A number keeps its value and its `lead`, what stands before its first digit: nothing, a
space or a zero (the encoder's `atoi` starts one character further; a lone `-` is a 0 behind
a space). Every other lexeme keeps the number behind its first character, which is what that
`atoi` finds: 300 in `%300`, in `r300` and in the bare name `x300`. A name is only known by the
names that are beginnings of it (`Begins`, what `strncmp` finds), by whether it has a digit
(what the encoder takes for a number) and by whether it is one letter: `encode_single` looks
for a reference's `:` at the place where the label `a:` has its own, and writes two bytes
for it (`ColonSecond`, `encode_direct`).

* `SkipLine`, `ReadLabel`, `ReadOpcode`, `ReadArgument` (one pass of the loop) and `EndLine`
  (the return, and what `parse_contents` does with it) are `parse_line`. At an unknown text
  `ReadArgument` changes nothing: that stutter is the endless loop of the code.
* A label is entered twice if nothing follows it in its line, once by `parse_line` and once
  by `parse_contents`, as in the code. `symbol_table` has the latest label first; the `line`
  of an entry is for the properties only.
* `EncodeInstruction` is one pass of the loop of `assemble`; the operators under it have the
  names of the functions of `encoder.c`. `out` keeps the instructions apart, so that the
  properties can say where each begins.
* Left out are the magic number, the name and the comment, which are copied, and the sources
  for which the code leaves its arrays (`AssemblerAssumption`): an unknown mnemonic, a name
  longer than its buffer, more than 1536 instructions, a number that is no int. Of the
  lexemes the assumption also says that a comment or a directive, which `lex_token` reads to
  the end of the line, is the last of its line; a directive among the arguments of an
  instruction is left out, as what is encoded of it depends on its text.
* `Assembler` was compared with the program, built from `assembler/`: all 8421 sources of up
  to three lines out of the twenty-two of `MCAssembler` without an unknown text, and 60
  sources with one (each did not end): the same bytes and the same sizes.

`RoundTrip` puts `out` at the beginning of a memory and reads each instruction with
`BuildOperands`; `InStep` says, from the source alone, which ones the machine reads to
their end.

`Tournament` does not know processes, cycles or memory. Under the mapping
`alive <- slots not dead, said <- those with lives > 0, budget <- cycle_to_die,
verdict <- announced`, `EndPeriod` is a `Judge`, `ExecuteLive` a `Speak` (or, from the
process of a dead champion, nothing), and every other step is a stutter. Its odd rules
are the code's: when nobody has spoken everybody dies, except that the last slot is
spared if it was still alive; and with no survivor a slot is announced that was never
loaded, if there is one.

## 3. The runs

| Run | Instance | Shows |
|---|---|---|
| `distinct` | 3 champions of distinct numbers, 3 forks, periods of 6, 4, 2 cycles, dump at 4, fairness | `TypeOK`; periods overrun by at most one round (`CheckPunctual`); the last survivor is noticed (`NoLoneSurvivor`); lives are neither lost nor counted twice (`LivesAccounted`); searches return (`SearchTerminates`); the turn is on the list (`CurrentReachable`); forks rewire only their own (`ForkRewiresOwn`); lost is lost (`LostForGood`); a process beyond the first `N` of the list never gets a turn again (`StarvedForGood`); `Game` implements `Tournament` (`IsTournament`), with its fairness (`IsFairTournament`); every game ends (`GameEnds`) |
| `samenumber` | 4 champions, slots 2 and 3 numbered 3, as by `a.cor -n 3 b.cor c.cor d.cor` | a search hangs only for a process that is off the list (`OnlyLostHang`); forks still keep to their number; still a tournament |
| `loops` | the same, 2 forks, no other operations | the two loops, iteration by iteration, are what `Game` does in one step; a search ends exactly if `SearchEnds` says so |
| `setup` | every command line of up to 5 arguments out of 9, memory of 10 cells, 3 slots | the processes start on their own code, far apart, with the numbers given (`StartsOnOwnCode`, `FarApart`, `NumbersAsGiven`); all champions named are there, in slots (`AllInSlots`); `TypeOK` |
| `machine` | 3 champions, each with one of 11 programs (1331 games), 63 cells | a champion's first process executes its program in order (`ProgramOrder`); only clones read outside `hex_memory`, but for the cell behind a last instruction that ends where the memory does (`OnlyClonesCrash`); nobody touches another champion's registers, counter or carry (`OwnFieldsOnly`); who meets no opcode is stuck and silent for good (`StuckForGood`); `MachineTypeOK` |
| `assemble` | every source of up to 3 lines out of 22 | a source is assembled exactly if it has no text `lex_token` does not know (`AssembledIffReadable`); the token loop keeps what the lines say (`ReadAsWritten`); where the passes' addresses differ (`FirstPassRunsAhead`) and that references are right, but for one byte, where they do not (`RelativeToItself`); which label a reference gets (`LatestOrLonger`); which instructions the machine reads to their end (`ReadToItsEnd`), which operands it gets as written (`OperandsSurvive`), and that it never gets the small one of `live`, `zjmp` or a fork (`LoneOperandIsNextOpcode`); `TypeOK` |

Runs that refute a statement of the documentation (one each):

| Run | Statement | The code |
|---|---|---|
| `lost` | README.md:3, programs execute simultaneously | a fork cuts processes off the list |
| `endless` | README.md:28, "until there are no live processes left"; README.md:37, a default number is the first free one | with two champions of one number `find_process` may walk for ever; a default number is the champion's position, which another may have |
| `jump` | README.md:82-84, zjmp jumps to this index if carry is 1; README.md:57 and 95, the parameters of `live` and `fork` | it moves the champion's counter; the scheduler reads the process's. And the champion's moves by 11 where 6 is written: the last byte of a lone operand is not read, the next opcode is added instead |
| `skipping` | README.md:53, at an invalid command the machine moves on | the process stays at it for ever |
| `labels` | README.md:82 and 120, the index of `zjmp` may be a label | what is written is not the distance to the code behind the label |
| `texts` | assembler/op.h:12 and README.md:177, `#` begins a comment; README.md:120, a direct is `%` and a value, as `ld %-6,r2` in players/fluttershy.s:27 | `lex_token` consumes nothing at `#` or `%-`, and the loop over the arguments does not end |

All of these were also seen in a build of the program. More disagreements were met that have
no run: `-dump` is made only if the clock stands at the cycle between two rounds, and may be
jumped over (README.md:35); an
instruction takes effect before its duration, not after (README.md:46); the turns of a
round go by slot, not by number (README.md:46); the period shrinks also without
`NBR_LIVE` calls (README.md:28); the processes of dead champions go on (op.h:171); the first
default number is not the first free number but what the uninitialised `set_id` holds
(README.md:37); when all champions
are dead a slot that was never loaded is announced (README.md:43); after a fork a living
champion may get no turn in a round, and then never again (README.md:46; `StarvedForGood`); a
fork clones the head of the list, not the process that forks (README.md:95; `Owners` in
`GameProofs` is the proof), and
the clone starts at an address below `IDX_MOD` rather than at a distance from its parent
(README.md:96); a fifth champion is added like the others, behind the four slots and the four
colours (vm.h:9, op.h:168; `Loader` stops at it, `pc = "corrupt"`; a build with the sanitizer
at the colour); programs cannot write on one another (README.md:3), because `st`
writes `core->memory` and code is in `core->hex_memory`; the number is in `registers[0]`,
which no encoded register names (README.md:43), and `r16` is the champion's counter; the
assembler does not come to its end over a mnemonic or label that begins with r either, as
programs of `players/` have; and the example of README.md:145-152 is encoded
`0b 68 02 00 00 00 17 00 22`, not `0b 78 02 00 17 00 00 00 22`.

### Bounds

* `MaxProcs`: processes ever allocated. The head, one fork of the head and one of another
  are enough for every shape of the list this code makes (a ring, a lasso, a part cut
  off); the runs have 2 or 3 forks, and the theorems any number. At the bound no fork is
  enabled; the process may still meet every other opcode, so nothing blocks.
* `CYCLE_TO_DIE`, `CYCLE_DELTA`, `NBR_LIVE`: three periods, ending by either condition,
  shorter than a round can charge, so that they overrun. Costs keep op_tab's order:
  `live` is cheaper than a period, `fork` keeps its process busy for several rounds.
* Champions: 3 are one more than the head and its neighbour, 4 are needed for a search
  that hangs (the head, two of a number, and one behind them); slots are 4 as in op.h, so
  3 leave one spare.
* `Loader`: 10 cells over 1, 2 or 3 champions, with and without a rest; code that is
  empty, fits every share, or fits only one champion alone; one `.cor` more than slots.
* `Machine`: shares of 21 cells, filled by the longest program to the last, so that code ends
  where the memory does; memory of both kinds (20 cells filled, the rest 0); the programs have every operation, type and width of operand,
  registers beyond 15, forks to the middle of an instruction, to blank cells and past the
  memory. Words of 16 bits hold every value the small addresses lead to. No game forks more
  often than `MaxProcs` allows. Programs take no input, so each choice of three has
  one behaviour up to the values of `Stray`.
* `Assembler`: three lines are a label, a reference to it and what is between or behind them.
  Among the twenty-two are a comment and a directive, labels of which one is the beginning of
  another, one has a digit and one is a single letter, a bare name with digits for an argument,
  alone and with others, numbers behind a space, a zero and nothing, one argument too many
  and none at all, the rest of a line `fgets` has cut, and two texts `lex_token` does not
  know.
* `CHECK_DEADLOCK FALSE` in all of them: the program ends (`over`, `exit`, `done`), crashes, or
  hangs in a state that is a state of the model.

### Fairness

`FairSpec` is weak fairness of `Next`: a single thread that waits for nothing takes its
next step. No fairness is put on what a process meets in memory, on `live`, or on forks.
`hung` has no step, so fairness says nothing there: it is the endless loop itself; in
`GameLoops` it is a loop of steps. `Assembler`'s `Spec` has weak fairness of its `Next` for
the same reason; its endless loop is a step that changes nothing.

## 4. The proofs

All theorems hold for every value of the constants that meets the assumptions named in the
modules: `RingAssumption` and `GameAssumption` (any number of champions and slots, any costs,
periods and bounds), `LoaderAssumption` (any memory, slots, arguments) and
`AssemblerAssumption` (any set of sources the code stays within its arrays for).
`MachineAssumption` also says that numbers are distinct and code fits its share;
`WordAssumption` states two facts of arithmetic the provers cannot compute (that the powers
of two are numbers, and that a sum of bits is one). TLC evaluates all of them. Theorems that
need more have it as a hypothesis: `DistinctNumbers` (no two champions of one number), without
which the runs `samenumber` and `endless` show what goes wrong, and `WholeInstructions` (the
programs are made of whole instructions, as the assembler writes those it and the machine
agree about, `RoundTrip`), which TLC evaluates for the programs of `MCMachine`.

The provers cannot use the library's induction theorems, whose parameter is an operator. Where
induction is needed it is on a set: `Counting` (a set of numbers with 0, and with each the next
one, has them all) follows from the well-foundedness of `<`, and from it that a recursively
defined function exists, is what its recursion says and is the only one (`Recursion`,
`SumsExist`, `ConcatenationUnique`). What is computed by recursion is therefore a recursive
function of the model, never a RECURSIVE operator.

About the game:

* `TypeCorrect`: `TypeOK`. Inductive as it stands; it includes that `next` maps allocated
  processes to allocated ones, on which all that follows rests.
* First, lemmas on the list: `Reach` is closed under `next`, is the least such set, and what a fork
  does to it: the new `Reach` is within the old one and the clone.
* `SearchesEnd`, `TurnsAreReachable`, `ForksKeepToTheirOwn`, `LostIsForever` (assuming
  `DistinctNumbers`) and `HangsOnlyWhenLost` (assuming nothing). The invariant `SchedInv`
  adds to the types: the process whose turn it is can be reached from the head; no search
  has hung; and `Owners`, that the first `N` processes keep their numbers and every clone is
  the head's player's, because `clone_process` is given the head. So, when numbers are
  distinct, a player other than the head's has one process, and its search can only find
  that one; the head's player is found at the head. Hence a fork rewires the process whose
  turn it is or the head, and both are reachable, so that nothing but the clone becomes
  reachable. If a search did not end, what it visits would be a set closed under `next`
  without the player, and the process whose turn it is would not be in `Reach`.
* `StarvedIsForever`: `StarvedForGood`, whatever the numbers. That a process is not among
  the first `N` of the list is turned into a certificate, `Distance(d, p)`: `d` gives every
  process a number, `N` to the head and 0 to `p`, and along a link it falls by one at most,
  so that no walk from the head comes to `p` in fewer than `N` steps. Such a `d` exists if
  the walk of `N` does not meet `p` (`UnservedAreFar`), and a fork does not destroy it, as
  what it links anew is the clone, whose successor is the head's (`ForkKeepsDistance`).
* `ChecksArePunctual`: `CheckPunctual`. It needs the clock and the lives in the middle of a
  round too (`ClockInv`): after `i` turns the clock has gained at most `i` times the dearest cost.
* `GameIsTournament` and `LastSurvivorEndsGame`: the refinement of `Tournament` (initial
  states and steps), and `NoLoneSurvivor`. The invariant `RefInv`: every
  process is the process of a loaded champion, nothing has been announced before the end,
  and the spare slots are never dead, so that the slot `find_winner` announces is the
  tournament's `Winner`.

* `CallsAreAccounted`: `LivesAccounted`, for distinct numbers. It is inductive
  beside `RefInv`: the player of a process is one champion, so a call of `live` adds one to one
  summand and to the count (`SumsDiffer`), and a judgement resets the count and silences all
  who stay alive (`TotalOfSilent`).
* `LoopsImplementGame`: `LoopsAreGame`, whatever the numbers, and `EndlessSearchesStay`:
  `EndlessSearch`. `LoopsInv` says what the two loops have done in the middle: `Walked`, which
  of the slots before the current one were killed and how many survivors were counted;
  `Passed`, that the process looked at is the `n`-th from the first and none before it was
  the one sought or the head. So the last iteration does to the state of before the loop
  what the closed form of `Game` does (`CheckRefines`, `SearchRefines`), and a walk Game
  calls endless has no last iteration.

About the machine:

* `MachinePlaysGame`: `MachineSpec => Spec`, the machine's steps are the game's or stutters.
  All theorems above therefore hold of it; `MachineScheduling` states the four about
  the list.
* `MachineTypeCorrect`: `MachineTypeOK`, for every program and memory; the work is in the
  operands (`OperandsType`) and in what an instruction puts into a field (`EffectType`).
* `OnlyOwnersTouch`: `OwnFieldsOnly`. `find_champion` finds the slot of a number, and
  `Owners` says whose number a process has: the first `N` are their own champion's, clones
  the first's.
* `StuckIsForever`: `StuckForGood`. `Stuck` stays because nothing writes code
  (`SameInstruction`) and the early return keeps the address; a champion of one process then
  makes no call.
* `ProgramsRunInOrder`: `ProgramOrder`, and `FirstProcessesStayInside`: `OnlyClonesCrash`, both
  of `WholeInstructions`. The invariant `OrderInv`: the first process of a champion stands,
  counted from its index, behind the instructions it has executed of its program. That the
  decoder ends where the instruction does is shown by comparing memory with the
  instruction alone (they have the same bytes as far as the instruction reaches), and where
  the next one begins by `ConcatenationUnique`.

About the set-up, the first three by the invariant `LoaderInv` (types; which slots are taken; what has been
copied into the shares of the loaded champions, as far as they reach; where the processes
were placed):

* `LoaderTypeCorrect`, `OwnCode` (`StartsOnOwnCode`) and `ProcessesFarApart` (`FarApart`).
  The arithmetic is in lemmas on shares: they fit into the memory, do not overlap, and are
  apart on the circle too.
* `NumbersAreAsGiven`: `NumbersAsGiven`. The invariant `NumInv`: besides the property itself,
  `Parsed` says what `parse_args` knows at an argument: it is not the value of an option, as
  many champions have been added as there were files, and `set_id` is what the last `-n` since
  the last of them asked for, or 0, or, before the first, whatever it was.
* `ChampionsAreAllInSlots`: `AllInSlots`. By `Parsed`, when the last argument has been read as
  many champions have been added as there are files, and nobody is added after that
  (`Complete`); the types say that there are no more than slots.

About the assembler:

* `ReferencesResolve`: `LatestOrLonger`. The invariant `TableInv`: the lines of the labels
  never rise along the list, none is beyond the line being read, and each label is a label of
  the source, so a beginning of itself.
* `LinesAreReadAsWritten`: `ReadAsWritten`. `ReadInv` says what the line read so far has come to
  at each place of the code: the arguments kept are those of the text before `pos` (at most
  `MAX_ARGS_NUMBER`), the size is that of the lines before it and of those arguments, and the
  instructions are those of the lines before it. The lemmas say what one more lexeme adds to a
  total (`Total`) and to a selection (`Select`).
* `BytesFit`: `TypeOK`. That a label's address is a size the header has had needs `MarkInv`:
  each is the size behind the last instruction's line before it, and sizes only grow.
* `AddressesRunAhead`: `FirstPassRunsAhead`. `EncInv`: `out[k]` is what `encode_instruction`
  makes of the `k`-th instruction at the address left by those before it (`Written`), whose
  length is the sum of its pieces' (`SoFar`). The gap between what the first pass has counted and what is
  written of the same lines (`Gap`) is 0 before the first line and never falls if no argument is
  `CountedLow`, and by `MarkInv` the head start of a label is the gap at a line before it.
* `ReferencesAreDistances`: `RelativeToItself`. The gap never falls and is 0 at both ends, so it is
  0 at every label, whose address then is where its code begins; the address counter of the
  second pass stays one behind the bytes written, because the first opcode is not counted.

About the assembler's code as the machine reads it, all from `EncInv`. `CodeJoined` says that
in the code as a whole each instruction stands at its place, behind those before it, and
`NothingBehind` that the memory is 0 after the last:

* `AgreedAreReadToTheirEnd`: `ReadToItsEnd`. The description byte gives the machine the kind
  of each argument (`DescriptionRead`), and with `InStep` the machine's width of each is the
  one written (`WidthRead`), so that it comes to the same end.
* `SmallOperandsSurvive`: `OperandsSurvive`. The machine adds an operand's bytes up, and the sum
  of the bytes of a number of 1, 2 or 4 bytes is that number exactly if it is one byte
  (`ByteSumFacts`). A number with nothing before it was written without its first
  character, a digit or the sign, which leaves none but 0 as it is (`WithoutFirstFacts`);
  otherwise what is dropped is the space or the zero.
* `LoneOperandsAreLost`: `LoneOperandIsNextOpcode`, of operands written in their last byte only.
  That byte is passed over and the one behind it is the next instruction's opcode (`LoneRead`).

Only model-checked: liveness (`GameEnds`, `IsFairTournament`, `SearchReturns`,
`AssembledIffReadable`), which is out of the prover's reach.

## 5. Not modelled, and what is left

* Reading a `.cor` file (`parse_header`, `parse_instructions`): of it only the outcome is in
  `Loader`, a champion with so much code or an exit.
* In the assembler: a source for which it leaves its arrays, and the header's text.

Left out for good: output and colours, `delay` (a busy wait), the unused functions
`read_vm`, `add_champion_to_core`, `add_instructions_to_core` and `clone_champion`
(called by tests only), `core->winner`'s meaning (it is written and never read), memory
that is never freed, failing `malloc`, the unit tests.
