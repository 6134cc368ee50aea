--------------------------- MODULE MachineClaims ---------------------------
(***************************************************************************)
(* What the documentation says of the instructions and the code does not do.*)
(***************************************************************************)
EXTENDS Machine

(* The number an operand of four bytes spells. *)
Spelled(a) == 16777216 * Byte(hex_memory, a) + 65536 * Byte(hex_memory, a + 1)
                 + 256 * Byte(hex_memory, a + 2) + Byte(hex_memory, a + 3)

(***************************************************************************)
(* README.md:82-84, zjmp "Jumps to this index if carry is 1", "Counter + 23 *)
(* % IDX_MOD to Counter" for %23: a process that executes it with the carry *)
(* set goes on at the address of the zjmp plus the number written behind it *)
(* modulo IDX_MOD.                                                          *)
(***************************************************************************)
JumpTaken ==
    [][Decoded /\ Op = "zjmp" /\ F[CARRY] = 1 /\ done' # done =>
          index[current] + counter'[current] = Here + Rem(Spelled(Here + 1), IDX_MOD)
      ]_<<vars, machineVars>>

(***************************************************************************)
(* README.md:53, "If not a valid command, the Virtual machine moves to the  *)
(* next instruction": a process that has its turn at a byte that is no      *)
(* opcode does not stand there any more afterwards.                         *)
(***************************************************************************)
InvalidPassedOver ==
    [][MyTurn /\ i' # i /\ running[current] = 0 /\ Stuck(current) =>
          counter'[current] # InstructionIndex(current)]_<<vars, machineVars>>
=============================================================================
