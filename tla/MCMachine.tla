----------------------------- MODULE MCMachine -----------------------------
(***************************************************************************)
(* Programs for TLC, as the bytes the virtual machine reads: between them   *)
(* they have every operation, every type of operand and width, operands     *)
(* that are no registers, jumps with and without carry, forks to the middle *)
(* of an instruction and beyond the memory, and bytes that are no opcode.   *)
(***************************************************************************)
EXTENDS MachineClaims

ThreePlayers == <<1, 2, 3>>

(* The costs of op_tab, scaled to short periods. *)
Costs == [live |-> 2, ld |-> 1, st |-> 1, add |-> 2, sub |-> 2, and |-> 1, or |-> 1,
          xor |-> 1, zjmp |-> 3, ldi |-> 4, sti |-> 4, fork |-> 7, lld |-> 2, lldi |-> 5,
          lfork |-> 8, aff |-> 1]

live == <<1, 0, 0, 0, 1>>
zjmp == <<9, 0, 0, 0, 6>>
forkTo(a) == <<12, 0, 0, a, 0>>
lforkTo(a) == <<15, 0, 0, a, 0>>

SmallPrograms ==
    { <<<<5, 84, 2, 2, 4>>, zjmp,                              \* sub r2, r2, r4
        <<11, 100, 2, 0, 4, 5>>, live>>,                       \* sti r2, %4, r5
      <<forkTo(3), live, zjmp>>,
      <<lforkTo(6), live>>,
      <<lforkTo(70), live>>,
      <<<<2, 144, 0, 0, 0, 5, 3>>, <<3, 112, 2, 0, 0, 0, 4>>,  \* ld of four bytes, st to 4
        <<10, 84, 2, 3, 4>>>>,                                 \* ldi
      <<<<3, 80, 0, 5>>, <<11, 104, 2, 0, 4, 0, 5>>,           \* st r0, r5; sti r2, %4, %5
        live, <<14, 84, 0, 5, 4>>>>,                           \* lldi
      <<<<13, 144, 0, 3, 4>>, <<6, 84, 0, 4, 2>>,              \* lld, and
        <<7, 84, 0, 4, 2>>, <<8, 84, 0, 4, 2>>>>,              \* or, xor
      <<<<16, 0, 0, 0, 2>>, <<3, 112, 2, 0, 0, 0, 40>>, <<17>>>>,  \* aff, st refused, no opcode
      <<<<5, 84, 2, 0, 16>>, forkTo(2), <<3, 80, 2, 4>>, live>>,  \* sub r2, r0, r16; st to 4
      <<<<5, 84, 3, 0, 4>>, <<3, 80, 4, 6>>,                   \* sub r3, r0, r4; st r4, 6
        <<10, 84, 4, 4, 5>>>>,                                 \* ldi below the memory
      <<live, <<0>>>> }

ASSUME WholePrograms == WholeInstructions

(* The sanitizer the Makefile asks for fills with bytes 0xbe. *)
Pattern == -16706
Strays == {0, 5}
=============================================================================
