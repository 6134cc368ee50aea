------------------------------ MODULE Decoder ------------------------------
(***************************************************************************)
(* How the virtual machine reads an instruction from its memory             *)
(* (build_operands and its helpers in src/src/instructions.c).  A memory is *)
(* a function from addresses to cells; a cell is a byte, or Blank where     *)
(* nothing has been loaded.                                                 *)
(***************************************************************************)
EXTENDS Integers, Sequences

(* The mnemonic of each opcode, and its number of arguments. *)
OpTab == <<"live", "ld", "st", "add", "sub", "and", "or", "xor", "zjmp",
           "ldi", "sti", "fork", "lld", "lldi", "lfork", "aff">>
NbrArgs(op) == IF op \in {"live", "zjmp", "fork", "lfork", "aff"} THEN 1
               ELSE IF op \in {"ld", "st", "lld"} THEN 2 ELSE 3

(* A blank cell is three bytes nobody has written: strtol makes 0 of them, *)
(* but they are not the text "00".                                          *)
Blank == -1
Cell(mem, a) == IF a \in DOMAIN mem THEN mem[a] ELSE Blank
Byte(mem, a) == IF Cell(mem, a) = Blank THEN 0 ELSE Cell(mem, a)

(* get_value: the sum of the bytes, at most four, not the number they spell. *)
GetValue(mem, size, a) ==
    LET byte(j) == IF j < size THEN Byte(mem, a + j) ELSE 0
    IN  byte(0) + byte(1) + byte(2) + byte(3)

(* hex_to_binary, split_binary and build_arg_types: two bits for each argument. *)
ArgType(description, j) ==
    CASE (description \div <<64, 16, 4, 1>>[j]) % 4 = 1 -> "T_REG"
      [] (description \div <<64, 16, 4, 1>>[j]) % 4 = 2 -> "T_DIR"
      [] (description \div <<64, 16, 4, 1>>[j]) % 4 = 3 -> "T_IND"
      [] OTHER -> "none"

(* A direct operand has four bytes when its first two are "00". *)
Width(mem, type, a) ==
    CASE type = "T_REG" -> 1
      [] type = "T_DIR" -> IF Cell(mem, a) = 0 /\ Cell(mem, a + 1) = 0 THEN 4 ELSE 2
      [] type = "T_IND" -> 4
      [] OTHER -> 0

(***************************************************************************)
(* build_operands, from the address a behind the opcode: the operands, the  *)
(* last cell that is read, and the address behind the instruction.  An      *)
(* operation with one argument has no description and takes four bytes.     *)
(* temp_address has moved on when the last of them is read, so that one is  *)
(* the first byte of what follows.  An operand of no type is left as malloc *)
(* returned it, fill.                                                       *)
(***************************************************************************)
LastOfFour(a) == a + 3   \* a slip: the last of the four bytes it has
LastOfOne(a) == a + 4

BuildOperands(mem, a, op, fill) ==
    IF NbrArgs(op) = 1
    THEN [args |-> <<GetValue(mem, 3, a) + Byte(mem, LastOfOne(a))>>,
          last |-> LastOfOne(a),
          end  |-> a + 4]
    ELSE LET n == NbrArgs(op)
             type == [j \in 1..3 |-> ArgType(Byte(mem, a), j)]
             second == a + 1 + Width(mem, type[1], a + 1)
             third == second + Width(mem, type[2], second)
             start == <<a + 1, second, third, third + Width(mem, type[3], third)>>
         IN  [args |-> [j \in 1..n |->
                           IF type[j] = "none" THEN fill
                           ELSE GetValue(mem, start[j + 1] - start[j], start[j])],
              last |-> start[n + 1] - 1,
              end  |-> start[n + 1]]
=============================================================================
