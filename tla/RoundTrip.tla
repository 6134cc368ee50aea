----------------------------- MODULE RoundTrip -----------------------------
(***************************************************************************)
(* The assembler and the machine meet in a .cor file: what Assembler writes *)
(* is what Decoder reads.  An instruction is read as it was written if the  *)
(* machine takes as many bytes for it as it has; otherwise the process goes *)
(* on in the middle of one.                                                 *)
(***************************************************************************)
EXTENDS Assembler, Decoder, SequencesExt

(* hex_memory with the code at its beginning, and the instruction read there. *)
Loaded == LET code == FlattenSeq(out) IN [a \in 0..(Len(code) - 1) |-> code[a + 1]]
Args(k) == parsed_lines[k].args
Number(k) == Opcode(parsed_lines[k].opcode)
ReadBack(k) == BuildOperands(Loaded, CodeBefore(k) + 1, parsed_lines[k].opcode, 0)

(***************************************************************************)
(* The instructions the two programs disagree about: those of a wrong       *)
(* number of arguments; a reference or a label of one letter alone, written *)
(* in two bytes, read as four; and among several, what is described as      *)
(* direct and begins with "00 00" although it has two bytes (a reference or *)
(* a value that is 0 in them), or does not although it has four (a number   *)
(* behind a space that is negative or large).                               *)
(***************************************************************************)
LooksLong(k, j) == SubSeq(out[k], Place(Args(k), j) + 1, Place(Args(k), j) + 2) = <<0, 0>>
InStep(k) ==
    /\ Len(Args(k)) = NbrArgs(parsed_lines[k].opcode)
    /\ IF Len(Args(k)) = 1
       THEN ~IsReference(Args(k)[1]) /\ ~IsLetter(Args(k)[1])
       ELSE \A j \in DOMAIN Args(k) :
               Code(Args(k)[j]) = 2 => (WidthInCode(Args(k)[j]) = 4 <=> LooksLong(k, j))

(***************************************************************************)
(* All others are read to their end and no further, whatever stands before  *)
(* and behind them.                                                         *)
(***************************************************************************)
ReadToItsEnd ==
    pc = "done" => \A k \in DOMAIN out : InStep(k) => ReadBack(k).end = CodeBefore(k + 1)

(***************************************************************************)
(* An operand among several, so read, is the number in the source exactly   *)
(* if that is between 0 and 255 (get_value adds bytes up) and, a number, is *)
(* 0 or behind a space or a zero (the encoder drops one character).         *)
(***************************************************************************)
OperandsSurvive ==
    pc = "done" =>
        \A k \in DOMAIN out : InStep(k) /\ Len(Args(k)) > 1 =>
            \A j \in DOMAIN Args(k) :
                LET arg == Args(k)[j]
                IN  arg.kind \in {"register", "value", "number"} =>
                       (ReadBack(k).args[j] = arg.n
                          <=> arg.n \in 0..255 /\ (arg.kind = "number" => arg.lead # "none" \/ arg.n = 0))

(***************************************************************************)
(* The one operand of live, zjmp and the forks, if what is written of it is *)
(* between 0 and 255, is read as the opcode of the instruction behind (as 0 *)
(* by the last): its own last byte is the one build_operands passes over.   *)
(* (README.md:57, 84 and 95 say that the operand is what is written; a zjmp *)
(* that takes another number is what JumpTaken shows.)                      *)
(***************************************************************************)
LoneOperandIsNextOpcode ==
    pc = "done" =>
        \A k \in DOMAIN out :
            InStep(k) /\ Len(Args(k)) = 1 /\ AtoiBehindFirst(Args(k)[1]) \in 0..255 =>
                ReadBack(k).args[1] = IF k < Len(out) THEN Number(k + 1) ELSE 0
=============================================================================
