-------------------------- MODULE AssemblerClaims --------------------------
(***************************************************************************)
(* What the documentation says of sources and the code does not do.         *)
(***************************************************************************)
EXTENDS RoundTrip

(***************************************************************************)
(* README.md:82-84, the parameter of zjmp is an index from the counter, and *)
(* README.md:120, it may be a label: what is written for zjmp %:label (and  *)
(* for fork, README.md:95) is the distance from the instruction to the code *)
(* behind the label.                                                        *)
(***************************************************************************)
LabelReached ==
    pc = "done" =>
        \A k \in DOMAIN out :
            LET args == parsed_lines[k].args
            IN  Len(args) = 1 /\ IsReference(args[1]) /\ Matches(args[1].name) # {} =>
                   Tail(out[k]) =
                      BigEndian(CodeBefore(InstructionsBefore(Target(args[1].name).line) + 1)
                                    - CodeBefore(k), 2)

(* The texts of a source that lex_token has no case for. *)
UnknownTexts == {x.name : x \in {y \in UNION {Range1(text) : text \in Range1(src)} : y.kind = "unknown"}}

(***************************************************************************)
(* op.h:12, COMMENT_CHAR '#' is the "Character denoting comments in the     *)
(* code" (README.md:177-179 has such lines, too), and README.md:120, a      *)
(* direct parameter is "The DIRECT_CHAR character, followed by a value",    *)
(* which may be negative (players/fluttershy.s:27, ld %-6,r2): a source is  *)
(* assembled if these are all it has besides what lex_token knows.          *)
(***************************************************************************)
DocumentedAssembled == UnknownTexts \subseteq {"#", "%-"} ~> (pc = "done")
=============================================================================
