----------------------------- MODULE Assembler -----------------------------
(***************************************************************************)
(* The assembler (assembler/): lex_token and parse_line take the lines of a *)
(* source apart, parse_contents notes the labels' addresses and keeps the   *)
(* instructions, and assemble encodes them when all lines have been read.   *)
(*                                                                          *)
(* A line is a sequence of lexemes, the pieces of text lex_token makes one  *)
(* token of.  A name stands for its text; what the code asks of it is       *)
(* whether another text is its beginning and whether it has a digit.        *)
(***************************************************************************)
EXTENDS Integers, Sequences, FiniteSets, FiniteSetsExt

CONSTANTS
    Sources,    \* the texts that are assembled: sequences of lines
    Begins,     \* <<name, beginning>>: strncmp finds the second in the first
    WithDigit,  \* the names with a digit in them
    OneLetter   \* the names that are one letter

(* The kind of token of each lexeme.  "unknown" is a text lex_token has no   *)
(* case for: '#', "%-", ':', or a word that begins with r and is no register *)
(* (its name is that text).                                                  *)
TokenType == [word      |-> "INSTRUCTION", \* live: no ':' behind it, no r first
              label     |-> "LABEL",       \* loop:
              register  |-> "REGISTER",    \* r1
              value     |-> "INDIRECT",    \* %1
              number    |-> "INDIRECT",    \* 1 or -1, and the spaces before it
              reference |-> "DIRECT",      \* %:loop
              directive |-> "DIRECT",      \* .name, and the rest of the line
              comma     |-> "SEPARATOR",
              comment   |-> "COMMENT",     \* ; and the rest of the line
              unknown   |-> "UNKNOWN"]

(* op_tab *)
Mnemonics == <<"live", "ld", "st", "add", "sub", "and", "or", "xor", "zjmp",
               "ldi", "sti", "fork", "lld", "lldi", "lfork", "aff">>
MAX_ARGS_NUMBER == 3

(* v[1] to v[n] together, and those of s[1] to s[n] whose places are in P. *)
Total(v, n) ==
    LET upTo[i \in 0..n] == IF i = 0 THEN 0 ELSE upTo[i - 1] + v[i]
    IN  upTo[n]
Select(s, P, n) ==
    LET upTo[i \in 0..n] == IF i = 0 THEN <<>>
                            ELSE IF i \in P THEN Append(upTo[i - 1], s[i]) ELSE upTo[i - 1]
    IN  upTo[n]

(* The opcode of a line, or whatever stands in its place, is behind its label. *)
OpcodeAt(text) == IF text # <<>> /\ text[1].kind = "label" THEN 2 ELSE 1
IsInstruction(text) == OpcodeAt(text) <= Len(text) /\ text[OpcodeAt(text)].kind = "word"

(***************************************************************************)
(* What a lexeme's text says.  n: the number it is, or, of any other kind,  *)
(* the one behind its first character (300 of r300, of %300 and of x300).   *)
(* lead: what stands before the first digit of a number's own, a space or   *)
(* a zero (05); a lone '-' is a 0 behind a space, which the encoder does    *)
(* not tell from it.                                                        *)
(***************************************************************************)
Leads == {"none", "space", "zero"}
MaxInt == 2147483647

(***************************************************************************)
(* A source is one the code does not leave its arrays or an int for: an     *)
(* instruction is one of op_tab's (the loop of mnemonic_to_op_type runs     *)
(* past its end).  A label's name is a beginning of itself; a comment and a *)
(* directive reach to the end of their line.  What an instruction with a    *)
(* directive for an argument becomes is left out: its text may be anything. *)
(***************************************************************************)
ASSUME AssemblerAssumption ==
    \A src \in Sources :
        /\ src \in Seq(Seq([kind : DOMAIN TokenType, name : STRING, n : Int, lead : Leads]))
        /\ \A l \in DOMAIN src :
              /\ IsInstruction(src[l]) =>
                    \E i \in DOMAIN Mnemonics : Mnemonics[i] = src[l][OpcodeAt(src[l])].name
              /\ \A i \in DOMAIN src[l] :
                    /\ src[l][i].kind = "label" => <<src[l][i].name, src[l][i].name>> \in Begins
                    /\ src[l][i].kind \in {"comment", "directive"} => i = Len(src[l])
                    /\ src[l][i].kind = "directive" => ~IsInstruction(src[l])
                    /\ src[l][i].n <= MaxInt
                    /\ src[l][i].n >= IF src[l][i].kind = "number" /\ src[l][i].lead # "zero"
                                      THEN -MaxInt ELSE 0

VARIABLES
    src,             \* the source
    line, pos,       \* the line being read, and the lexeme *input stands at
    parsed,          \* parse_line: parsedLine
    size,            \* header->size
    current_address, \* parse_contents: current_address
    symbol_table,    \* the labels, latest first; the line of each is for the properties
    parsed_lines,    \* header->parsed_lines
    out,             \* the code, instruction by instruction
    address,         \* assemble: current_address
    pc               \* "line", "label", "arguments", "assemble" or "done"

passOne == <<line, pos, parsed, size, current_address, symbol_table, parsed_lines>>
avars == <<src, passOne, out, address, pc>>

NoLine == [lineType |-> "UNKNOWN", label |-> "", opcode |-> "", args |-> <<>>]

Init ==
    /\ src \in Sources
    /\ line = 1 /\ pos = 1
    /\ parsed = NoLine
    /\ size = 0
    /\ current_address = 0
    /\ symbol_table = <<>>
    /\ parsed_lines = <<>>
    /\ out = <<>>
    /\ address = 0
    /\ pc = "line"

-----------------------------------------------------------------------------
(* The first pass *)

(* A slip: what is not known is passed over. *)
lex_token_skipping(text, i) ==
    IF i > Len(text)
    THEN [type |-> "BLANKLINE", next |-> i]
    ELSE [type |-> TokenType[text[i].kind],
          next |-> IF text[i].kind \in {"comment", "directive"} THEN Len(text) + 1 ELSE i + 1]

(* lex_token: what is not known is not consumed. *)
lex_token(text, i) ==
    IF i > Len(text)
    THEN [type |-> "BLANKLINE", next |-> i]
    ELSE [type |-> TokenType[text[i].kind],
          next |-> CASE text[i].kind \in {"comment", "directive"} -> Len(text) + 1
                     [] text[i].kind = "unknown" -> i
                     [] OTHER -> i + 1]

Token == lex_token(src[line], pos)
Lexeme == src[line][pos]
AtEnd == Token.type \in {"BLANKLINE", "COMMENT"}

(* A slip: a direct argument takes no room. *)
BytesButDirect(type) == CASE type = "REGISTER" -> 1 [] type = "INDIRECT" -> 4 [] OTHER -> 0

(* add_bytes_to_header *)
Bytes(type) ==
    CASE type = "REGISTER" -> 1 [] type = "DIRECT" -> 2 [] type = "INDIRECT" -> 4 [] OTHER -> 0

(* add_symbol *)
Labelled(label) ==
    <<[label |-> label, address |-> current_address, line |-> line]>> \o symbol_table

More == line <= Len(src)

(* parse_line returns at once. *)
SkipLine ==
    /\ pc = "line" /\ More /\ AtEnd
    /\ line' = line + 1
    /\ UNCHANGED <<src, pos, parsed, size, current_address, symbol_table, parsed_lines,
                   out, address, pc>>

ReadLabel ==
    /\ pc = "line" /\ More /\ Token.type = "LABEL"
    /\ parsed' = [parsed EXCEPT !.lineType = "LABEL", !.label = Lexeme.name]
    /\ symbol_table' = Labelled(Lexeme.name)
    /\ pos' = Token.next
    /\ pc' = "label"
    /\ UNCHANGED <<src, line, size, current_address, parsed_lines, out, address>>

(* The first token, or that behind a label, is used up whatever it is; its *)
(* two bytes are those of the opcode and of a description.                  *)
ReadOpcode ==
    /\ \/ pc = "line" /\ More /\ ~AtEnd /\ Token.type # "LABEL"
       \/ pc = "label"
    /\ parsed' = CASE Token.type = "INSTRUCTION" ->
                        [parsed EXCEPT !.lineType = "INSTRUCTION", !.opcode = Lexeme.name]
                   [] Token.type = "DIRECT" -> [parsed EXCEPT !.lineType = "DIRECT"]
                   [] OTHER -> parsed
    /\ size' = size + (IF Token.type = "INSTRUCTION" THEN 2 ELSE 0)
    /\ pos' = Token.next
    /\ pc' = "arguments"
    /\ UNCHANGED <<src, line, current_address, symbol_table, parsed_lines, out, address>>

(* Slips: one argument too many; separators are kept as well. *)
KeptFour(type) == type \notin {"SEPARATOR", "UNKNOWN"} /\ Len(parsed.args) <= MAX_ARGS_NUMBER
KeptSeparators(type) == type # "UNKNOWN" /\ Len(parsed.args) < MAX_ARGS_NUMBER

(* Three arguments are kept; separators and what is not known are no text. *)
Kept(type) == type \notin {"SEPARATOR", "UNKNOWN"} /\ Len(parsed.args) < MAX_ARGS_NUMBER

(* One pass of parse_line's loop.  At an unknown text it changes nothing. *)
ReadArgument ==
    /\ pc = "arguments" /\ ~AtEnd
    /\ IF Kept(Token.type)
       THEN /\ size' = size + Bytes(Token.type)
            /\ parsed' = [parsed EXCEPT !.args = Append(@, Lexeme)]
       ELSE UNCHANGED <<size, parsed>>
    /\ pos' = Token.next
    /\ UNCHANGED <<src, line, current_address, symbol_table, parsed_lines, out, address, pc>>

(* parse_line returns, and parse_contents files the line. *)
EndLine ==
    /\ pc = "arguments" /\ AtEnd
    /\ symbol_table' = IF parsed.lineType = "LABEL" THEN Labelled(parsed.label) ELSE symbol_table
    /\ IF parsed.lineType = "INSTRUCTION"
       THEN /\ current_address' = size
            /\ parsed_lines' = Append(parsed_lines, parsed)
       ELSE UNCHANGED <<current_address, parsed_lines>>
    /\ line' = line + 1
    /\ pos' = 1
    /\ parsed' = NoLine
    /\ pc' = "line"
    /\ UNCHANGED <<src, size, out, address>>

EndOfFile ==
    /\ pc = "line" /\ ~More
    /\ pc' = "assemble"
    /\ UNCHANGED <<src, passOne, out, address>>

-----------------------------------------------------------------------------
(* The second pass *)

Matches(name) == {i \in DOMAIN symbol_table : <<symbol_table[i].label, name>> \in Begins}

(* A slip: the oldest of the labels that begin so. *)
lookup_oldest(name) ==
    IF Matches(name) = {} THEN -1 ELSE symbol_table[Max(Matches(name))].address

(* lookup_symbol: the latest label that begins with name. *)
lookup_symbol(name) ==
    IF Matches(name) = {} THEN -1 ELSE symbol_table[Min(Matches(name))].address

(* write_big_endian and write_last_two_bytes *)
ByteWeights == <<16777216, 65536, 256, 1>>
BigEndian(v, width) == [i \in 1..width |-> (v \div ByteWeights[4 - width + i]) % 256]

(* A number without the first character of its text. *)
Tens == {1, 10, 100, 1000, 10000, 100000, 1000000, 10000000, 100000000, 1000000000}
WithoutFirst(n) == IF n <= 0 THEN -n ELSE n % Max({p \in Tens : p <= n})

(* A slip: a number is read from its beginning. *)
AtoiWhole(arg) == IF arg.kind \in {"register", "value", "number"} THEN arg.n ELSE 0

(* The text has ':' in its second place, as "%:loop" and "a:" have. *)
IsLetter(arg) == arg.kind = "label" /\ arg.name \in OneLetter
ColonSecond(arg) == arg.kind = "reference" \/ IsLetter(arg)

(* atoi(arg + 1): a number loses what is before it, or its own first character. *)
AtoiBehindFirst(arg) ==
    CASE arg.kind = "number" /\ arg.lead = "none" -> WithoutFirst(arg.n)
      [] ColonSecond(arg) -> 0
      [] OTHER -> arg.n

encode_register(arg, at) == [bytes |-> BigEndian(arg.n, 1), address |-> at + 1]
encode_indirect(arg, at) == [bytes |-> BigEndian(AtoiBehindFirst(arg), 4), address |-> at + 4]

(* A slip: the counter is not moved over a reference. *)
encode_label_uncounted(arg, at) ==
    [bytes |-> BigEndian(lookup_symbol(arg.name) - at, 2), address |-> at]
encode_label(arg, at) ==
    [bytes |-> BigEndian(lookup_symbol(arg.name) - at, 2), address |-> at + 2]

(* A slip: "%0" has two bytes as well. *)
encode_value_short(arg, at) == [bytes |-> BigEndian(AtoiBehindFirst(arg), 2), address |-> at + 2]

(* A value of two bytes, or 0, of four. *)
encode_value(arg, at) ==
    IF AtoiBehindFirst(arg) = 0
    THEN encode_indirect(arg, at)
    ELSE [bytes |-> BigEndian(AtoiBehindFirst(arg), 2), address |-> at + 2]

(* encode_direct's else branch: atoi of a letter and ':', which is no number. *)
encode_letter(arg, at) == [bytes |-> BigEndian(0, 2), address |-> at + 2]

(* encode_direct: a name with a digit is taken for a number, which is 0. *)
IsReference(arg) == arg.kind = "reference" /\ arg.name \notin WithDigit
encode_direct(arg, at) ==
    CASE IsReference(arg) -> encode_label(arg, at)
      [] IsLetter(arg) -> encode_letter(arg, at)
      [] OTHER -> encode_value(arg, at)

(* One argument of several, and one that is alone. *)
encode_argument(arg, at) ==
    CASE arg.kind = "register" -> encode_register(arg, at)
      [] arg.kind \in {"value", "reference"} -> encode_direct(arg, at)
      [] OTHER -> encode_indirect(arg, at)
encode_single(arg, at) ==
    IF ColonSecond(arg) THEN encode_direct(arg, at) ELSE encode_indirect(arg, at)

(* encode_parameter_description: a number behind a space is not seen as one. *)
Code(arg) ==
    CASE arg.kind = "register" -> 1
      [] arg.kind = "number" /\ arg.lead # "space" -> 3
      [] OTHER -> 2
Description(args) ==
    Total([i \in DOMAIN args |-> Code(args[i]) * <<64, 16, 4, 1>>[i]], Len(args))

Opcode(mnemonic) == CHOOSE i \in DOMAIN Mnemonics : Mnemonics[i] = mnemonic

(* The opcode and the description; an opcode at address 0 is not counted. *)
Several(instr) == Len(instr.args) > 1
encode_opcode(instr, at) ==
    [bytes |-> <<Opcode(instr.opcode)>> \o
                  (IF Several(instr) THEN <<Description(instr.args)>> ELSE <<>>),
     address |-> at + (IF at # 0 THEN 1 ELSE 0) + (IF Several(instr) THEN 1 ELSE 0)]

(* The code before an argument, and the argument's. *)
Behind(instr, arg, before) ==
    LET e == IF Several(instr) THEN encode_argument(arg, before.address)
                               ELSE encode_single(arg, before.address)
    IN  [bytes |-> before.bytes \o e.bytes, address |-> e.address]

encode_instruction(instr, at) ==
    LET upTo[i \in 0..Len(instr.args)] ==
            IF i = 0 THEN encode_opcode(instr, at) ELSE Behind(instr, instr.args[i], upTo[i - 1])
    IN  upTo[Len(instr.args)]

EncodeInstruction ==
    /\ pc = "assemble" /\ Len(out) < Len(parsed_lines)
    /\ LET e == encode_instruction(parsed_lines[Len(out) + 1], address)
       IN  /\ out' = Append(out, e.bytes)
           /\ address' = e.address
    /\ UNCHANGED <<src, passOne, pc>>

Finish ==
    /\ pc = "assemble" /\ Len(out) = Len(parsed_lines)
    /\ pc' = "done"
    /\ UNCHANGED <<src, passOne, out, address>>

Next ==
    \/ SkipLine \/ ReadLabel \/ ReadOpcode \/ ReadArgument \/ EndLine \/ EndOfFile
    \/ EncodeInstruction \/ Finish

(* A single thread: it takes its next step. *)
Spec == Init /\ [][Next]_avars /\ WF_avars(Next)

-----------------------------------------------------------------------------
(* Properties *)

Range1(s) == {s[i] : i \in DOMAIN s}
CodeBefore(k) == Total([i \in DOMAIN out |-> Len(out[i])], k - 1)  \* where the k-th instruction begins
InstructionsBefore(l) == Cardinality({m \in 1..(l - 1) : IsInstruction(src[m])})

(* Every lexeme is one of the source's, every byte fits a byte. *)
TypeOK ==
    /\ src \in Sources
    /\ line \in 1..(Len(src) + 1)
    /\ pos \in IF More THEN 1..(Len(src[line]) + 1) ELSE {1}
    /\ parsed.lineType \in {"UNKNOWN", "INSTRUCTION", "LABEL", "DIRECT"}
    /\ Len(parsed.args) <= MAX_ARGS_NUMBER
    /\ size \in Nat /\ current_address \in Nat /\ address \in Nat
    /\ \A s \in Range1(symbol_table) : s.address \in 0..size /\ s.line \in 1..Len(src)
    /\ \A p \in Range1(parsed_lines) : p.lineType = "INSTRUCTION"
    /\ \A bytes \in Range1(out) : bytes \in Seq(0..255)
    /\ pc \in {"line", "label", "arguments", "assemble", "done"}

(***************************************************************************)
(* What a line says, from its text alone: its arguments are the first three *)
(* lexemes behind the opcode (or behind whatever stands in its place) that  *)
(* are no separators and no comment.                                        *)
(***************************************************************************)
Operands(text) ==
    {p \in DOMAIN text : p > OpcodeAt(text) /\ text[p].kind \notin {"comma", "comment"}}
FirstOf(s) == IF Len(s) <= MAX_ARGS_NUMBER THEN s ELSE SubSeq(s, 1, MAX_ARGS_NUMBER)
Arguments(text) == FirstOf(Select(text, Operands(text), Len(text)))
BytesOf(text) ==
    LET args == Arguments(text)
    IN  (IF IsInstruction(text) THEN 2 ELSE 0)
            + Total([i \in DOMAIN args |-> Bytes(TokenType[args[i].kind])], Len(args))

(***************************************************************************)
(* After each line, the instructions kept and the bytes counted are those   *)
(* of the lines read so far: of any line parse_line's loop, token by token, *)
(* keeps what the whole text says.                                          *)
(***************************************************************************)
ReadAsWritten ==
    pc = "line" =>
        LET instructions == Select(src, {l \in DOMAIN src : IsInstruction(src[l])}, line - 1)
        IN  /\ size = Total([l \in DOMAIN src |-> BytesOf(src[l])], line - 1)
            /\ Len(parsed_lines) = Len(instructions)
            /\ \A k \in DOMAIN parsed_lines :
                  /\ parsed_lines[k].opcode = instructions[k][OpcodeAt(instructions[k])].name
                  /\ parsed_lines[k].args = Arguments(instructions[k])

(***************************************************************************)
(* The first pass counts a size the second does not write: two bytes for    *)
(* every opcode, four for every value.  Unless an argument is a name that   *)
(* is no reference or has a digit, or a register alone, which it counts too *)
(* low, the address of a label is never before the code it stands for, and  *)
(* later labels (and header->size, at the end) are as far ahead or farther. *)
(***************************************************************************)
CountedLow(instr) ==
    \/ \E arg \in Range1(instr.args) :
           \/ arg.kind \in {"word", "label", "directive"}
           \/ arg.kind = "reference" /\ arg.name \in WithDigit
    \/ Len(instr.args) = 1 /\ instr.args[1].kind = "register"
Ahead(s) == s.address - CodeBefore(InstructionsBefore(s.line) + 1)
Marks == Range1(symbol_table) \cup {[label |-> "", address |-> size, line |-> Len(src) + 1]}
FirstPassRunsAhead ==
    pc = "done" /\ (\A p \in Range1(parsed_lines) : ~CountedLow(p)) =>
        \A s, t \in Marks : Ahead(s) >= 0 /\ (s.line < t.line => Ahead(s) <= Ahead(t))

(***************************************************************************)
(* lookup_symbol takes the latest label the reference is a beginning of: a  *)
(* reference to a label that exists gets the latest of that name, unless a  *)
(* longer name that begins so was defined after it.                         *)
(***************************************************************************)
Labels(name) == {s \in Range1(symbol_table) : s.label = name}
LatestOrLonger ==
    pc = "assemble" =>
        \A s \in Range1(symbol_table) :
            LET latest == Max({t.line : t \in Labels(s.label)})
            IN  \/ \E t \in Labels(s.label) : t.line = latest /\ lookup_symbol(s.label) = t.address
                \/ \E t \in Range1(symbol_table) :
                       /\ t.line > latest /\ t.label # s.label
                       /\ <<t.label, s.label>> \in Begins
                       /\ lookup_symbol(s.label) = t.address

(***************************************************************************)
(* In programs whose instructions both passes count alike (two arguments or *)
(* more: registers, numbers, "%0", references), a reference is the distance *)
(* from the byte before its own to the label, whichever of its instruction's*)
(* arguments it is and whether the label is ahead or behind: the encoder's  *)
(* counter, which left out the first opcode, is one behind throughout.      *)
(***************************************************************************)
WidthInCode(arg) ==
    CASE arg.kind = "register" -> 1
      [] IsReference(arg) \/ (arg.kind = "value" /\ arg.n # 0) -> 2
      [] OTHER -> 4
(* Where the j-th of several arguments stands in its instruction. *)
Place(args, j) == 2 + Total([i \in DOMAIN args |-> WidthInCode(args[i])], j - 1)
CountedAlike(instr) ==
    /\ Len(instr.args) > 1
    /\ \A arg \in Range1(instr.args) :
          \/ arg.kind \in {"register", "number"} \/ IsReference(arg)
          \/ arg.kind = "value" /\ arg.n = 0
Target(name) == symbol_table[Min(Matches(name))]
RelativeToItself ==
    pc = "done" /\ size = CodeBefore(Len(out) + 1)
          /\ (\A p \in Range1(parsed_lines) : CountedAlike(p)) =>
        \A k \in DOMAIN out :
            LET args == parsed_lines[k].args
            IN  \A j \in DOMAIN args : IsReference(args[j]) /\ Matches(args[j].name) # {} =>
                   LET at == Place(args, j)
                       label == CodeBefore(InstructionsBefore(Target(args[j].name).line) + 1)
                   IN  SubSeq(out[k], at + 1, at + 2)
                          = BigEndian(label - (CodeBefore(k) + at - 1), 2)

(***************************************************************************)
(* The assembler comes to its end exactly with the sources in which every   *)
(* text that is not commented out is one lex_token knows: at any other      *)
(* parse_line's loop goes round for ever.  (By the documents some of those  *)
(* texts are part of the language; DocumentedAssembled is that claim.)      *)
(***************************************************************************)
Readable == \A l \in DOMAIN src : \A x \in Range1(src[l]) : x.kind # "unknown"
AssembledIffReadable ==
    /\ Readable ~> (pc = "done")
    /\ [](pc = "done" => Readable)
=============================================================================
