-------------------------- MODULE AssemblerProofs --------------------------
(***************************************************************************)
(* Theorems about the assembler's first pass, for any source: what          *)
(* lookup_symbol finds in the table of labels, and what is kept of a line.  *)
(***************************************************************************)
EXTENDS Assembler, NumberProofs, SequenceTheorems

-----------------------------------------------------------------------------
(* The table *)

Lexemes == [kind : DOMAIN TokenType, name : STRING, n : Int, lead : Leads]
Names == STRING \cup {""}
Entry == [label : Names, address : Nat, line : Nat]
ParsedLine == [lineType : {"UNKNOWN", "INSTRUCTION", "LABEL", "DIRECT"},
               label : Names, opcode : Names, args : Seq(Lexemes)]

ItsOwnBeginning(label) == <<label, label>> \in Begins

(* Latest first, and one name to a line. *)
LatestFirst(table) ==
    \A i, j \in 1..Len(table) : i < j =>
        /\ table[j].line <= table[i].line
        /\ table[j].line = table[i].line => table[j].label = table[i].label

(* A table and one more entry before it. *)
Grown(more, table, e) ==
    /\ more \in Seq(Entry)
    /\ Len(more) = Len(table) + 1
    /\ more[1] = e
    /\ \A i \in 2..(Len(table) + 1) : more[i] = table[i - 1]
    /\ LatestFirst(more)

(* An entry that may stand before a table's. *)
Fits(e, table) ==
    \A i \in 1..Len(table) :
        \/ table[i].line < e.line
        \/ table[i].line = e.line /\ table[i].label = e.label

LEMMA Pushed ==
    ASSUME NEW table \in Seq(Entry), NEW e \in Entry, LatestFirst(table), Fits(e, table)
    PROVE  Grown(<<e>> \o table, table, e)
  <1> USE DEF Fits
  <1> DEFINE more == <<e>> \o table
  <1>1. /\ <<e>> \in Seq(Entry) /\ Len(<<e>>) = 1 /\ <<e>>[1] = e
        /\ Len(table) \in Nat
    BY LenProperties
  <1>2. /\ more \in Seq(Entry)
        /\ Len(more) = Len(table) + 1
        /\ \A i \in 1..(Len(table) + 1) : more[i] = IF i <= 1 THEN e ELSE table[i - 1]
    BY <1>1, ConcatProperties
  <1> HIDE DEF more
  <1>3. more[1] = e /\ \A i \in 2..(Len(table) + 1) : more[i] = table[i - 1]
    BY <1>1, <1>2
  <1>4. ASSUME NEW i \in 1..Len(more), NEW j \in 1..Len(more), i < j
        PROVE  /\ more[j].line <= more[i].line
               /\ more[j].line = more[i].line => more[j].label = more[i].label
    <2>1. j - 1 \in 1..Len(table) /\ more[j] = table[j - 1] /\ table[j - 1] \in Entry
      BY <1>1, <1>2, <1>3, <1>4, ElementOfSeq
    <2>2. CASE i = 1
      <3>1. more[i] = e
        BY <1>3, <2>2
      <3>2. table[j - 1].line \in Nat /\ e.line \in Nat
        BY <2>1 DEF Entry
      <3>3. \/ table[j - 1].line < e.line
            \/ table[j - 1].line = e.line /\ table[j - 1].label = e.label
        BY <2>1
      <3>. QED
        BY <2>1, <3>1, <3>2, <3>3
    <2>3. CASE i # 1
      <3>1. i - 1 \in 1..Len(table) /\ more[i] = table[i - 1] /\ i - 1 < j - 1
        BY <2>3, <1>1, <1>2, <1>3, <1>4
      <3>. QED
        BY <3>1, <2>1 DEF LatestFirst
    <2>. QED
      BY <2>2, <2>3
  <1>. QED
    BY <1>2, <1>3, <1>4 DEF Grown, LatestFirst, more

-----------------------------------------------------------------------------
(* The invariant *)

Reading == pc \in {"label", "arguments"}

Shapes ==
    /\ src \in Sources
    /\ line \in Nat \ {0} /\ pos \in Nat \ {0}
    /\ size \in Nat /\ current_address \in Nat
    /\ parsed \in ParsedLine
    /\ symbol_table \in Seq(Entry)
    /\ Reading => line <= Len(src)

(* The labels before this line, and that of this line once it is read. *)
UpToHere ==
    /\ \A i \in 1..Len(symbol_table) :
          \/ symbol_table[i].line < line
          \/ symbol_table[i].line = line /\ Reading /\ symbol_table[i].label = parsed.label
    /\ parsed.lineType = "LABEL" => Reading /\ ItsOwnBeginning(parsed.label)

Known == \A i \in 1..Len(symbol_table) : ItsOwnBeginning(symbol_table[i].label)

TableInv == Shapes /\ LatestFirst(symbol_table) /\ UpToHere /\ Known

LEMMA SourceFacts ==
    ASSUME src \in Sources, line \in 1..Len(src)
    PROVE  /\ src[line] \in Seq(Lexemes)
           /\ \A i \in 1..Len(src[line]) :
                 /\ src[line][i] \in Lexemes
                 /\ src[line][i].kind = "label" => ItsOwnBeginning(src[line][i].name)
  <1>1. src \in Seq(Seq(Lexemes))
    BY AssemblerAssumption DEF Lexemes
  <1>2. src[line] \in Seq(Lexemes) /\ line \in DOMAIN src
    BY <1>1, ElementOfSeq, LenProperties
  <1>3. \A i \in 1..Len(src[line]) : src[line][i] \in Lexemes /\ i \in DOMAIN src[line]
    BY <1>2, ElementOfSeq, LenProperties
  <1>4. \A i \in DOMAIN src[line] :
          src[line][i].kind = "label" => <<src[line][i].name, src[line][i].name>> \in Begins
    BY <1>2, AssemblerAssumption
  <1>. QED
    BY <1>2, <1>3, <1>4 DEF ItsOwnBeginning

(* A token stands for the lexeme it is made of, unless the line is over. *)
LEMMA TokenFacts ==
    ASSUME src \in Sources, line \in 1..Len(src), pos \in Nat \ {0}
    PROVE  /\ Token.next \in Nat \ {0}
           /\ Token.type # "BLANKLINE" =>
                 /\ Lexeme \in Lexemes
                 /\ Token.type = "LABEL" => ItsOwnBeginning(Lexeme.name)
  <1>1. Len(src[line]) \in Nat
    BY SourceFacts, LenProperties
  <1>2. CASE pos > Len(src[line])
    BY <1>2 DEF Token, lex_token
  <1>3. CASE ~(pos > Len(src[line]))
    <2>1. pos \in 1..Len(src[line])
      BY <1>1, <1>3
    <2>2. Lexeme \in Lexemes /\ (Lexeme.kind = "label" => ItsOwnBeginning(Lexeme.name))
      BY <2>1, SourceFacts DEF Lexeme
    <2>3. Token.type = TokenType[Lexeme.kind]
      BY <1>3 DEF Token, lex_token, Lexeme
    <2>4. Token.type = "LABEL" => Lexeme.kind = "label"
      BY <2>2, <2>3 DEF Lexemes, TokenType
    <2>5. Token.next \in {pos, pos + 1, Len(src[line]) + 1}
      BY <1>3 DEF Token, lex_token
    <2>. QED
      BY <1>1, <2>2, <2>4, <2>5
  <1>. QED
    BY <1>2, <1>3

LEMMA NoLineFacts == NoLine \in ParsedLine /\ NoLine.lineType # "LABEL"
  <1>1. <<>> \in Seq(Lexemes)
    BY EmptySeq
  <1>. QED
    BY <1>1 DEF NoLine, ParsedLine, Names

LEMMA InitTable == Init => TableInv
  <1> SUFFICES ASSUME Init PROVE TableInv
    OBVIOUS
  <1> USE DEF Init
  <1>1. symbol_table \in Seq(Entry) /\ Len(symbol_table) = 0
    BY EmptySeq
  <1>2. parsed \in ParsedLine /\ parsed.lineType # "LABEL"
    BY NoLineFacts
  <1>3. Shapes
    BY <1>1, <1>2 DEF Shapes, Reading
  <1>4. LatestFirst(symbol_table) /\ UpToHere /\ Known
    BY <1>1, <1>2 DEF LatestFirst, UpToHere, Known
  <1>. QED
    BY <1>3, <1>4 DEF TableInv

LEMMA LabelInv ==
    ASSUME TableInv, ReadLabel
    PROVE  TableInv'
  <1> USE DEF TableInv
  <1>1. /\ line \in 1..Len(src) /\ pos \in Nat \ {0} /\ src \in Sources
        /\ ~Reading
    BY DEF Shapes, ReadLabel, More, Reading
  <1>2. /\ Lexeme \in Lexemes
        /\ ItsOwnBeginning(Lexeme.name)
        /\ Token.next \in Nat \ {0}
    BY <1>1, TokenFacts DEF ReadLabel
  <1>3. PICK e \in Entry :
           e = [label |-> Lexeme.name, address |-> current_address, line |-> line]
    BY <1>1, <1>2 DEF Entry, Lexemes, Shapes, Names
  <1>5. /\ e.label = Lexeme.name /\ e.line = line
        /\ symbol_table' = <<e>> \o symbol_table
    BY <1>3 DEF ReadLabel, Labelled
  <1>4. \A i \in 1..Len(symbol_table) : symbol_table[i].line < e.line
    BY <1>1, <1>5 DEF UpToHere
  <1>6. /\ symbol_table' \in Seq(Entry)
        /\ Len(symbol_table') = Len(symbol_table) + 1
        /\ symbol_table'[1] = e
        /\ \A i \in 2..(Len(symbol_table) + 1) : symbol_table'[i] = symbol_table[i - 1]
        /\ LatestFirst(symbol_table')
    <2>1. symbol_table \in Seq(Entry)
      BY DEF Shapes
    <2>4. LatestFirst(symbol_table)
      OBVIOUS
    <2>2. Fits(e, symbol_table)
      BY <1>4 DEF Fits
    <2>3. Grown(<<e>> \o symbol_table, symbol_table, e)
      BY <2>1, <2>2, <2>4, Pushed
    <2>. QED
      BY <1>5, <2>3 DEF Grown
  <1>7. Len(symbol_table) \in Nat
    BY LenProperties DEF Shapes
  <1>8. /\ parsed' = [parsed EXCEPT !.lineType = "LABEL", !.label = Lexeme.name]
        /\ parsed' \in ParsedLine
        /\ parsed'.label = Lexeme.name
    BY <1>2 DEF ReadLabel, ParsedLine, Shapes, Lexemes, Names
  <1>9. Reading' /\ line' = line /\ src' = src
    BY DEF ReadLabel, Reading
  <1>10. Shapes'
    BY <1>1, <1>2, <1>6, <1>8, <1>9 DEF Shapes, ReadLabel
  <1>11. ASSUME NEW i \in 1..Len(symbol_table')
         PROVE  /\ ItsOwnBeginning(symbol_table'[i].label)
                /\ \/ symbol_table'[i].line < line
                   \/ symbol_table'[i].line = line /\ symbol_table'[i].label = Lexeme.name
    <2>1. CASE i = 1
      BY <2>1, <1>2, <1>5, <1>6
    <2>2. CASE i # 1
      <3>1. i - 1 \in 1..Len(symbol_table) /\ symbol_table'[i] = symbol_table[i - 1]
        BY <2>2, <1>6, <1>7
      <3>. QED
        BY <3>1, <1>5, <1>4 DEF Known
    <2>. QED
      BY <2>1, <2>2
  <1>12. UpToHere' /\ Known'
    BY <1>2, <1>8, <1>9, <1>11 DEF UpToHere, Known, ItsOwnBeginning
  <1>. QED
    BY <1>6, <1>10, <1>12

(* The line has been read: what it defines becomes something before this line. *)
LEMMA EndLineInv ==
    ASSUME TableInv, EndLine
    PROVE  TableInv'
  <1> USE DEF TableInv
  <1>1. /\ Reading /\ ~Reading' /\ src' = src /\ line' = line + 1
        /\ pos' = 1 /\ size' = size /\ parsed' = NoLine
    BY DEF EndLine, Reading
  <1>2. line \in Nat \ {0} /\ size \in Nat /\ Len(symbol_table) \in Nat
    BY LenProperties DEF Shapes
  <1>3. current_address' \in Nat
    BY DEF EndLine, Shapes
  <1>4. parsed' \in ParsedLine /\ parsed'.lineType # "LABEL"
    BY <1>1, NoLineFacts
  <1>5. /\ symbol_table' \in Seq(Entry)
        /\ LatestFirst(symbol_table')
        /\ \A i \in 1..Len(symbol_table') : /\ symbol_table'[i].line < line + 1
                                            /\ ItsOwnBeginning(symbol_table'[i].label)
    <2>0. \A i \in 1..Len(symbol_table) :
            /\ symbol_table[i].line < line + 1
            /\ ItsOwnBeginning(symbol_table[i].label)
            /\ symbol_table[i] \in Entry
      <3> TAKE i \in 1..Len(symbol_table)
      <3>1. symbol_table[i] \in Entry
        BY ElementOfSeq DEF Shapes
      <3>2. symbol_table[i].line < line \/ symbol_table[i].line = line
        BY DEF UpToHere
      <3>. QED
        BY <3>1, <3>2, <1>2 DEF Known, Entry
    <2>1. CASE parsed.lineType # "LABEL"
      BY <2>0, <2>1 DEF EndLine, Shapes
    <2>2. CASE parsed.lineType = "LABEL"
      <3>0. PICK e \in Entry :
               e = [label |-> parsed.label, address |-> current_address, line |-> line]
        BY DEF Entry, ParsedLine, Shapes
      <3>1. /\ e.label = parsed.label /\ e.line = line
            /\ symbol_table' = <<e>> \o symbol_table
        BY <2>2, <3>0 DEF EndLine, Labelled
      <3>2. ItsOwnBeginning(e.label)
        BY <2>2, <3>1 DEF UpToHere
      <3>3. Fits(e, symbol_table)
        BY <3>1 DEF UpToHere, Fits
      <3>4. /\ symbol_table' \in Seq(Entry)
            /\ Len(symbol_table') = Len(symbol_table) + 1
            /\ symbol_table'[1] = e
            /\ \A i \in 2..(Len(symbol_table) + 1) : symbol_table'[i] = symbol_table[i - 1]
            /\ LatestFirst(symbol_table')
        <4>1. symbol_table \in Seq(Entry) /\ LatestFirst(symbol_table)
          BY DEF Shapes
        <4>2. Grown(<<e>> \o symbol_table, symbol_table, e)
          BY <3>3, <4>1, Pushed
        <4>. QED
          BY <3>1, <4>2 DEF Grown
      <3>5. ASSUME NEW i \in 1..Len(symbol_table')
            PROVE  /\ symbol_table'[i].line < line + 1
                   /\ ItsOwnBeginning(symbol_table'[i].label)
        <4>1. CASE i = 1
          BY <4>1, <3>1, <3>2, <3>4, <1>2
        <4>2. CASE i # 1
          <5>1. i - 1 \in 1..Len(symbol_table) /\ symbol_table'[i] = symbol_table[i - 1]
            BY <4>2, <3>4, <1>2
          <5>. QED
            BY <5>1, <2>0
        <4>. QED
          BY <4>1, <4>2
      <3>. QED
        BY <3>4, <3>5
    <2>. QED
      BY <2>1, <2>2
  <1>6. Shapes'
    BY <1>1, <1>2, <1>3, <1>4, <1>5 DEF Shapes
  <1>7. UpToHere' /\ Known'
    BY <1>1, <1>4, <1>5 DEF UpToHere, Known, ItsOwnBeginning
  <1>. QED
    BY <1>5, <1>6, <1>7

(* The other actions leave the table and the line they are in alone. *)
LEMMA OpcodeInv ==
    ASSUME TableInv, ReadOpcode
    PROVE  TableInv'
  <1> USE DEF TableInv
  <1>1. /\ UNCHANGED <<src, line, current_address, symbol_table>>
        /\ Reading' /\ line \in 1..Len(src)
    BY DEF ReadOpcode, Shapes, Reading, More
  <1>2. Token.next \in Nat \ {0} /\ (Token.type # "BLANKLINE" => Lexeme \in Lexemes)
    BY <1>1, TokenFacts DEF Shapes
  <1>3. /\ parsed' \in ParsedLine
        /\ parsed'.label = parsed.label
        /\ parsed'.lineType = "LABEL" => parsed.lineType = "LABEL"
    BY <1>2 DEF ReadOpcode, ParsedLine, Shapes, Lexemes, Names
  <1>4. size' \in Nat /\ pos' \in Nat \ {0}
    BY <1>2 DEF ReadOpcode, Shapes
  <1>5. Shapes'
    BY <1>1, <1>3, <1>4 DEF Shapes
  <1>6. UpToHere'
    BY <1>1, <1>3 DEF UpToHere, ItsOwnBeginning
  <1>7. LatestFirst(symbol_table)' /\ Known'
    BY <1>1 DEF LatestFirst, Known, ItsOwnBeginning
  <1>. QED
    BY <1>5, <1>6, <1>7

LEMMA ArgumentInv ==
    ASSUME TableInv, ReadArgument
    PROVE  TableInv'
  <1> USE DEF TableInv
  <1>1. /\ UNCHANGED <<src, line, current_address, symbol_table>>
        /\ Reading /\ Reading' /\ line \in 1..Len(src)
    BY DEF ReadArgument, Shapes, Reading
  <1>2. Token.next \in Nat \ {0} /\ Lexeme \in Lexemes
    BY <1>1, TokenFacts DEF Shapes, ReadArgument, AtEnd
  <1>3. Bytes(Token.type) \in Nat
    BY DEF Bytes
  <1>4. parsed' \in ParsedLine /\ parsed'.label = parsed.label /\ parsed'.lineType = parsed.lineType
    <2>1. CASE Kept(Token.type)
      <3>1. Append(parsed.args, Lexeme) \in Seq(Lexemes)
        BY <1>2, AppendProperties DEF Shapes, ParsedLine
      <3>. QED
        BY <2>1, <3>1 DEF ReadArgument, ParsedLine, Shapes
    <2>2. CASE ~Kept(Token.type)
      BY <2>2 DEF ReadArgument, Shapes
    <2>. QED
      BY <2>1, <2>2
  <1>5. size' \in Nat /\ pos' \in Nat \ {0}
    BY <1>2, <1>3 DEF ReadArgument, Shapes
  <1>6. Shapes'
    BY <1>1, <1>4, <1>5 DEF Shapes
  <1>7. UpToHere'
    BY <1>1, <1>4 DEF UpToHere, ItsOwnBeginning
  <1>8. LatestFirst(symbol_table)' /\ Known'
    BY <1>1 DEF LatestFirst, Known, ItsOwnBeginning
  <1>. QED
    BY <1>6, <1>7, <1>8

LEMMA RestInv ==
    ASSUME TableInv,
           SkipLine \/ EndOfFile \/ EncodeInstruction \/ Finish \/ UNCHANGED avars
    PROVE  TableInv'
  <1> USE DEF TableInv
  <1>1. /\ UNCHANGED <<src, pos, parsed, size, current_address, symbol_table>>
        /\ \/ line' = line /\ Reading' = Reading
           \/ line' = line + 1 /\ ~Reading /\ ~Reading'
    BY DEF SkipLine, EndOfFile, EncodeInstruction, Finish, avars, passOne, Reading
  <1>2. Shapes'
    BY <1>1 DEF Shapes
  <1>3. \A i \in 1..Len(symbol_table) : symbol_table[i].line \in Nat
    <2> TAKE i \in 1..Len(symbol_table)
    <2>1. symbol_table[i] \in Entry
      BY ElementOfSeq DEF Shapes
    <2>. QED
      BY <2>1 DEF Entry
  <1>4. UpToHere'
    BY <1>1, <1>3 DEF UpToHere, ItsOwnBeginning, Shapes
  <1>5. LatestFirst(symbol_table)' /\ Known'
    BY <1>1 DEF LatestFirst, Known, ItsOwnBeginning
  <1>. QED
    BY <1>2, <1>4, <1>5

LEMMA Invariance == Spec => []TableInv
  <1>1. TableInv /\ [Next]_avars => TableInv'
    BY LabelInv, EndLineInv, OpcodeInv, ArgumentInv, RestInv DEF Next
  <1>. QED
    BY InitTable, <1>1, PTL DEF Spec

-----------------------------------------------------------------------------
(* The theorem *)

(* Labels of a name the table has, by their places. *)
Places(label) == {i \in 1..Len(symbol_table) : symbol_table[i].label = label}

(* The first entry of a name is on the last line that defines it. *)
LEMMA LatestLine ==
    ASSUME TableInv, NEW k \in 1..Len(symbol_table)
    PROVE  LET label == symbol_table[k].label
               j == Min(Places(label))
           IN  /\ j \in Places(label)
               /\ Max({t.line : t \in Labels(label)}) = symbol_table[j].line
  <1> DEFINE label == symbol_table[k].label
             j == Min(Places(label))
             lines == {t.line : t \in Labels(label)}
  <1>1. /\ symbol_table \in Seq(Entry)
        /\ Len(symbol_table) \in Nat
        /\ DOMAIN symbol_table = 1..Len(symbol_table)
    BY LenProperties DEF TableInv, Shapes
  <1>2. \A i \in 1..Len(symbol_table) : symbol_table[i].line \in Nat
    <2> TAKE i \in 1..Len(symbol_table)
    <2>1. symbol_table[i] \in Entry
      BY <1>1, ElementOfSeq
    <2>. QED
      BY <2>1 DEF Entry
  <1>3. k \in Places(label) /\ Places(label) \subseteq Nat
    BY <1>1 DEF Places
  <1>4. j \in Places(label) /\ \A i \in Places(label) : j <= i
    BY <1>3, MinFacts
  <1>5. \A x \in lines : \E i \in Places(label) : x = symbol_table[i].line
    BY <1>1 DEF Labels, Range1, Places
  <1>6. symbol_table[j].line \in lines
    BY <1>1, <1>4 DEF Labels, Range1, Places
  <1> HIDE DEF j
  <1>7. \A i \in Places(label) : symbol_table[i].line <= symbol_table[j].line
    <2> TAKE i \in Places(label)
    <2>1. i \in 1..Len(symbol_table) /\ j \in 1..Len(symbol_table) /\ j <= i
      BY <1>4 DEF Places
    <2>2. CASE i = j
      BY <2>1, <2>2, <1>2
    <2>3. CASE i # j
      <3>1. j < i
        BY <2>1, <2>3
      <3>. QED
        BY <2>1, <3>1 DEF TableInv, LatestFirst
    <2>. QED
      BY <2>2, <2>3
  <1> HIDE DEF label
  <1>8. lines \subseteq Nat /\ \A x \in lines : x <= symbol_table[j].line
    <2> HIDE DEF lines
    <2>1. \A x \in lines : x \in Nat /\ x <= symbol_table[j].line
      BY <1>2, <1>5, <1>7 DEF Places
    <2>. QED
      BY <2>1
  <1>9. Max(lines) = symbol_table[j].line
    <2> HIDE DEF lines
    <2>. QED
      BY <1>6, <1>8, MaxFacts
  <1>. QED
    BY <1>4, <1>9 DEF j, label

(***************************************************************************)
(* Whatever the source and whatever names it defines and refers to, in      *)
(* whatever order and how often, a reference to a label that exists gets    *)
(* the latest of its name, or that of a longer name defined after it.       *)
(***************************************************************************)
THEOREM ReferencesResolve == Spec => []LatestOrLonger
  <1>1. TableInv => LatestOrLonger
    <2> SUFFICES ASSUME TableInv, NEW s \in Range1(symbol_table)
                 PROVE  LET latest == Max({t.line : t \in Labels(s.label)})
                        IN  \/ \E t \in Labels(s.label) :
                                  t.line = latest /\ lookup_symbol(s.label) = t.address
                            \/ \E t \in Range1(symbol_table) :
                                  /\ t.line > latest /\ t.label # s.label
                                  /\ <<t.label, s.label>> \in Begins
                                  /\ lookup_symbol(s.label) = t.address
      BY DEF LatestOrLonger
    <2>1. /\ symbol_table \in Seq(Entry)
          /\ Len(symbol_table) \in Nat
          /\ DOMAIN symbol_table = 1..Len(symbol_table)
      BY LenProperties DEF TableInv, Shapes
    <2>2. PICK k \in 1..Len(symbol_table) : s = symbol_table[k]
      BY <2>1 DEF Range1
    <2> DEFINE label == symbol_table[k].label
               j == Min(Places(label))
               i == Min(Matches(label))
    <2>3. /\ j \in 1..Len(symbol_table) /\ symbol_table[j].label = label
          /\ Max({t.line : t \in Labels(label)}) = symbol_table[j].line
      BY LatestLine DEF Places
    <2>4. j \in Matches(label) /\ Matches(label) \subseteq Nat
      BY <2>1, <2>3 DEF Matches, TableInv, Known, ItsOwnBeginning
    <2>5. i \in Matches(label) /\ i <= j
      BY <2>4, MinFacts
    <2>6. i \in 1..Len(symbol_table) /\ <<symbol_table[i].label, label>> \in Begins
      BY <2>1, <2>5 DEF Matches
    <2>7. lookup_symbol(label) = symbol_table[i].address
      BY <2>4 DEF lookup_symbol
    <2>8. symbol_table[i] \in Range1(symbol_table)
      BY <2>1, <2>6 DEF Range1
    <2>9. symbol_table[i] \in Entry /\ symbol_table[j] \in Entry
      BY <2>1, <2>3, <2>6, ElementOfSeq
    <2> HIDE DEF i, j
    <2>10. CASE symbol_table[i].label = label
      <3>1. i \in Places(label)
        BY <2>6, <2>10 DEF Places
      <3>2. Places(label) \subseteq Nat
        BY DEF Places
      <3>3. j <= i
        BY <3>1, <3>2, MinFacts DEF j
      <3>4. i = j
        BY <3>3, <2>3, <2>5, <2>6
      <3>5. symbol_table[i] \in Labels(label)
        BY <2>8, <2>10 DEF Labels
      <3> HIDE DEF label
      <3>. QED
        BY <3>4, <3>5, <2>2, <2>3, <2>7 DEF label
    <2>11. CASE symbol_table[i].label # label
      <3>1. i < j
        BY <2>3, <2>5, <2>6, <2>11
      <3>2. symbol_table[j].line <= symbol_table[i].line
            /\ symbol_table[j].line # symbol_table[i].line
        BY <3>1, <2>3, <2>6, <2>11 DEF TableInv, LatestFirst
      <3>3. symbol_table[i].line > symbol_table[j].line
        BY <3>2, <2>9 DEF Entry
      <3>. QED
        BY <3>3, <2>2, <2>3, <2>6, <2>7, <2>8, <2>11
    <2>. QED
      BY <2>10, <2>11
  <1>. QED
    BY Invariance, <1>1, PTL

-----------------------------------------------------------------------------
(* Totals and selections *)

LEMMA TotalIsSum ==
    ASSUME NEW v, NEW n \in Nat
    PROVE  \E f : Sums(f, v, n) /\ Total(v, n) = f[n]
  <1> DEFINE g == CHOOSE f : Sums(f, v, n)
  <1>1. Sums(g, v, n)
    BY SumsExist
  <1>2. Total(v, n) = g[n]
    BY DEF Total, Sums
  <1>. QED
    BY <1>1, <1>2

LEMMA TotalNone ==
    ASSUME NEW v
    PROVE  Total(v, 0) = 0
  <1>1. PICK f : Sums(f, v, 0) /\ Total(v, 0) = f[0]
    BY TotalIsSum
  <1>2. 0 \in 0..0
    BY SMT
  <1>. QED
    BY <1>1, <1>2 DEF Sums

LEMMA TotalOneMore ==
    ASSUME NEW v, NEW n \in Nat \ {0}
    PROVE  Total(v, n) = Total(v, n - 1) + v[n]
  <1>1. PICK f : Sums(f, v, n) /\ Total(v, n) = f[n]
    BY TotalIsSum
  <1>2. n - 1 \in Nat /\ n - 1 <= n /\ n - 1 \in 0..(n - 1) /\ n \in 0..n
    OBVIOUS
  <1>3. PICK g : Sums(g, v, n - 1) /\ Total(v, n - 1) = g[n - 1]
    BY <1>2, TotalIsSum
  <1>4. \A s \in 0..(n - 1) : g[s] = f[s]
    <2>1. Alike(v, v, n - 1)
      BY DEF Alike
    <2>. QED
      BY <1>1, <1>2, <1>3, <2>1, SumsUnique
  <1>5. f[n] = f[n - 1] + v[n]
    BY <1>1, <1>2 DEF Sums
  <1>. QED
    BY <1>1, <1>2, <1>3, <1>4, <1>5

LEMMA TotalSame ==
    ASSUME NEW v, NEW w, NEW n \in Nat, Alike(v, w, n)
    PROVE  Total(v, n) = Total(w, n)
  <1>1. PICK f : Sums(f, v, n) /\ Total(v, n) = f[n]
    BY TotalIsSum
  <1>2. PICK g : Sums(g, w, n) /\ Total(w, n) = g[n]
    BY TotalIsSum
  <1>3. n <= n /\ n \in 0..n
    OBVIOUS
  <1>4. \A s \in 0..n : f[s] = g[s]
    BY <1>1, <1>2, <1>3, SumsUnique
  <1>5. f[n] = g[n]
    BY <1>3, <1>4
  <1>. QED
    BY <1>1, <1>2, <1>5, Zenon

Naturals1(v, n) == \A s \in 1..n : v[s] \in Nat

LEMMA TotalType ==
    ASSUME NEW v, NEW n \in Nat, Naturals1(v, n)
    PROVE  Total(v, n) \in Nat
  <1> DEFINE S == {m \in Nat : m <= n => Total(v, m) \in Nat}
  <1>1. 0 \in S
    BY TotalNone
  <1>2. ASSUME NEW m \in Nat, m \in S PROVE m + 1 \in S
    <2>1. SUFFICES ASSUME m + 1 <= n PROVE Total(v, m + 1) \in Nat
      OBVIOUS
    <2> DEFINE j == m + 1
    <2>2. j \in Nat \ {0} /\ j - 1 = m /\ j \in 1..n /\ m <= n
      BY <2>1
    <2>. HIDE DEF j
    <2>3. Total(v, j) = Total(v, j - 1) + v[j] /\ v[j] \in Nat
      BY <2>2, TotalOneMore DEF Naturals1
    <2>4. Total(v, j - 1) \in Nat
      BY <1>2, <2>2
    <2>. QED
      BY <2>3, <2>4 DEF j
  <1>. HIDE DEF S
  <1>3. n \in S
    BY <1>1, <1>2, Counting
  <1>. QED
    BY <1>3 DEF S

LEMMA SelectIsSelection ==
    ASSUME NEW s, NEW P, NEW n \in Nat
    PROVE  \E f : Selects(f, s, P, n) /\ Select(s, P, n) = f[n]
  <1> DEFINE g == CHOOSE f : Selects(f, s, P, n)
  <1>1. Selects(g, s, P, n)
    BY SelectionExists
  <1>2. Select(s, P, n) = g[n]
    BY DEF Select, Selects
  <1>. QED
    BY <1>1, <1>2

LEMMA SelectNone ==
    ASSUME NEW s, NEW P
    PROVE  Select(s, P, 0) = <<>>
  <1>1. PICK f : Selects(f, s, P, 0) /\ Select(s, P, 0) = f[0]
    BY SelectIsSelection
  <1>2. 0 \in 0..0
    BY SMT
  <1>. QED
    BY <1>1, <1>2 DEF Selects

LEMMA SelectOneMore ==
    ASSUME NEW s, NEW P, NEW n \in Nat \ {0}
    PROVE  Select(s, P, n) = IF n \in P THEN Append(Select(s, P, n - 1), s[n])
                                        ELSE Select(s, P, n - 1)
  <1>1. PICK f : Selects(f, s, P, n) /\ Select(s, P, n) = f[n]
    BY SelectIsSelection
  <1>2. n - 1 \in Nat /\ n - 1 <= n /\ n - 1 \in 0..(n - 1) /\ n \in 0..n /\ n # 0
    OBVIOUS
  <1>3. PICK g : Selects(g, s, P, n - 1) /\ Select(s, P, n - 1) = g[n - 1]
    BY <1>2, SelectIsSelection
  <1>4. \A i \in 0..(n - 1) : g[i] = f[i]
    BY <1>1, <1>2, <1>3, SelectionUnique
  <1>5. f[n] = IF n \in P THEN Append(f[n - 1], s[n]) ELSE f[n - 1]
    BY <1>1, <1>2, Zenon DEF Selects
  <1>6. Select(s, P, n - 1) = f[n - 1]
    BY <1>2, <1>3, <1>4
  <1>. QED
    BY <1>1, <1>5, <1>6, Zenon

Members(s, S, n) == \A i \in 1..n : s[i] \in S

LEMMA SelectType ==
    ASSUME NEW S, NEW s, NEW P, NEW n \in Nat, Members(s, S, n)
    PROVE  Select(s, P, n) \in Seq(S)
  <1> DEFINE T == {m \in Nat : m <= n => Select(s, P, m) \in Seq(S)}
  <1>1. 0 \in T
    BY SelectNone, EmptySeq
  <1>2. ASSUME NEW m \in Nat, m \in T PROVE m + 1 \in T
    <2>1. SUFFICES ASSUME m + 1 <= n PROVE Select(s, P, m + 1) \in Seq(S)
      OBVIOUS
    <2> DEFINE j == m + 1
    <2>2. j \in Nat \ {0} /\ j - 1 = m /\ j \in 1..n /\ m <= n
      BY <2>1
    <2>. HIDE DEF j
    <2>3. Select(s, P, j) = IF j \in P THEN Append(Select(s, P, j - 1), s[j])
                                       ELSE Select(s, P, j - 1)
      BY <2>2, SelectOneMore
    <2>4. Select(s, P, j - 1) \in Seq(S) /\ s[j] \in S
      BY <1>2, <2>2 DEF Members
    <2>5. Select(s, P, j) \in Seq(S)
      BY <2>3, <2>4, AppendProperties
    <2>. QED
      BY <2>5 DEF j
  <1>. HIDE DEF T
  <1>3. n \in T
    BY <1>1, <1>2, Counting
  <1>. QED
    BY <1>3 DEF T

-----------------------------------------------------------------------------
(* Lines and tokens *)

IsLine(text) ==
    /\ text \in Seq(Lexemes)
    /\ \A i \in 1..Len(text) : text[i].kind \in {"comment", "directive"} => i = Len(text)
    /\ IsInstruction(text) => \E i \in DOMAIN Mnemonics : Mnemonics[i] = text[OpcodeAt(text)].name

LEMMA LineFacts ==
    ASSUME NEW s \in Sources, NEW l \in 1..Len(s)
    PROVE  IsLine(s[l])
  <1>1. s \in Seq(Seq(Lexemes))
    BY AssemblerAssumption DEF Lexemes
  <1>2. s[l] \in Seq(Lexemes) /\ l \in DOMAIN s
    BY <1>1, ElementOfSeq, LenProperties
  <1>3. DOMAIN s[l] = 1..Len(s[l])
    BY <1>2, LenProperties
  <1>4. /\ \A i \in DOMAIN s[l] : s[l][i].kind \in {"comment", "directive"} => i = Len(s[l])
        /\ IsInstruction(s[l]) =>
              \E i \in DOMAIN Mnemonics : Mnemonics[i] = s[l][OpcodeAt(s[l])].name
    BY <1>2, AssemblerAssumption
  <1>. QED
    BY <1>2, <1>3, <1>4 DEF IsLine

(* Where the line is over, at what is not known, and at anything else. *)
LEMMA TokenAt ==
    ASSUME NEW text, IsLine(text), NEW p \in 1..(Len(text) + 1)
    PROVE  LET token == lex_token(text, p)
           IN  /\ p = Len(text) + 1 => token.type = "BLANKLINE" /\ token.next = p
               /\ p # Len(text) + 1 =>
                     /\ p \in 1..Len(text) /\ text[p] \in Lexemes
                     /\ token.type = TokenType[text[p].kind]
                     /\ token.next = IF text[p].kind = "unknown" THEN p ELSE p + 1
  <1>1. /\ text \in Seq(Lexemes) /\ Len(text) \in Nat
        /\ \A i \in 1..Len(text) :
              text[i].kind \in {"comment", "directive"} => i = Len(text)
    BY LenProperties DEF IsLine
  <1>2. CASE p = Len(text) + 1
    BY <1>1, <1>2 DEF lex_token
  <1>3. CASE p # Len(text) + 1
    <2>1. p \in 1..Len(text) /\ ~(p > Len(text))
      BY <1>1, <1>3
    <2>2. text[p] \in Lexemes
      BY <1>1, <2>1, ElementOfSeq
    <2>3. CASE text[p].kind \in {"comment", "directive"}
      BY <1>1, <2>1, <2>2, <2>3, <1>3 DEF lex_token
    <2>4. CASE text[p].kind \notin {"comment", "directive"}
      BY <1>1, <2>1, <2>2, <2>4, <1>3 DEF lex_token
    <2>. QED
      BY <2>3, <2>4
  <1>. QED
    BY <1>2, <1>3

LEMMA FirstThree ==
    ASSUME NEW S, NEW t \in Seq(S), Len(t) >= 3
    PROVE  /\ SubSeq(t, 1, 3) \in Seq(S)
           /\ Len(SubSeq(t, 1, 3)) = 3
           /\ \A i \in 1..3 : SubSeq(t, 1, 3)[i] = t[i]
  <1>1. 1 \in Int /\ 3 \in Int /\ Len(t) \in Nat
    BY LenProperties
  <1>2. \A i \in 1..3 : i \in 1..Len(t)
    BY <1>1
  <1>3. \A i \in 1..3 : t[i] \in S
    BY <1>2, ElementOfSeq
  <1>4. /\ SubSeq(t, 1, 3) \in Seq(S)
        /\ Len(SubSeq(t, 1, 3)) = IF 1 <= 3 THEN 3 - 1 + 1 ELSE 0
        /\ \A i \in 1..(3 - 1 + 1) : SubSeq(t, 1, 3)[i] = t[1 + i - 1]
    BY <1>1, <1>3, SubSeqProperties
  <1>. QED
    BY <1>4

LEMMA FirstOfType ==
    ASSUME NEW S, NEW s \in Seq(S)
    PROVE  FirstOf(s) \in Seq(S) /\ Len(FirstOf(s)) <= MAX_ARGS_NUMBER
  <1> DEFINE a == SubSeq(s, 1, 3)
  <1>1. Len(s) \in Nat
    BY LenProperties
  <1>2. FirstOf(s) = IF Len(s) <= 3 THEN s ELSE a
    BY DEF FirstOf, MAX_ARGS_NUMBER
  <1>3. Len(s) > 3 => a \in Seq(S) /\ Len(a) = 3
    BY FirstThree
  <1> HIDE DEF a
  <1>4. CASE Len(s) <= 3
    <2>1. FirstOf(s) = s
      BY <1>2, <1>4
    <2>. QED
      BY <1>4, <2>1 DEF MAX_ARGS_NUMBER
  <1>5. CASE ~(Len(s) <= 3)
    <2>1. FirstOf(s) = a
      BY <1>2, <1>5
    <2>2. a \in Seq(S) /\ Len(a) = 3
      BY <1>1, <1>3, <1>5
    <2>. QED
      BY <2>1, <2>2 DEF MAX_ARGS_NUMBER
  <1>. QED
    BY <1>4, <1>5

(* FirstOf takes what comes while there is room. *)
LEMMA FirstOfAppended ==
    ASSUME NEW S, NEW s \in Seq(S), NEW x \in S
    PROVE  /\ FirstOf(s) \in Seq(S)
           /\ Len(FirstOf(s)) <= MAX_ARGS_NUMBER
           /\ FirstOf(Append(s, x)) = IF Len(FirstOf(s)) < MAX_ARGS_NUMBER
                                      THEN Append(FirstOf(s), x) ELSE FirstOf(s)
  <1> DEFINE t == Append(s, x)
             a == SubSeq(s, 1, 3)
             b == SubSeq(t, 1, 3)
  <1>1. /\ Len(s) \in Nat
        /\ t \in Seq(S) /\ Len(t) = Len(s) + 1
        /\ \A i \in 1..Len(s) : t[i] = s[i]
    BY LenProperties, AppendProperties
  <1>2. FirstOf(s) = IF Len(s) <= 3 THEN s ELSE a
    BY DEF FirstOf, MAX_ARGS_NUMBER
  <1>3. FirstOf(t) = IF Len(t) <= 3 THEN t ELSE b
    BY DEF FirstOf, MAX_ARGS_NUMBER
  <1>4. Len(s) > 3 => a \in Seq(S) /\ Len(a) = 3 /\ \A i \in 1..3 : a[i] = s[i]
    BY FirstThree
  <1>5. Len(t) > 3 => b \in Seq(S) /\ Len(b) = 3 /\ \A i \in 1..3 : b[i] = t[i]
    BY <1>1, FirstThree
  <1> HIDE DEF t, a, b
  <1>6. FirstOf(s) \in Seq(S) /\ Len(FirstOf(s)) <= 3
    BY FirstOfType DEF MAX_ARGS_NUMBER
  <1>7. CASE Len(s) < 3
    BY <1>1, <1>2, <1>3, <1>6, <1>7 DEF MAX_ARGS_NUMBER, t
  <1>8. CASE Len(s) >= 3
    <2>1. FirstOf(t) = b /\ Len(FirstOf(s)) = 3 /\ Len(b) = 3 /\ b \in Seq(S)
      BY <1>1, <1>2, <1>3, <1>4, <1>5, <1>8
    <2>2. \A i \in 1..Len(b) : b[i] = s[i]
      BY <1>1, <1>5, <1>8, <2>1
    <2>3. \A i \in 1..Len(b) : b[i] = FirstOf(s)[i]
      BY <1>1, <1>2, <1>4, <1>8, <2>1, <2>2
    <2>4. b = FirstOf(s)
      BY <1>6, <2>1, <2>3, SeqEqual
    <2>. QED
      BY <1>6, <2>1, <2>4 DEF MAX_ARGS_NUMBER, t
  <1>. QED
    BY <1>1, <1>7, <1>8

-----------------------------------------------------------------------------
(* What the text up to a lexeme has for arguments *)

ArgBytes(args) == Total([i \in DOMAIN args |-> Bytes(TokenType[args[i].kind])], Len(args))

LEMMA ArgBytesType ==
    ASSUME NEW args \in Seq(Lexemes)
    PROVE  ArgBytes(args) \in Nat
  <1> DEFINE v == [i \in DOMAIN args |-> Bytes(TokenType[args[i].kind])]
  <1>1. Len(args) \in Nat /\ DOMAIN args = 1..Len(args)
    BY LenProperties
  <1>2. \A t : Bytes(t) \in Nat
    BY DEF Bytes
  <1>3. Naturals1(v, Len(args))
    BY <1>1, <1>2 DEF Naturals1
  <1>4. Total(v, Len(args)) \in Nat
    BY <1>1, <1>3, TotalType
  <1>. QED
    BY <1>4 DEF ArgBytes

LEMMA ArgBytesFacts ==
    ASSUME NEW args \in Seq(Lexemes), NEW x \in Lexemes
    PROVE  /\ ArgBytes(<<>>) = 0
           /\ ArgBytes(args) \in Nat
           /\ ArgBytes(Append(args, x)) = ArgBytes(args) + Bytes(TokenType[x.kind])
  <1> DEFINE V(s) == [i \in DOMAIN s |-> Bytes(TokenType[s[i].kind])]
             more == Append(args, x)
             n == Len(args)
  <1>1. /\ n \in Nat /\ DOMAIN args = 1..n
        /\ more \in Seq(Lexemes) /\ Len(more) = n + 1 /\ DOMAIN more = 1..(n + 1)
        /\ \A i \in 1..n : more[i] = args[i]
        /\ more[n + 1] = x
    <2>1. /\ more \in Seq(Lexemes) /\ Len(more) = n + 1
          /\ \A i \in 1..n : more[i] = args[i]
          /\ more[n + 1] = x
      BY AppendProperties
    <2>. HIDE DEF more
    <2>2. DOMAIN more = 1..(n + 1)
      BY <2>1, LenProperties
    <2>3. n \in Nat /\ DOMAIN args = 1..n
      BY LenProperties
    <2>. QED
      BY <2>1, <2>2, <2>3
  <1>3. ArgBytes(<<>>) = 0
    <2>1. Len(<<>>) = 0
      BY EmptySeq
    <2>. QED
      BY <2>1, TotalNone, Zenon DEF ArgBytes
  <1>4. ArgBytes(args) \in Nat
    BY ArgBytesType
  <1>. HIDE DEF more
  <1>5. ArgBytes(more) = ArgBytes(args) + Bytes(TokenType[x.kind])
    <2>1. Alike(V(more), V(args), n)
      BY <1>1 DEF Alike
    <2>2. V(more)[n + 1] = Bytes(TokenType[x.kind])
      BY <1>1
    <2>3. ArgBytes(more) = Total(V(more), n + 1) /\ ArgBytes(args) = Total(V(args), n)
      BY <1>1 DEF ArgBytes
    <2>. HIDE DEF V, n
    <2>4. n + 1 \in Nat \ {0} /\ (n + 1) - 1 = n
      BY <1>1
    <2>5. Total(V(more), n + 1) = Total(V(more), (n + 1) - 1) + V(more)[n + 1]
      BY <2>4, TotalOneMore, Zenon
    <2>6. Total(V(more), n) = Total(V(args), n)
      BY <1>1, <2>1, TotalSame
    <2>. QED
      BY <2>2, <2>3, <2>4, <2>5, <2>6
  <1>. QED
    BY <1>3, <1>4, <1>5 DEF more

(* The arguments among the first p lexemes. *)
UpTo(text, p) == FirstOf(Select(text, Operands(text), p))

LEMMA OpcodeAtFacts ==
    ASSUME NEW text
    PROVE  OpcodeAt(text) \in {1, 2}
  BY DEF OpcodeAt

LEMMA UpToFacts ==
    ASSUME NEW text \in Seq(Lexemes), NEW p \in 1..Len(text)
    PROVE  /\ UpTo(text, p - 1) \in Seq(Lexemes)
           /\ Len(UpTo(text, p - 1)) <= MAX_ARGS_NUMBER
           /\ UpTo(text, p) = IF p \in Operands(text) /\ Len(UpTo(text, p - 1)) < MAX_ARGS_NUMBER
                              THEN Append(UpTo(text, p - 1), text[p])
                              ELSE UpTo(text, p - 1)
  <1>1. Len(text) \in Nat /\ p \in Nat \ {0} /\ p - 1 \in Nat
    BY LenProperties
  <1> DEFINE P == Operands(text)
             s == Select(text, P, p - 1)
  <1>2. Members(text, Lexemes, p - 1)
    <2>1. \A i \in 1..(p - 1) : i \in 1..Len(text)
      BY <1>1
    <2>. QED
      BY <2>1, ElementOfSeq DEF Members
  <1>3. s \in Seq(Lexemes)
    BY <1>1, <1>2, SelectType
  <1>4. text[p] \in Lexemes
    BY ElementOfSeq
  <1>5. Select(text, P, p) = IF p \in P THEN Append(s, text[p]) ELSE s
    BY <1>1, SelectOneMore
  <1>. HIDE DEF s, P
  <1>6. /\ FirstOf(s) \in Seq(Lexemes)
        /\ Len(FirstOf(s)) <= MAX_ARGS_NUMBER
        /\ FirstOf(Append(s, text[p])) = IF Len(FirstOf(s)) < MAX_ARGS_NUMBER
                                         THEN Append(FirstOf(s), text[p]) ELSE FirstOf(s)
    BY <1>3, <1>4, FirstOfAppended
  <1>7. UpTo(text, p - 1) = FirstOf(s)
    BY DEF UpTo, s, P
  <1>8. UpTo(text, p) = FirstOf(IF p \in P THEN Append(s, text[p]) ELSE s)
    BY <1>5 DEF UpTo, P
  <1>. QED
    BY <1>6, <1>7, <1>8 DEF P

(* Before the opcode, and at it, there are none. *)
LEMMA NoneUpToOpcode ==
    ASSUME NEW text, NEW p \in 0..OpcodeAt(text)
    PROVE  UpTo(text, p) = <<>>
  <1>1. p \in Nat /\ OpcodeAt(text) \in Nat
    BY OpcodeAtFacts
  <1> DEFINE D == {m \in Nat : m <= OpcodeAt(text) => Select(text, Operands(text), m) = <<>>}
  <1>2. 0 \in D
    BY SelectNone
  <1>3. ASSUME NEW m \in Nat, m \in D PROVE m + 1 \in D
    <2>1. SUFFICES ASSUME m + 1 <= OpcodeAt(text)
                   PROVE  Select(text, Operands(text), m + 1) = <<>>
      OBVIOUS
    <2> DEFINE j == m + 1
    <2>2. j \in Nat \ {0} /\ j - 1 = m /\ m <= OpcodeAt(text) /\ ~(j > OpcodeAt(text))
      BY <1>1, <2>1
    <2>. HIDE DEF j
    <2>3. j \notin Operands(text)
      BY <2>2 DEF Operands
    <2>4. Select(text, Operands(text), j) = Select(text, Operands(text), j - 1)
      BY <2>2, <2>3, SelectOneMore
    <2>. QED
      BY <1>3, <2>2, <2>4 DEF j
  <1>. HIDE DEF D
  <1>4. p \in D
    BY <1>1, <1>2, <1>3, Counting
  <1>5. Select(text, Operands(text), p) = <<>>
    BY <1>1, <1>4 DEF D
  <1>6. Len(<<>>) <= MAX_ARGS_NUMBER
    BY DEF MAX_ARGS_NUMBER
  <1>. QED
    BY <1>5, <1>6 DEF UpTo, FirstOf

-----------------------------------------------------------------------------
(* parse_line, token by token *)

BehindLabel(text) == text # <<>> /\ text[1].kind = "label"

(* The opcode, or whatever stands in its place, has been read, or is what *)
(* lex_token does not go beyond.                                          *)
Stands(text, p) ==
    /\ p \in OpcodeAt(text)..(Len(text) + 1)
    /\ p = OpcodeAt(text) => p = Len(text) + 1 \/ text[p].kind = "unknown"

LEMMA OpcodeRead ==
    ASSUME NEW text, IsLine(text), OpcodeAt(text) <= Len(text) + 1
    PROVE  LET token == lex_token(text, OpcodeAt(text))
           IN  /\ Stands(text, token.next)
               /\ UpTo(text, token.next - 1) = <<>>
               /\ token.type = "INSTRUCTION" <=> IsInstruction(text)
  <1> DEFINE p == OpcodeAt(text)
             token == lex_token(text, p)
  <1>1. Len(text) \in Nat /\ p \in 1..(Len(text) + 1)
    BY OpcodeAtFacts, LenProperties DEF IsLine
  <1>2. /\ p = Len(text) + 1 => token.type = "BLANKLINE" /\ token.next = p
        /\ p # Len(text) + 1 =>
              /\ p \in 1..Len(text) /\ text[p] \in Lexemes
              /\ token.type = TokenType[text[p].kind]
              /\ token.next = IF text[p].kind = "unknown" THEN p ELSE p + 1
    BY <1>1, TokenAt
  <1>. HIDE DEF token
  <1>3. p # Len(text) + 1 => (token.type = "INSTRUCTION" <=> text[p].kind = "word")
    BY <1>2 DEF TokenType, Lexemes
  <1>4. IsInstruction(text) <=> p <= Len(text) /\ text[p].kind = "word"
    BY DEF IsInstruction
  <1>5. token.type = "INSTRUCTION" <=> IsInstruction(text)
    <2>. HIDE DEF p
    <2>. QED
      BY <1>1, <1>2, <1>3, <1>4
  <1>6. Stands(text, token.next) /\ token.next - 1 \in 0..p
    <2>1. Stands(text, token.next) <=>
            /\ token.next \in p..(Len(text) + 1)
            /\ token.next = p => p = Len(text) + 1 \/ text[p].kind = "unknown"
      BY DEF Stands
    <2>. HIDE DEF p
    <2>. QED
      BY <1>1, <1>2, <2>1
  <1>7. UpTo(text, token.next - 1) = <<>>
    BY <1>6, NoneUpToOpcode
  <1>. QED
    BY <1>5, <1>6, <1>7 DEF token

(* One pass of the loop takes the lexeme if there is room for it. *)
LEMMA ArgumentRead ==
    ASSUME NEW text, IsLine(text), NEW p, Stands(text, p),
           lex_token(text, p).type \notin {"BLANKLINE", "COMMENT"}
    PROVE  LET token == lex_token(text, p)
               args == UpTo(text, p - 1)
           IN  /\ Stands(text, token.next)
               /\ text[p] \in Lexemes /\ token.type = TokenType[text[p].kind]
               /\ args \in Seq(Lexemes)
               /\ Len(args) <= MAX_ARGS_NUMBER
               /\ UpTo(text, token.next - 1) =
                     IF token.type \notin {"SEPARATOR", "UNKNOWN"} /\ Len(args) < MAX_ARGS_NUMBER
                     THEN Append(args, text[p]) ELSE args
  <1> DEFINE token == lex_token(text, p)
             args == UpTo(text, p - 1)
  <1>1. Len(text) \in Nat /\ text \in Seq(Lexemes) /\ OpcodeAt(text) \in {1, 2}
    BY OpcodeAtFacts, LenProperties DEF IsLine
  <1>2. p \in 1..(Len(text) + 1) /\ p >= OpcodeAt(text)
    BY <1>1 DEF Stands
  <1>3. /\ p \in 1..Len(text) /\ text[p] \in Lexemes /\ p # Len(text) + 1
        /\ token.type = TokenType[text[p].kind]
        /\ token.next = IF text[p].kind = "unknown" THEN p ELSE p + 1
    <2>1. /\ p = Len(text) + 1 => token.type = "BLANKLINE" /\ token.next = p
          /\ p # Len(text) + 1 =>
              /\ p \in 1..Len(text) /\ text[p] \in Lexemes
              /\ token.type = TokenType[text[p].kind]
              /\ token.next = IF text[p].kind = "unknown" THEN p ELSE p + 1
      BY <1>2, TokenAt
    <2>2. token.type # "BLANKLINE"
      OBVIOUS
    <2>. HIDE DEF token
    <2>. QED
      BY <1>2, <2>1, <2>2
  <1>4. token.type # "COMMENT"
    OBVIOUS
  <1>. HIDE DEF token
  <1>5. /\ text[p].kind # "comment"
        /\ token.type = "UNKNOWN" <=> text[p].kind = "unknown"
        /\ token.type = "SEPARATOR" <=> text[p].kind = "comma"
    BY <1>3, <1>4 DEF TokenType, Lexemes
  <1>6. /\ args \in Seq(Lexemes)
        /\ Len(args) <= MAX_ARGS_NUMBER
        /\ UpTo(text, p) = IF p \in Operands(text) /\ Len(args) < MAX_ARGS_NUMBER
                           THEN Append(args, text[p]) ELSE args
    BY <1>1, <1>3, UpToFacts
  <1>. HIDE DEF args
  <1>7. CASE text[p].kind = "unknown"
    <2>1. token.next = p
      BY <1>3, <1>7
    <2>2. UpTo(text, token.next - 1) = args
      BY <2>1 DEF args
    <2>. QED
      BY <1>3, <1>5, <1>6, <1>7, <2>1, <2>2 DEF args, token
  <1>8. CASE text[p].kind # "unknown"
    <2>1. token.next = p + 1 /\ token.next - 1 = p
      BY <1>2, <1>3, <1>8
    <2>2. p # OpcodeAt(text)
      BY <1>3, <1>8 DEF Stands
    <2>3. p > OpcodeAt(text) /\ token.next # OpcodeAt(text)
          /\ token.next \in OpcodeAt(text)..(Len(text) + 1)
      BY <1>1, <1>2, <1>3, <2>1, <2>2
    <2>4. Stands(text, token.next)
      BY <2>3 DEF Stands
    <2>5. p \in DOMAIN text
      BY <1>1, <1>3, LenProperties
    <2>6. p \in Operands(text) <=> text[p].kind # "comma"
      BY <1>5, <2>3, <2>5 DEF Operands
    <2>7. UpTo(text, token.next - 1) = UpTo(text, p)
      BY <2>1
    <2>. QED
      BY <1>3, <1>5, <1>6, <1>8, <2>4, <2>6, <2>7 DEF args, token
  <1>. QED
    BY <1>7, <1>8

(* At the end of a line its arguments have been read. *)
LEMMA LineRead ==
    ASSUME NEW text, IsLine(text), NEW p, Stands(text, p),
           lex_token(text, p).type \in {"BLANKLINE", "COMMENT"}
    PROVE  UpTo(text, p - 1) = Arguments(text)
  <1> DEFINE token == lex_token(text, p)
  <1>1. Len(text) \in Nat /\ text \in Seq(Lexemes) /\ OpcodeAt(text) \in {1, 2}
    BY OpcodeAtFacts, LenProperties DEF IsLine
  <1>2. p \in 1..(Len(text) + 1)
    BY <1>1 DEF Stands
  <1>3. Arguments(text) = UpTo(text, Len(text))
    BY DEF Arguments, UpTo
  <1>4. CASE p = Len(text) + 1
    <2>1. p - 1 = Len(text)
      BY <1>1, <1>4
    <2>. QED
      BY <1>3, <2>1
  <1>5. CASE p # Len(text) + 1
    <2>1. /\ p \in 1..Len(text) /\ text[p] \in Lexemes
          /\ token.type = TokenType[text[p].kind]
      BY <1>2, <1>5, TokenAt
    <2>2. text[p].kind = "comment"
      BY <2>1 DEF TokenType, Lexemes
    <2>3. p = Len(text)
      BY <2>1, <2>2 DEF IsLine
    <2>4. p \notin Operands(text)
      BY <2>2 DEF Operands
    <2>5. UpTo(text, p) = UpTo(text, p - 1)
      BY <1>1, <2>1, <2>4, UpToFacts
    <2>. QED
      BY <1>3, <2>3, <2>5
  <1>. QED
    BY <1>4, <1>5

Counted(text, args) == (IF IsInstruction(text) THEN 2 ELSE 0) + ArgBytes(args)

LEMMA BytesCounted ==
    ASSUME NEW text
    PROVE  BytesOf(text) = Counted(text, Arguments(text))
  BY DEF BytesOf, Counted, ArgBytes

LEMMA BytesType ==
    ASSUME NEW text, IsLine(text)
    PROVE  /\ Arguments(text) \in Seq(Lexemes) /\ Len(Arguments(text)) <= MAX_ARGS_NUMBER
           /\ BytesOf(text) \in Nat
  <1> DEFINE s == Select(text, Operands(text), Len(text))
  <1>1. text \in Seq(Lexemes) /\ Len(text) \in Nat
    BY LenProperties DEF IsLine
  <1>2. Members(text, Lexemes, Len(text))
    BY <1>1, ElementOfSeq DEF Members
  <1>3. s \in Seq(Lexemes)
    BY <1>1, <1>2, SelectType
  <1>. HIDE DEF s
  <1>5. FirstOf(s) \in Seq(Lexemes) /\ Len(FirstOf(s)) <= MAX_ARGS_NUMBER
    BY <1>3, FirstOfType
  <1>6. Arguments(text) = FirstOf(s)
    BY DEF Arguments, s
  <1>7. ArgBytes(Arguments(text)) \in Nat
    BY <1>5, <1>6, ArgBytesType
  <1>. QED
    BY <1>5, <1>6, <1>7, BytesCounted DEF Counted

(* A line with nothing in it but a comment *)
LEMMA NothingRead ==
    ASSUME NEW text, IsLine(text), lex_token(text, 1).type \in {"BLANKLINE", "COMMENT"}
    PROVE  ~IsInstruction(text) /\ BytesOf(text) = 0
  <1> DEFINE token == lex_token(text, 1)
  <1>1. Len(text) \in Nat /\ text \in Seq(Lexemes) /\ 1 \in 1..(Len(text) + 1)
    BY LenProperties DEF IsLine
  <1>2. 1 # Len(text) + 1 =>
           /\ 1 \in 1..Len(text) /\ text[1] \in Lexemes
           /\ token.type = TokenType[text[1].kind]
    BY <1>1, TokenAt
  <1>3. 1 # Len(text) + 1 => text[1].kind = "comment" /\ Len(text) = 1
    <2>1. SUFFICES ASSUME 1 # Len(text) + 1 PROVE text[1].kind = "comment" /\ Len(text) = 1
      OBVIOUS
    <2>2. text[1].kind = "comment"
      BY <1>2, <2>1 DEF TokenType, Lexemes
    <2>. QED
      BY <1>2, <2>1, <2>2 DEF IsLine
  <1>4. Len(text) \in {0, 1} /\ (Len(text) = 0 => text = <<>>)
    BY <1>1, <1>3, EmptySeq
  <1>5. OpcodeAt(text) = 1 /\ ~IsInstruction(text)
    <2>1. CASE Len(text) = 0
      BY <1>4, <2>1 DEF OpcodeAt, IsInstruction
    <2>2. CASE Len(text) = 1
      BY <1>3, <2>2 DEF OpcodeAt, IsInstruction
    <2>. QED
      BY <1>4, <2>1, <2>2
  <1>6. Arguments(text) = <<>>
    <2>1. Arguments(text) = UpTo(text, Len(text))
      BY DEF Arguments, UpTo
    <2>2. Len(text) \in 0..OpcodeAt(text)
      BY <1>4, <1>5
    <2>. QED
      BY <2>1, <2>2, NoneUpToOpcode
  <1>7. ArgBytes(<<>>) = 0
    <2>1. Len(<<>>) = 0
      BY EmptySeq
    <2>. QED
      BY <2>1, TotalNone, Zenon DEF ArgBytes
  <1>. QED
    BY <1>5, <1>6, <1>7, BytesCounted DEF Counted

-----------------------------------------------------------------------------
(* parse_contents, line by line *)

(* The bytes of the lines before the l-th, and the instructions of those. *)
Sized(s, l) == Total([k \in DOMAIN s |-> BytesOf(s[k])], l - 1)
Places1(s) == {k \in DOMAIN s : IsInstruction(s[k])}
Instructions(s, l) == Select(s, Places1(s), l - 1)

KeptLine == {p \in ParsedLine :
                /\ p.lineType = "INSTRUCTION"
                /\ Len(p.args) <= MAX_ARGS_NUMBER
                /\ \E i \in DOMAIN Mnemonics : Mnemonics[i] = p.opcode}

(* What is kept of an instruction is what it says. *)
Says(p, text) == p.opcode = text[OpcodeAt(text)].name /\ p.args = Arguments(text)
Filed(instructions, kept) ==
    /\ Len(kept) = Len(instructions)
    /\ \A k \in 1..Len(kept) : Says(kept[k], instructions[k])

LEMMA SourceType ==
    ASSUME NEW s \in Sources
    PROVE  s \in Seq(Seq(Lexemes)) /\ Len(s) \in Nat /\ DOMAIN s = 1..Len(s)
  <1>1. s \in Seq(Seq(Lexemes))
    BY AssemblerAssumption DEF Lexemes
  <1>. QED
    BY <1>1, LenProperties

LEMMA SizedFacts ==
    ASSUME NEW s \in Sources
    PROVE  /\ Sized(s, 1) = 0
           /\ \A l \in 1..Len(s) : Sized(s, l + 1) = Sized(s, l) + BytesOf(s[l])
  <1> DEFINE v == [k \in DOMAIN s |-> BytesOf(s[k])]
  <1>1. Sized(s, 1) = 0
    <2>1. 1 - 1 = 0
      OBVIOUS
    <2>. QED
      BY <2>1, TotalNone DEF Sized
  <1>2. ASSUME NEW l \in 1..Len(s)
        PROVE  Sized(s, l + 1) = Sized(s, l) + BytesOf(s[l])
    <2>1. l \in Nat \ {0} /\ l \in DOMAIN s /\ (l + 1) - 1 = l
      BY SourceType
    <2>2. v[l] = BytesOf(s[l])
      BY <2>1
    <2>3. Sized(s, l + 1) = Total(v, l) /\ Sized(s, l) = Total(v, l - 1)
      BY <2>1 DEF Sized
    <2>. HIDE DEF v
    <2>4. Total(v, l) = Total(v, l - 1) + v[l]
      BY <2>1, TotalOneMore
    <2>. QED
      BY <2>2, <2>3, <2>4
  <1>. QED
    BY <1>1, <1>2

LEMMA SizedType ==
    ASSUME NEW s \in Sources, NEW l \in 1..(Len(s) + 1)
    PROVE  Sized(s, l) \in Nat
  <1> DEFINE v == [k \in DOMAIN s |-> BytesOf(s[k])]
  <1>1. l - 1 \in Nat /\ l - 1 <= Len(s)
    BY SourceType
  <1>2. ASSUME NEW k \in 1..(l - 1) PROVE v[k] \in Nat
    <2>1. k \in 1..Len(s) /\ k \in DOMAIN s
      BY <1>1, SourceType
    <2>2. IsLine(s[k])
      BY <2>1, LineFacts
    <2>3. BytesOf(s[k]) \in Nat
      BY <2>2, BytesType
    <2>. QED
      BY <2>1, <2>3
  <1>3. Naturals1(v, l - 1)
    BY <1>2 DEF Naturals1
  <1>. HIDE DEF v
  <1>4. Total(v, l - 1) \in Nat
    BY <1>1, <1>3, TotalType
  <1>. QED
    BY <1>4 DEF Sized, v

LEMMA InstructionsFacts ==
    ASSUME NEW s \in Sources
    PROVE  /\ Instructions(s, 1) = <<>>
           /\ \A l \in 1..Len(s) :
                 /\ Instructions(s, l) \in Seq(Seq(Lexemes))
                 /\ Instructions(s, l + 1) = IF IsInstruction(s[l])
                                             THEN Append(Instructions(s, l), s[l])
                                             ELSE Instructions(s, l)
  <1> DEFINE P == Places1(s)
  <1>1. Instructions(s, 1) = <<>>
    <2>1. 1 - 1 = 0
      OBVIOUS
    <2>. QED
      BY <2>1, SelectNone DEF Instructions
  <1>2. ASSUME NEW l \in 1..Len(s)
        PROVE  /\ Instructions(s, l) \in Seq(Seq(Lexemes))
               /\ Instructions(s, l + 1) = IF IsInstruction(s[l])
                                           THEN Append(Instructions(s, l), s[l])
                                           ELSE Instructions(s, l)
    <2>1. l \in Nat \ {0} /\ l - 1 \in Nat /\ l \in DOMAIN s /\ (l + 1) - 1 = l
      BY SourceType
    <2>2. l \in P <=> IsInstruction(s[l])
      BY <2>1 DEF Places1
    <2>3. Members(s, Seq(Lexemes), l - 1)
      <3>1. \A i \in 1..(l - 1) : i \in 1..Len(s)
        BY SourceType
      <3>. QED
        BY <3>1, SourceType, ElementOfSeq DEF Members
    <2>4. Instructions(s, l + 1) = Select(s, P, l) /\ Instructions(s, l) = Select(s, P, l - 1)
      BY <2>1 DEF Instructions
    <2>. HIDE DEF P
    <2>5. Select(s, P, l) = IF l \in P THEN Append(Select(s, P, l - 1), s[l])
                                       ELSE Select(s, P, l - 1)
      BY <2>1, SelectOneMore
    <2>6. Select(s, P, l - 1) \in Seq(Seq(Lexemes))
      BY <2>1, <2>3, SelectType
    <2>. QED
      BY <2>2, <2>4, <2>5, <2>6
  <1>. QED
    BY <1>1, <1>2

LEMMA FiledOneMore ==
    ASSUME NEW instructions \in Seq(Seq(Lexemes)), NEW text \in Seq(Lexemes),
           NEW kept \in Seq(KeptLine), NEW p \in KeptLine,
           Filed(instructions, kept), Says(p, text)
    PROVE  Filed(Append(instructions, text), Append(kept, p))
  <1> DEFINE more == Append(instructions, text)
             all == Append(kept, p)
  <1>1. /\ Len(kept) \in Nat /\ Len(kept) = Len(instructions)
        /\ Len(all) = Len(kept) + 1 /\ Len(more) = Len(kept) + 1
        /\ \A k \in 1..Len(kept) : all[k] = kept[k] /\ more[k] = instructions[k]
        /\ all[Len(kept) + 1] = p /\ more[Len(kept) + 1] = text
    BY AppendProperties, LenProperties DEF Filed
  <1>. HIDE DEF more, all
  <1>2. \A k \in 1..Len(kept) : Says(kept[k], instructions[k])
    BY DEF Filed
  <1>3. ASSUME NEW k \in 1..Len(all) PROVE Says(all[k], more[k])
    <2>1. CASE k \in 1..Len(kept)
      BY <1>1, <1>2, <2>1
    <2>2. CASE k = Len(kept) + 1
      BY <1>1, <2>2
    <2>. QED
      BY <1>1, <2>1, <2>2
  <1>. QED
    BY <1>1, <1>3 DEF Filed, more, all

-----------------------------------------------------------------------------
(* The invariant of the first pass *)

Stage(c, s, l, p, read, sz) ==
    /\ c = "line" => p = 1 /\ read = NoLine /\ sz = Sized(s, l)
    /\ c = "label" => /\ BehindLabel(s[l]) /\ p = 2
                      /\ read.lineType = "LABEL" /\ read.args = <<>>
                      /\ sz = Sized(s, l)
    /\ c = "arguments" => /\ Stands(s[l], p)
                          /\ read.args = UpTo(s[l], p - 1)
                          /\ read.lineType = "INSTRUCTION" <=> IsInstruction(s[l])
                          /\ IsInstruction(s[l]) => read.opcode = s[l][OpcodeAt(s[l])].name
                          /\ sz = Sized(s, l) + Counted(s[l], read.args)
    /\ c \in {"assemble", "done"} => p = 1 /\ l = Len(s) + 1 /\ sz = Sized(s, l)

ReadInv ==
    /\ TableInv
    /\ line \in 1..(Len(src) + 1)
    /\ pc \in {"line", "label", "arguments", "assemble", "done"}
    /\ Len(parsed.args) <= MAX_ARGS_NUMBER
    /\ parsed_lines \in Seq(KeptLine)
    /\ Filed(Instructions(src, line), parsed_lines)
    /\ Stage(pc, src, line, pos, parsed, size)

LEMMA InitRead == Init => ReadInv
  <1> SUFFICES ASSUME Init PROVE ReadInv
    OBVIOUS
  <1>1. TableInv
    BY InitTable
  <1>2. /\ src \in Sources /\ line = 1 /\ pos = 1 /\ size = 0 /\ pc = "line"
        /\ parsed = NoLine /\ parsed_lines = <<>>
    BY DEF Init
  <1>3. line \in 1..(Len(src) + 1)
    BY <1>2, SourceType
  <1>4. parsed_lines \in Seq(KeptLine) /\ Len(parsed_lines) = 0 /\ Len(<<>>) = 0
    BY <1>2, EmptySeq
  <1>5. Filed(Instructions(src, line), parsed_lines)
    <2>1. Instructions(src, line) = <<>>
      BY <1>2, InstructionsFacts
    <2>. QED
      BY <1>4, <2>1 DEF Filed
  <1>6. size = Sized(src, line)
    BY <1>2, SizedFacts
  <1>7. Len(parsed.args) <= MAX_ARGS_NUMBER
    <2>1. parsed.args = <<>>
      BY <1>2 DEF NoLine
    <2>. QED
      BY <1>4, <2>1 DEF MAX_ARGS_NUMBER
  <1>8. Stage(pc, src, line, pos, parsed, size)
    BY <1>2, <1>6 DEF Stage
  <1>. QED
    BY <1>1, <1>2, <1>3, <1>4, <1>5, <1>7, <1>8 DEF ReadInv

(* A line being read is one of the source. *)
LEMMA ThisLine ==
    ASSUME ReadInv, pc \in {"label", "arguments"} \/ (pc = "line" /\ More)
    PROVE  /\ src \in Sources /\ line \in 1..Len(src) /\ IsLine(src[line])
           /\ Len(src) \in Nat /\ Len(src[line]) \in Nat
  <1>1. src \in Sources /\ line \in 1..Len(src) /\ Len(src) \in Nat
    BY SourceType DEF ReadInv, TableInv, Shapes, Reading, More
  <1>2. IsLine(src[line])
    BY <1>1, LineFacts
  <1>3. Len(src[line]) \in Nat
    BY <1>2, LenProperties DEF IsLine
  <1>. QED
    BY <1>1, <1>2, <1>3

LEMMA SkipLineRead ==
    ASSUME ReadInv, SkipLine
    PROVE  ReadInv'
  <1>1. /\ pc = "line" /\ pc' = "line" /\ More /\ AtEnd /\ line' = line + 1
        /\ UNCHANGED <<src, pos, parsed, size, parsed_lines>>
    BY DEF SkipLine
  <1>2. /\ src \in Sources /\ line \in 1..Len(src) /\ IsLine(src[line]) /\ Len(src) \in Nat
    BY <1>1, ThisLine
  <1>3. TableInv'
    BY RestInv DEF ReadInv
  <1>4. pos = 1 /\ parsed = NoLine /\ size = Sized(src, line)
    BY <1>1 DEF ReadInv, Stage
  <1>5. ~IsInstruction(src[line]) /\ BytesOf(src[line]) = 0
    <2>1. lex_token(src[line], 1).type \in {"BLANKLINE", "COMMENT"}
      BY <1>1, <1>4 DEF AtEnd, Token
    <2>. QED
      BY <1>2, <2>1, NothingRead
  <1>6. Instructions(src, line + 1) = Instructions(src, line)
    BY <1>2, <1>5, InstructionsFacts
  <1>7. size = Sized(src, line + 1)
    <2>1. Sized(src, line + 1) = Sized(src, line) + 0
      BY <1>2, <1>5, SizedFacts
    <2>2. size \in Nat
      BY DEF ReadInv, TableInv, Shapes
    <2>. QED
      BY <1>4, <2>1, <2>2
  <1>8. Stage("line", src, line + 1, pos, parsed, size)
    BY <1>4, <1>7 DEF Stage
  <1>9. Filed(Instructions(src, line + 1), parsed_lines)
    BY <1>6 DEF ReadInv
  <1>10. line' \in 1..(Len(src) + 1)
    BY <1>1, <1>2
  <1>. QED
    BY <1>1, <1>3, <1>8, <1>9, <1>10 DEF ReadInv

LEMMA LabelRead ==
    ASSUME ReadInv, ReadLabel
    PROVE  ReadInv'
  <1>1. /\ pc = "line" /\ pc' = "label" /\ More /\ Token.type = "LABEL"
        /\ parsed' = [parsed EXCEPT !.lineType = "LABEL", !.label = Lexeme.name]
        /\ pos' = Token.next
        /\ UNCHANGED <<src, line, size, parsed_lines>>
    BY DEF ReadLabel
  <1>2. /\ src \in Sources /\ line \in 1..Len(src) /\ IsLine(src[line]) /\ Len(src) \in Nat
        /\ Len(src[line]) \in Nat
    BY <1>1, ThisLine
  <1>3. TableInv'
    BY LabelInv DEF ReadInv
  <1>4. pos = 1 /\ parsed = NoLine /\ size = Sized(src, line)
    BY <1>1 DEF ReadInv, Stage
  <1> DEFINE text == src[line]
  <1>5. 1 \in 1..(Len(text) + 1) /\ Token = lex_token(text, 1)
    BY <1>2, <1>4 DEF Token
  <1>6. BehindLabel(text) /\ Token.next = 2
    <2>1. /\ 1 = Len(text) + 1 => Token.type = "BLANKLINE" /\ Token.next = 1
          /\ 1 # Len(text) + 1 =>
              /\ 1 \in 1..Len(text) /\ text[1] \in Lexemes
              /\ Token.type = TokenType[text[1].kind]
              /\ Token.next = IF text[1].kind = "unknown" THEN 1 ELSE 1 + 1
      BY <1>2, <1>5, TokenAt
    <2>2. 1 # Len(text) + 1
      BY <1>1, <2>1
    <2>3. text[1].kind = "label"
      BY <1>1, <2>1, <2>2 DEF TokenType, Lexemes
    <2>4. text # <<>>
      <3>1. Len(<<>>) = 0
        BY EmptySeq
      <3>. QED
        BY <2>1, <2>2, <3>1
    <2>. QED
      BY <2>1, <2>2, <2>3, <2>4 DEF BehindLabel
  <1>7. parsed'.args = <<>> /\ parsed'.lineType = "LABEL" /\ Len(parsed'.args) = 0
    BY <1>1, <1>4, EmptySeq DEF NoLine
  <1>8. Stage("label", src, line, pos', parsed', size)
    BY <1>1, <1>4, <1>6, <1>7 DEF Stage
  <1>9. Filed(Instructions(src, line), parsed_lines) /\ parsed_lines \in Seq(KeptLine)
    BY DEF ReadInv
  <1>10. Len(parsed'.args) <= MAX_ARGS_NUMBER /\ line \in 1..(Len(src) + 1)
    BY <1>2, <1>7 DEF MAX_ARGS_NUMBER
  <1>. QED
    BY <1>1, <1>3, <1>8, <1>9, <1>10 DEF ReadInv

LEMMA OpcodeReadInv ==
    ASSUME ReadInv, ReadOpcode
    PROVE  ReadInv'
  <1> DEFINE text == src[line]
             instruction == Token.type = "INSTRUCTION"
  <1>1. /\ \/ pc = "line" /\ More /\ ~AtEnd /\ Token.type # "LABEL"
           \/ pc = "label"
        /\ pc' = "arguments" /\ pos' = Token.next
        /\ size' = size + (IF instruction THEN 2 ELSE 0)
        /\ UNCHANGED <<src, line, parsed_lines>>
    BY DEF ReadOpcode
  <1>2. /\ src \in Sources /\ line \in 1..Len(src) /\ IsLine(text) /\ Len(src) \in Nat
        /\ Len(text) \in Nat
    BY <1>1, ThisLine
  <1>3. TableInv'
    BY OpcodeInv DEF ReadInv
  <1>4. /\ pos = OpcodeAt(text) /\ pos <= Len(text) + 1
        /\ parsed.args = <<>> /\ parsed.lineType # "INSTRUCTION"
        /\ size = Sized(src, line)
    <2>1. CASE pc = "line"
      <3>1. pos = 1 /\ parsed = NoLine /\ size = Sized(src, line)
        BY <2>1 DEF ReadInv, Stage
      <3>2. 1 \in 1..(Len(text) + 1) /\ Token = lex_token(text, 1)
        BY <1>2, <3>1 DEF Token
      <3>3. /\ 1 = Len(text) + 1 => Token.type = "BLANKLINE" /\ Token.next = 1
            /\ 1 # Len(text) + 1 =>
                /\ 1 \in 1..Len(text) /\ text[1] \in Lexemes
                /\ Token.type = TokenType[text[1].kind]
                /\ Token.next = IF text[1].kind = "unknown" THEN 1 ELSE 1 + 1
        BY <1>2, <3>2, TokenAt
      <3>4. 1 # Len(text) + 1 /\ Token.type # "LABEL"
        BY <1>1, <2>1, <3>3 DEF AtEnd
      <3>5. text[1].kind # "label"
        BY <3>3, <3>4 DEF TokenType
      <3>6. OpcodeAt(text) = 1
        BY <3>5 DEF OpcodeAt
      <3>7. parsed.args = <<>> /\ parsed.lineType # "INSTRUCTION"
        BY <3>1 DEF NoLine
      <3>. QED
        BY <1>2, <3>1, <3>6, <3>7
    <2>2. CASE pc = "label"
      <3>1. /\ BehindLabel(text) /\ pos = 2
            /\ parsed.lineType = "LABEL" /\ parsed.args = <<>>
            /\ size = Sized(src, line)
        BY <2>2 DEF ReadInv, Stage
      <3>2. OpcodeAt(text) = 2
        BY <3>1 DEF BehindLabel, OpcodeAt
      <3>3. Len(text) # 0
        BY <1>2, <3>1, EmptySeq DEF BehindLabel, IsLine
      <3>. QED
        BY <1>2, <3>1, <3>2, <3>3
    <2>. QED
      BY <1>1, <2>1, <2>2
  <1>5. Token = lex_token(text, OpcodeAt(text))
    BY <1>4 DEF Token
  <1>6. /\ Stands(text, Token.next)
        /\ UpTo(text, Token.next - 1) = <<>>
        /\ instruction <=> IsInstruction(text)
    BY <1>2, <1>4, <1>5, OpcodeRead
  <1>7. parsed \in ParsedLine
    BY DEF ReadInv, TableInv, Shapes
  <1>8. /\ parsed'.args = <<>>
        /\ parsed'.lineType = "INSTRUCTION" <=> instruction
        /\ instruction => parsed'.opcode = Lexeme.name
    <2>1. parsed' = CASE Token.type = "INSTRUCTION" ->
                           [parsed EXCEPT !.lineType = "INSTRUCTION", !.opcode = Lexeme.name]
                      [] Token.type = "DIRECT" -> [parsed EXCEPT !.lineType = "DIRECT"]
                      [] OTHER -> parsed
      BY DEF ReadOpcode
    <2>2. CASE Token.type = "INSTRUCTION"
      BY <1>4, <1>7, <2>1, <2>2 DEF ParsedLine
    <2>3. CASE Token.type = "DIRECT"
      BY <1>4, <1>7, <2>1, <2>3 DEF ParsedLine
    <2>4. CASE Token.type \notin {"INSTRUCTION", "DIRECT"}
      BY <1>4, <1>7, <2>1, <2>4 DEF ParsedLine
    <2>. QED
      BY <2>2, <2>3, <2>4
  <1>9. Lexeme = text[OpcodeAt(text)]
    BY <1>4 DEF Lexeme
  <1>10. ArgBytes(<<>>) = 0 /\ Len(<<>>) = 0
    <2>1. Len(<<>>) = 0
      BY EmptySeq
    <2>. QED
      BY <2>1, TotalNone, Zenon DEF ArgBytes
  <1>11. size' = Sized(src, line) + Counted(text, <<>>)
    BY <1>1, <1>4, <1>6, <1>10 DEF Counted
  <1>12. Stage("arguments", src, line, pos', parsed', size')
    BY <1>1, <1>6, <1>8, <1>9, <1>11 DEF Stage
  <1>13. Filed(Instructions(src, line), parsed_lines) /\ parsed_lines \in Seq(KeptLine)
    BY DEF ReadInv
  <1>14. Len(parsed'.args) <= MAX_ARGS_NUMBER /\ line \in 1..(Len(src) + 1)
    BY <1>2, <1>8, <1>10 DEF MAX_ARGS_NUMBER
  <1>. QED
    BY <1>1, <1>3, <1>12, <1>13, <1>14 DEF ReadInv

LEMMA ArgumentReadInv ==
    ASSUME ReadInv, ReadArgument
    PROVE  ReadInv'
  <1> DEFINE text == src[line]
             args == UpTo(text, pos - 1)
  <1>1. /\ pc = "arguments" /\ pc' = "arguments" /\ ~AtEnd /\ pos' = Token.next
        /\ UNCHANGED <<src, line, parsed_lines>>
    BY DEF ReadArgument
  <1>2. /\ src \in Sources /\ line \in 1..Len(src) /\ IsLine(text) /\ Len(src) \in Nat
        /\ Len(text) \in Nat
    BY <1>1, ThisLine
  <1>3. TableInv'
    BY ArgumentInv DEF ReadInv
  <1>4. /\ Stands(text, pos)
        /\ parsed.args = args
        /\ parsed.lineType = "INSTRUCTION" <=> IsInstruction(text)
        /\ IsInstruction(text) => parsed.opcode = text[OpcodeAt(text)].name
        /\ size = Sized(src, line) + Counted(text, parsed.args)
    BY <1>1 DEF ReadInv, Stage
  <1>5. Token = lex_token(text, pos) /\ Lexeme = text[pos]
    BY DEF Token, Lexeme
  <1>6. Token.type \notin {"BLANKLINE", "COMMENT"}
    BY <1>1 DEF AtEnd
  <1>7. /\ Stands(text, Token.next)
        /\ Lexeme \in Lexemes /\ Token.type = TokenType[Lexeme.kind]
        /\ args \in Seq(Lexemes)
        /\ Len(args) <= MAX_ARGS_NUMBER
        /\ UpTo(text, Token.next - 1) =
              IF Token.type \notin {"SEPARATOR", "UNKNOWN"} /\ Len(args) < MAX_ARGS_NUMBER
              THEN Append(args, Lexeme) ELSE args
    BY <1>2, <1>4, <1>5, <1>6, ArgumentRead
  <1>. HIDE DEF args
  <1>8. Kept(Token.type) <=>
           Token.type \notin {"SEPARATOR", "UNKNOWN"} /\ Len(args) < MAX_ARGS_NUMBER
    BY <1>4 DEF Kept
  <1>9. parsed \in ParsedLine /\ size \in Nat
    BY DEF ReadInv, TableInv, Shapes
  <1>10. /\ parsed'.args = UpTo(text, pos' - 1)
         /\ parsed'.lineType = parsed.lineType /\ parsed'.opcode = parsed.opcode
         /\ size' = Sized(src, line) + Counted(text, parsed'.args)
         /\ Len(parsed'.args) <= MAX_ARGS_NUMBER
    <2>1. CASE Kept(Token.type)
      <3>1. /\ parsed' = [parsed EXCEPT !.args = Append(@, Lexeme)]
            /\ size' = size + Bytes(Token.type)
        BY <2>1 DEF ReadArgument
      <3>2. /\ parsed'.args = Append(args, Lexeme)
            /\ parsed'.lineType = parsed.lineType /\ parsed'.opcode = parsed.opcode
        BY <1>4, <1>9, <3>1 DEF ParsedLine
      <3>3. parsed'.args = UpTo(text, pos' - 1)
        BY <1>1, <1>7, <1>8, <2>1, <3>2
      <3>4. /\ ArgBytes(Append(args, Lexeme)) = ArgBytes(args) + Bytes(Token.type)
            /\ ArgBytes(args) \in Nat
        BY <1>7, ArgBytesFacts
      <3>5. Counted(text, parsed'.args) = Counted(text, parsed.args) + Bytes(Token.type)
            /\ Counted(text, parsed.args) \in Nat /\ Bytes(Token.type) \in Nat
        BY <1>4, <3>2, <3>4 DEF Counted, Bytes
      <3>6. Sized(src, line) + Counted(text, parsed'.args)
              = (Sized(src, line) + Counted(text, parsed.args)) + Bytes(Token.type)
        <4>1. Sized(src, line) \in Int
          BY <1>2, SizedType
        <4>. QED
          BY <3>5, <4>1
      <3>7. Len(parsed'.args) <= MAX_ARGS_NUMBER
        <4>1. Len(Append(args, Lexeme)) = Len(args) + 1 /\ Len(args) \in Nat
          BY <1>7, AppendProperties, LenProperties
        <4>. QED
          BY <1>8, <2>1, <3>2, <4>1 DEF MAX_ARGS_NUMBER
      <3>. QED
        BY <1>4, <3>1, <3>2, <3>3, <3>6, <3>7
    <2>2. CASE ~Kept(Token.type)
      <3>1. parsed' = parsed /\ size' = size
        BY <2>2 DEF ReadArgument
      <3>2. UpTo(text, pos' - 1) = args
        BY <1>1, <1>7, <1>8, <2>2
      <3>. QED
        BY <1>4, <1>7, <3>1, <3>2
    <2>. QED
      BY <2>1, <2>2
  <1>11. Stage("arguments", src, line, pos', parsed', size')
    BY <1>1, <1>4, <1>7, <1>10 DEF Stage
  <1>12. Filed(Instructions(src, line), parsed_lines) /\ parsed_lines \in Seq(KeptLine)
    BY DEF ReadInv
  <1>13. line \in 1..(Len(src) + 1)
    BY <1>2
  <1>. QED
    BY <1>1, <1>3, <1>10, <1>11, <1>12, <1>13 DEF ReadInv

LEMMA EndLineReadInv ==
    ASSUME ReadInv, EndLine
    PROVE  ReadInv'
  <1> DEFINE text == src[line]
  <1>1. /\ pc = "arguments" /\ pc' = "line" /\ AtEnd /\ pos' = 1 /\ line' = line + 1
        /\ parsed' = NoLine
        /\ IF parsed.lineType = "INSTRUCTION"
           THEN parsed_lines' = Append(parsed_lines, parsed)
           ELSE parsed_lines' = parsed_lines
        /\ UNCHANGED <<src, size>>
    BY DEF EndLine
  <1>2. /\ src \in Sources /\ line \in 1..Len(src) /\ IsLine(text) /\ Len(src) \in Nat
        /\ Len(text) \in Nat
    BY <1>1, ThisLine
  <1>3. TableInv'
    BY EndLineInv DEF ReadInv
  <1>4. /\ Stands(text, pos)
        /\ parsed.args = UpTo(text, pos - 1)
        /\ parsed.lineType = "INSTRUCTION" <=> IsInstruction(text)
        /\ IsInstruction(text) => parsed.opcode = text[OpcodeAt(text)].name
        /\ size = Sized(src, line) + Counted(text, parsed.args)
    BY <1>1 DEF ReadInv, Stage
  <1>5. lex_token(text, pos).type \in {"BLANKLINE", "COMMENT"}
    BY <1>1 DEF AtEnd, Token
  <1>6. parsed.args = Arguments(text)
    BY <1>2, <1>4, <1>5, LineRead
  <1>7. size = Sized(src, line + 1)
    BY <1>2, <1>4, <1>6, BytesCounted, SizedFacts
  <1>8. Len(parsed'.args) <= MAX_ARGS_NUMBER
    <2>1. parsed'.args = <<>>
      BY <1>1 DEF NoLine
    <2>2. Len(<<>>) = 0
      BY EmptySeq
    <2>. QED
      BY <2>1, <2>2 DEF MAX_ARGS_NUMBER
  <1>9. /\ Filed(Instructions(src, line), parsed_lines) /\ parsed_lines \in Seq(KeptLine)
        /\ Len(parsed.args) <= MAX_ARGS_NUMBER
        /\ parsed \in ParsedLine
    BY DEF ReadInv, TableInv, Shapes
  <1>10. Filed(Instructions(src, line + 1), parsed_lines') /\ parsed_lines' \in Seq(KeptLine)
    <2>1. CASE IsInstruction(text)
      <3>1. Instructions(src, line + 1) = Append(Instructions(src, line), text)
            /\ Instructions(src, line) \in Seq(Seq(Lexemes))
        BY <1>2, <2>1, InstructionsFacts
      <3>2. \E i \in DOMAIN Mnemonics : Mnemonics[i] = parsed.opcode
        BY <1>2, <1>4, <2>1 DEF IsLine
      <3>3. parsed \in KeptLine
        BY <1>4, <1>9, <2>1, <3>2 DEF KeptLine
      <3>4. Says(parsed, text) /\ text \in Seq(Lexemes)
        BY <1>2, <1>4, <1>6, <2>1 DEF Says, IsLine
      <3>5. parsed_lines' = Append(parsed_lines, parsed)
        BY <1>1, <1>4, <2>1
      <3>6. Filed(Append(Instructions(src, line), text), Append(parsed_lines, parsed))
        BY <1>9, <3>1, <3>3, <3>4, FiledOneMore
      <3>. QED
        BY <1>9, <3>1, <3>3, <3>5, <3>6, AppendProperties
    <2>2. CASE ~IsInstruction(text)
      <3>1. Instructions(src, line + 1) = Instructions(src, line)
        BY <1>2, <2>2, InstructionsFacts
      <3>. QED
        BY <1>1, <1>4, <1>9, <2>2, <3>1
    <2>. QED
      BY <2>1, <2>2
  <1>11. Stage("line", src, line + 1, 1, NoLine, size)
    BY <1>7 DEF Stage
  <1>12. line' \in 1..(Len(src) + 1)
    BY <1>1, <1>2
  <1>. QED
    BY <1>1, <1>3, <1>8, <1>10, <1>11, <1>12 DEF ReadInv

LEMMA RestReadInv ==
    ASSUME ReadInv, EndOfFile \/ EncodeInstruction \/ Finish \/ UNCHANGED avars
    PROVE  ReadInv'
  <1>1. TableInv'
    BY RestInv DEF ReadInv
  <1>2. UNCHANGED <<src, line, pos, parsed, size, parsed_lines>>
    BY DEF EndOfFile, EncodeInstruction, Finish, avars, passOne
  <1>3. /\ src \in Sources /\ line \in 1..(Len(src) + 1) /\ Len(src) \in Nat
        /\ Stage(pc, src, line, pos, parsed, size)
    BY SourceType DEF ReadInv, TableInv, Shapes
  <1>4. /\ pc' \in {"line", "label", "arguments", "assemble", "done"}
        /\ Stage(pc', src, line, pos, parsed, size)
    <2>1. CASE EndOfFile
      <3>1. pc = "line" /\ pc' = "assemble" /\ line = Len(src) + 1
        BY <1>3, <2>1 DEF EndOfFile, More
      <3>. QED
        BY <1>3, <3>1 DEF Stage
    <2>2. CASE EncodeInstruction \/ UNCHANGED avars
      <3>1. pc' = pc
        BY <2>2 DEF EncodeInstruction, avars
      <3>. QED
        BY <1>3, <3>1 DEF ReadInv
    <2>3. CASE Finish
      <3>1. pc = "assemble" /\ pc' = "done"
        BY <2>3 DEF Finish
      <3>. QED
        BY <1>3, <3>1 DEF Stage
    <2>. QED
      BY <2>1, <2>2, <2>3
  <1>. QED
    BY <1>1, <1>2, <1>4 DEF ReadInv

LEMMA ReadInvariance == Spec => []ReadInv
  <1>1. ReadInv /\ [Next]_avars => ReadInv'
    BY SkipLineRead, LabelRead, OpcodeReadInv, ArgumentReadInv, EndLineReadInv, RestReadInv
       DEF Next
  <1>. QED
    BY InitRead, <1>1, PTL DEF Spec

(***************************************************************************)
(* Whatever the source, after each line the instructions kept and the bytes *)
(* counted are those the lines so far say.                                  *)
(***************************************************************************)
THEOREM LinesAreReadAsWritten == Spec => []ReadAsWritten
  <1>1. ReadInv => ReadAsWritten
    <2> SUFFICES ASSUME ReadInv, pc = "line" PROVE ReadAsWritten
      BY DEF ReadAsWritten
    <2> DEFINE instructions == Select(src, {l \in DOMAIN src : IsInstruction(src[l])}, line - 1)
    <2>1. Instructions(src, line) = instructions
      BY DEF Instructions, Places1
    <2>2. size = Total([l \in DOMAIN src |-> BytesOf(src[l])], line - 1)
      BY DEF ReadInv, Stage, Sized
    <2>3. DOMAIN parsed_lines = 1..Len(parsed_lines)
      BY LenProperties DEF ReadInv
    <2>. HIDE DEF instructions
    <2>4. /\ Len(parsed_lines) = Len(instructions)
          /\ \A k \in DOMAIN parsed_lines :
                /\ parsed_lines[k].opcode = instructions[k][OpcodeAt(instructions[k])].name
                /\ parsed_lines[k].args = Arguments(instructions[k])
      BY <2>1, <2>3 DEF ReadInv, Filed, Says
    <2>. QED
      BY <2>2, <2>4 DEF ReadAsWritten, instructions
  <1>. QED
    BY ReadInvariance, <1>1, PTL
=============================================================================
