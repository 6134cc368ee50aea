--------------------------- MODULE EncoderProofs ---------------------------
(***************************************************************************)
(* Theorems about the assembler's second pass, for any source: what is      *)
(* written for each instruction, where the labels lie, and the distances    *)
(* written for the references to them.                                      *)
(***************************************************************************)
EXTENDS AssemblerProofs, FiniteSetTheorems

-----------------------------------------------------------------------------
(* Numbers and their bytes *)

ByteNumbers == 0..255

LEMMA BigEndianType ==
    ASSUME NEW v \in Int, NEW width \in {1, 2, 4}
    PROVE  BigEndian(v, width) \in Seq(ByteNumbers) /\ Len(BigEndian(v, width)) = width
  <1> DEFINE b == [i \in 1..width |-> (v \div ByteWeights[4 - width + i]) % 256]
  <1>1. \A w \in Nat \ {0} : (v \div w) % 256 \in ByteNumbers
    <2> TAKE w \in Nat \ {0}
    <2>1. v \div w \in Int
      OBVIOUS
    <2>. QED
      BY <2>1 DEF ByteNumbers
  <1>2. \A j \in 1..4 : ByteWeights[j] \in Nat \ {0}
    BY DEF ByteWeights
  <1>3. \A i \in 1..width : 4 - width + i \in 1..4
    OBVIOUS
  <1>4. b \in [1..width -> ByteNumbers]
    BY <1>1, <1>2, <1>3
  <1>5. width \in Nat /\ BigEndian(v, width) = b
    BY DEF BigEndian
  <1>. HIDE DEF b
  <1>6. b \in Seq(ByteNumbers)
    BY <1>4, <1>5, SeqDef
  <1>7. Len(b) = width
    BY <1>4, <1>5, <1>6, LenProperties
  <1>. QED
    BY <1>5, <1>6, <1>7

LEMMA AtoiType ==
    ASSUME NEW arg \in Lexemes
    PROVE  AtoiBehindFirst(arg) \in Int
  <1>1. arg.n \in Int
    BY DEF Lexemes
  <1>2. WithoutFirst(arg.n) \in Int
    <2>1. CASE arg.n <= 0
      BY <1>1, <2>1 DEF WithoutFirst
    <2>2. CASE ~(arg.n <= 0)
      <3> DEFINE S == {p \in Tens : p <= arg.n}
      <3>1. 1 \in S /\ S \subseteq Nat \ {0} /\ arg.n \in Nat
        BY <1>1, <2>2 DEF Tens
      <3>2. \E m \in S : \A x \in S : x <= m
        BY <1>1, <3>1 DEF Tens
      <3>3. WithoutFirst(arg.n) = arg.n % Max(S)
        BY <2>2 DEF WithoutFirst
      <3>. HIDE DEF S
      <3>4. Max(S) \in S
        BY <3>1, <3>2, MaxFacts
      <3>5. Max(S) \in Nat \ {0}
        BY <3>1, <3>4
      <3>6. arg.n % Max(S) \in Int
        BY <1>1, <3>5
      <3>. QED
        BY <3>3, <3>6
    <2>. QED
      BY <2>1, <2>2
  <1>. QED
    BY <1>1, <1>2 DEF AtoiBehindFirst, ColonSecond

LEMMA OpcodeType ==
    ASSUME NEW mnemonic, \E i \in DOMAIN Mnemonics : Mnemonics[i] = mnemonic
    PROVE  Opcode(mnemonic) \in 1..16
  <1>1. DOMAIN Mnemonics = 1..16
    BY DEF Mnemonics
  <1>2. Opcode(mnemonic) \in DOMAIN Mnemonics
    BY DEF Opcode
  <1>. QED
    BY <1>1, <1>2

LEMMA ThreeTotal ==
    ASSUME NEW v
    PROVE  \E a, b, c : /\ a = v[1] /\ b = v[2] /\ c = v[3]
                        /\ Total(v, 0) = 0 /\ Total(v, 1) = 0 + a
                        /\ Total(v, 2) = Total(v, 1) + b /\ Total(v, 3) = Total(v, 2) + c
  <1>1. \A i \in {1, 2, 3} : i \in Nat \ {0}
    OBVIOUS
  <1>2. 1 - 1 = 0 /\ 2 - 1 = 1 /\ 3 - 1 = 2
    OBVIOUS
  <1>3. \A i \in {1, 2, 3} : Total(v, i) = Total(v, i - 1) + v[i]
    BY <1>1, TotalOneMore
  <1>4. /\ Total(v, 1) = Total(v, 1 - 1) + v[1]
        /\ Total(v, 2) = Total(v, 2 - 1) + v[2]
        /\ Total(v, 3) = Total(v, 3 - 1) + v[3]
    BY <1>3, Zenon
  <1>5. Total(v, 0) = 0
    BY TotalNone
  <1>6. /\ Total(v, 1) = 0 + v[1]
        /\ Total(v, 2) = Total(v, 1) + v[2]
        /\ Total(v, 3) = Total(v, 2) + v[3]
    BY <1>2, <1>4, <1>5, Zenon
  <1>. QED
    BY <1>5, <1>6, Zenon

LEMMA DescriptionType ==
    ASSUME NEW args \in Seq(Lexemes), Len(args) <= 3
    PROVE  Description(args) \in ByteNumbers
  <1> DEFINE v == [i \in DOMAIN args |-> Code(args[i]) * <<64, 16, 4, 1>>[i]]
             n == Len(args)
  <1>1. n \in Nat /\ DOMAIN args = 1..n
    BY LenProperties
  <1>2. \A arg : Code(arg) \in {1, 2, 3}
    BY DEF Code
  <1>3. /\ n >= 1 => v[1] = Code(args[1]) * 64
        /\ n >= 2 => v[2] = Code(args[2]) * 16
        /\ n >= 3 => v[3] = Code(args[3]) * 4
    BY <1>1
  <1>4. Description(args) = Total(v, n)
    BY DEF Description
  <1>5. n \in {0, 1, 2, 3}
    BY <1>1
  <1>6. PICK a, b, c : /\ a = v[1] /\ b = v[2] /\ c = v[3]
                       /\ Total(v, 0) = 0 /\ Total(v, 1) = 0 + a
                       /\ Total(v, 2) = Total(v, 1) + b /\ Total(v, 3) = Total(v, 2) + c
    BY ThreeTotal
  <1>. HIDE DEF v, n
  <1>7. PICK x \in {1, 2, 3}, y \in {1, 2, 3}, z \in {1, 2, 3} :
           x = Code(args[1]) /\ y = Code(args[2]) /\ z = Code(args[3])
    BY <1>2
  <1>9. /\ n >= 1 => a = x * 64
        /\ n >= 2 => b = y * 16
        /\ n >= 3 => c = z * 4
    BY <1>3, <1>6, <1>7, Zenon
  <1>10. /\ Total(v, 0) = 0 /\ Total(v, 1) = 0 + a
         /\ Total(v, 2) = Total(v, 1) + b /\ Total(v, 3) = Total(v, 2) + c
    BY <1>6
  <1>11. /\ x * 64 \in 0..252
         /\ x * 64 + y * 16 \in 0..252
         /\ x * 64 + y * 16 + z * 4 \in 0..252
    OBVIOUS
  <1>8. Total(v, n) \in 0..252
    <2>1. CASE n = 0
      BY <1>10, <2>1
    <2>2. CASE n = 1
      <3>1. Total(v, 1) = x * 64
        BY <1>9, <1>10, <2>2
      <3>. QED
        BY <1>11, <2>2, <3>1, Zenon
    <2>3. CASE n = 2
      <3>1. Total(v, 2) = x * 64 + y * 16
        BY <1>9, <1>10, <2>3
      <3>. QED
        BY <1>11, <2>3, <3>1, Zenon
    <2>4. CASE n = 3
      <3>1. Total(v, 2) = x * 64 + y * 16
        BY <1>9, <1>10, <2>4
      <3>2. Total(v, 3) = x * 64 + y * 16 + z * 4
        BY <1>9, <1>10, <2>4, <3>1
      <3>. QED
        BY <1>11, <2>4, <3>2, Zenon
    <2>. QED
      BY <1>5, <2>1, <2>2, <2>3, <2>4
  <1>. QED
    BY <1>4, <1>8 DEF ByteNumbers

-----------------------------------------------------------------------------
(* One argument *)

(* lookup_symbol, in a given table *)
Found(table, name) ==
    LET matches == {i \in DOMAIN table : <<table[i].label, name>> \in Begins}
    IN  IF matches = {} THEN -1 ELSE table[Min(matches)].address

LEMMA LookupFound ==
    ASSUME NEW name
    PROVE  lookup_symbol(name) = Found(symbol_table, name)
  BY DEF lookup_symbol, Found, Matches

LEMMA FoundType ==
    ASSUME NEW table \in Seq(Entry), NEW name
    PROVE  Found(table, name) \in Int
  <1> DEFINE matches == {i \in DOMAIN table : <<table[i].label, name>> \in Begins}
  <1>1. DOMAIN table = 1..Len(table) /\ Len(table) \in Nat
    BY LenProperties
  <1>2. CASE matches = {}
    BY <1>2 DEF Found
  <1>3. CASE matches # {}
    <2>1. matches \subseteq Nat
      BY <1>1
    <2>2. Min(matches) \in matches
      BY <1>3, <2>1, MinFacts
    <2>3. table[Min(matches)] \in Entry
      BY <1>1, <2>2, ElementOfSeq
    <2>. QED
      BY <1>3, <2>3 DEF Found, Entry
  <1>. QED
    BY <1>2, <1>3

(* The number written for an argument, and in how many bytes. *)
Spelt(table, arg, at) ==
    IF IsReference(arg) THEN Found(table, arg.name) - at ELSE AtoiBehindFirst(arg)
Room(instr, arg) ==
    IF \/ IsReference(arg)
       \/ Several(instr) /\ arg.kind = "value" /\ arg.n # 0
       \/ ~Several(instr) /\ IsLetter(arg)
    THEN 2
    ELSE IF Several(instr) /\ arg.kind = "register" THEN 1 ELSE 4
Piece(instr, arg, at) == IF Several(instr) THEN encode_argument(arg, at) ELSE encode_single(arg, at)

LEMMA PieceFacts ==
    ASSUME NEW instr, NEW arg \in Lexemes, NEW at
    PROVE  Piece(instr, arg, at) = [bytes   |-> BigEndian(Spelt(symbol_table, arg, at), Room(instr, arg)),
                                    address |-> at + Room(instr, arg)]
  <1>1. arg.kind \in DOMAIN TokenType
    BY DEF Lexemes
  <1>2. IsReference(arg) => encode_label(arg, at) =
           [bytes |-> BigEndian(Spelt(symbol_table, arg, at), 2), address |-> at + 2]
    BY LookupFound DEF encode_label, Spelt
  <1>3. ~IsReference(arg) => Spelt(symbol_table, arg, at) = AtoiBehindFirst(arg)
    BY DEF Spelt
  <1>. USE DEF Piece, Room, encode_argument, encode_single, encode_direct, IsLetter, ColonSecond
  <1>4. CASE IsReference(arg)
    <2>1. arg.kind = "reference"
      BY <1>4 DEF IsReference
    <2>. QED
      BY <1>2, <1>4, <2>1
  <1>5. CASE arg.kind = "reference" /\ ~IsReference(arg)
    <2>1. AtoiBehindFirst(arg) = 0
      BY <1>5 DEF AtoiBehindFirst
    <2>. QED
      BY <1>3, <1>5, <2>1 DEF encode_value, encode_indirect
  <1>6. CASE arg.kind = "value" /\ ~IsReference(arg)
    <2>1. AtoiBehindFirst(arg) = arg.n
      BY <1>6 DEF AtoiBehindFirst
    <2>. QED
      BY <1>3, <1>6, <2>1 DEF encode_value, encode_indirect
  <1>7. CASE arg.kind = "register" /\ ~IsReference(arg)
    <2>1. AtoiBehindFirst(arg) = arg.n
      BY <1>7 DEF AtoiBehindFirst
    <2>. QED
      BY <1>3, <1>7, <2>1 DEF encode_register, encode_indirect
  <1>8. CASE arg.kind \notin {"reference", "value", "register"} /\ ~IsReference(arg)
    <2>1. IsLetter(arg) => AtoiBehindFirst(arg) = 0
      BY DEF AtoiBehindFirst
    <2>. QED
      BY <1>3, <1>8, <2>1 DEF encode_indirect, encode_letter
  <1>9. arg.kind \notin {"reference", "value", "register"} => ~IsReference(arg)
    BY DEF IsReference
  <1>. QED
    BY <1>4, <1>5, <1>6, <1>7, <1>8, <1>9

LEMMA SpeltType ==
    ASSUME NEW table \in Seq(Entry), NEW arg \in Lexemes, NEW at \in Int
    PROVE  Spelt(table, arg, at) \in Int
  BY FoundType, AtoiType DEF Spelt

-----------------------------------------------------------------------------
(* One instruction *)

(* The bytes before its arguments, and those up to the i-th. *)
HeadLen(instr) == IF Several(instr) THEN 2 ELSE 1
Widths(instr) == [j \in DOMAIN instr.args |-> Room(instr, instr.args[j])]
UpToArg(instr, i) == HeadLen(instr) + Total(Widths(instr), i)

(* The counter before the opcode, an opcode at 0 not being counted. *)
Base(at) == IF at = 0 THEN -1 ELSE at

(* The bytes of the j-th argument are in their place. *)
InPlace(bytes, table, instr, at, j) ==
    LET before == UpToArg(instr, j - 1)
        width == Room(instr, instr.args[j])
    IN  \A b \in 1..width :
           bytes[before + b] = BigEndian(Spelt(table, instr.args[j], Base(at) + before), width)[b]

(* The code of an instruction up to its i-th argument, and the counter then. *)
Written(bytes, table, instr, at, i) ==
    /\ bytes \in Seq(ByteNumbers)
    /\ Len(bytes) = UpToArg(instr, i)
    /\ bytes[1] = Opcode(instr.opcode)
    /\ Several(instr) => bytes[2] = Description(instr.args)
    /\ \A j \in 1..i : InPlace(bytes, table, instr, at, j)
SoFar(e, table, instr, at, i) ==
    /\ Written(e.bytes, table, instr, at, i)
    /\ e.address = Base(at) + UpToArg(instr, i)

LEMMA RoomType ==
    ASSUME NEW instr, NEW arg
    PROVE  Room(instr, arg) \in {1, 2, 4}
  BY DEF Room

LEMMA UpToArgFacts ==
    ASSUME NEW instr \in KeptLine
    PROVE  /\ UpToArg(instr, 0) = HeadLen(instr)
           /\ \A i \in 1..Len(instr.args) :
                 UpToArg(instr, i) = UpToArg(instr, i - 1) + Room(instr, instr.args[i])
           /\ \A i \in 0..Len(instr.args) : UpToArg(instr, i) \in Nat /\ UpToArg(instr, i) >= HeadLen(instr)
  <1> DEFINE v == Widths(instr)
  <1>1. instr.args \in Seq(Lexemes)
    BY DEF KeptLine, ParsedLine
  <1>2. Len(instr.args) \in Nat /\ DOMAIN instr.args = 1..Len(instr.args)
    BY <1>1, LenProperties
  <1>3. \A i \in 1..Len(instr.args) : v[i] = Room(instr, instr.args[i]) /\ v[i] \in Nat
    BY <1>2, RoomType DEF Widths
  <1>4. HeadLen(instr) \in {1, 2}
    BY DEF HeadLen
  <1>. HIDE DEF v
  <1>5. UpToArg(instr, 0) = HeadLen(instr)
    BY <1>4, TotalNone DEF UpToArg
  <1>6. ASSUME NEW i \in 0..Len(instr.args)
        PROVE  Total(v, i) \in Nat
    <2>1. i \in Nat /\ Naturals1(v, i)
      BY <1>2, <1>3 DEF Naturals1
    <2>. QED
      BY <2>1, TotalType
  <1>7. ASSUME NEW i \in 1..Len(instr.args)
        PROVE  UpToArg(instr, i) = UpToArg(instr, i - 1) + Room(instr, instr.args[i])
    <2>1. i \in Nat \ {0} /\ i - 1 \in 0..Len(instr.args)
      BY <1>2
    <2>2. Total(v, i) = Total(v, i - 1) + v[i]
      BY <2>1, TotalOneMore
    <2>3. Total(v, i - 1) \in Nat /\ v[i] \in Nat /\ v[i] = Room(instr, instr.args[i])
      BY <1>3, <1>6, <2>1
    <2>. QED
      BY <1>4, <2>2, <2>3 DEF UpToArg, v
  <1>8. ASSUME NEW i \in 0..Len(instr.args)
        PROVE  UpToArg(instr, i) \in Nat /\ UpToArg(instr, i) >= HeadLen(instr)
    BY <1>4, <1>6 DEF UpToArg, v
  <1>. QED
    BY <1>5, <1>7, <1>8

LEMMA TwoJoined ==
    ASSUME NEW S, NEW a \in S, NEW b \in S
    PROVE  <<a>> \o <<b>> = <<a, b>>
  <1> DEFINE s == <<a>>
             t == <<b>>
             st == s \o t
  <1>1. s \in Seq(S) /\ t \in Seq(S) /\ Len(s) = 1 /\ Len(t) = 1 /\ s[1] = a /\ t[1] = b
    OBVIOUS
  <1>2. <<a, b>> \in Seq(S) /\ Len(<<a, b>>) = 2 /\ <<a, b>>[1] = a /\ <<a, b>>[2] = b
    OBVIOUS
  <1>. HIDE DEF s, t
  <1>3. /\ st \in Seq(S)
        /\ Len(st) = Len(s) + Len(t)
        /\ \A i \in 1..(Len(s) + Len(t)) : st[i] = IF i <= Len(s) THEN s[i] ELSE t[i - Len(s)]
    BY <1>1, ConcatProperties, Zenon
  <1>. HIDE DEF st
  <1>4. Len(st) = 2 /\ st[1] = a /\ st[2] = b
    BY <1>1, <1>3
  <1>5. \A i \in 1..Len(st) : st[i] = <<a, b>>[i]
    BY <1>2, <1>4
  <1>6. st = <<a, b>>
    BY <1>2, <1>3, <1>4, <1>5, SeqEqual
  <1>. QED
    BY <1>6 DEF s, t, st

LEMMA UpToArgGrows ==
    ASSUME NEW instr \in KeptLine, NEW i \in 0..Len(instr.args), NEW j \in 0..i
    PROVE  UpToArg(instr, j) <= UpToArg(instr, i)
  <1> DEFINE n == Len(instr.args)
             S == {m \in Nat : j + m <= n => UpToArg(instr, j) <= UpToArg(instr, j + m)}
  <1>1. n \in Nat
    BY LenProperties DEF KeptLine, ParsedLine
  <1>2. \A k \in 0..n : UpToArg(instr, k) \in Nat
    BY UpToArgFacts
  <1>. HIDE DEF n
  <1>3. j \in 0..n /\ i - j \in Nat /\ j + (i - j) = i /\ i <= n
    BY <1>1 DEF n
  <1>4. 0 \in S
    <2>1. j + 0 = j
      BY <1>3
    <2>. QED
      BY <1>2, <1>3, <2>1
  <1>5. ASSUME NEW m \in Nat, m \in S PROVE m + 1 \in S
    <2>1. SUFFICES ASSUME j + (m + 1) <= n
                   PROVE  UpToArg(instr, j) <= UpToArg(instr, j + (m + 1))
      OBVIOUS
    <2> DEFINE k == j + (m + 1)
    <2>2. /\ k \in 1..n /\ k - 1 = j + m /\ k - 1 \in 0..n /\ k \in 0..n /\ j + m <= n
      BY <1>1, <1>3, <2>1
    <2>. HIDE DEF k
    <2>3. UpToArg(instr, j) <= UpToArg(instr, k - 1)
      BY <1>5, <2>2
    <2>4. UpToArg(instr, k) = UpToArg(instr, k - 1) + Room(instr, instr.args[k])
      BY <2>2, UpToArgFacts DEF n
    <2>5. Room(instr, instr.args[k]) \in {1, 2, 4}
      BY RoomType
    <2>6. UpToArg(instr, j) <= UpToArg(instr, k)
      BY <1>2, <1>3, <2>2, <2>3, <2>4, <2>5
    <2>. QED
      BY <2>6 DEF k
  <1>. HIDE DEF S
  <1>6. i - j \in S
    BY <1>3, <1>4, <1>5, Counting
  <1>. QED
    BY <1>3, <1>6 DEF S

LEMMA OpcodeSoFar ==
    ASSUME NEW instr \in KeptLine, NEW at \in Nat, NEW table
    PROVE  SoFar(encode_opcode(instr, at), table, instr, at, 0)
  <1> DEFINE e == encode_opcode(instr, at)
             op == Opcode(instr.opcode)
             d == Description(instr.args)
  <1>1. op \in ByteNumbers /\ d \in ByteNumbers
    <2>1. op \in 1..16
      BY OpcodeType DEF KeptLine
    <2>2. d \in ByteNumbers
      BY DescriptionType DEF KeptLine, ParsedLine, MAX_ARGS_NUMBER
    <2>. QED
      BY <2>1, <2>2 DEF ByteNumbers
  <1>2. UpToArg(instr, 0) = HeadLen(instr)
    BY UpToArgFacts
  <1>3. /\ e.bytes = <<op>> \o (IF Several(instr) THEN <<d>> ELSE <<>>)
        /\ e.address = at + (IF at # 0 THEN 1 ELSE 0) + (IF Several(instr) THEN 1 ELSE 0)
    BY DEF encode_opcode
  <1>. HIDE DEF e, op, d
  <1>4. e.address = Base(at) + HeadLen(instr)
    BY <1>3 DEF Base, HeadLen
  <1>5. e.bytes = IF Several(instr) THEN <<op, d>> ELSE <<op>>
    <2>1. <<op>> \o <<d>> = <<op, d>>
      BY <1>1, TwoJoined
    <2>2. <<op>> \o <<>> = <<op>>
      OBVIOUS
    <2>. QED
      BY <1>3, <2>1, <2>2, Zenon
  <1>6. /\ e.bytes \in Seq(ByteNumbers) /\ Len(e.bytes) = HeadLen(instr)
        /\ e.bytes[1] = op /\ (Several(instr) => e.bytes[2] = d)
    <2>1. CASE Several(instr)
      BY <1>1, <1>5, <2>1 DEF HeadLen
    <2>2. CASE ~Several(instr)
      BY <1>1, <1>5, <2>2 DEF HeadLen
    <2>. QED
      BY <2>1, <2>2
  <1>7. \A j \in 1..0 : FALSE
    OBVIOUS
  <1>. QED
    BY <1>2, <1>4, <1>6, <1>7 DEF SoFar, Written, e, op, d

LEMMA BehindSoFar ==
    ASSUME NEW instr \in KeptLine, NEW at \in Nat, symbol_table \in Seq(Entry),
           NEW i \in 1..Len(instr.args), NEW e, SoFar(e, symbol_table, instr, at, i - 1)
    PROVE  SoFar(Behind(instr, instr.args[i], e), symbol_table, instr, at, i)
  <1> DEFINE arg == instr.args[i]
             width == Room(instr, arg)
             before == UpToArg(instr, i - 1)
             c == BigEndian(Spelt(symbol_table, arg, e.address), width)
             more == Behind(instr, arg, e)
  <1>1. instr.args \in Seq(Lexemes) /\ arg \in Lexemes /\ Len(instr.args) \in Nat
    <2>1. instr.args \in Seq(Lexemes)
      BY DEF KeptLine, ParsedLine
    <2>. QED
      BY <2>1, ElementOfSeq, LenProperties
  <1>2. /\ before \in Nat /\ width \in {1, 2, 4}
        /\ UpToArg(instr, i) = before + width
        /\ before >= HeadLen(instr)
    <2>1. i - 1 \in 0..Len(instr.args)
      BY <1>1
    <2>. QED
      BY <2>1, UpToArgFacts, RoomType
  <1>3. /\ e.bytes \in Seq(ByteNumbers) /\ Len(e.bytes) = before
        /\ e.address = Base(at) + before
        /\ e.bytes[1] = Opcode(instr.opcode)
        /\ Several(instr) => e.bytes[2] = Description(instr.args)
        /\ \A j \in 1..(i - 1) : InPlace(e.bytes, symbol_table, instr, at, j)
    BY DEF SoFar, Written
  <1>4. Base(at) \in Int /\ e.address \in Int
    BY <1>2, <1>3 DEF Base
  <1>5. c \in Seq(ByteNumbers) /\ Len(c) = width
    BY <1>1, <1>2, <1>4, SpeltType, BigEndianType
  <1>6. more.bytes = e.bytes \o c /\ more.address = e.address + width
    <2>1. Piece(instr, arg, e.address) = [bytes |-> c, address |-> e.address + width]
      BY <1>1, PieceFacts
    <2>2. more = [bytes   |-> e.bytes \o Piece(instr, arg, e.address).bytes,
                  address |-> Piece(instr, arg, e.address).address]
      BY DEF Behind, Piece
    <2>. HIDE DEF more, c, arg, width
    <2>. QED
      BY <2>1, <2>2
  <1>7. /\ more.bytes \in Seq(ByteNumbers)
        /\ Len(more.bytes) = before + width
        /\ \A k \in 1..(before + width) :
              more.bytes[k] = IF k <= before THEN e.bytes[k] ELSE c[k - before]
    <2>. HIDE DEF more, c, before, width
    <2>1. PICK s \in Seq(ByteNumbers), m \in Seq(ByteNumbers) :
             /\ s = e.bytes /\ m = more.bytes /\ Len(s) = before
             /\ m = s \o c
      <3>1. e.bytes \o c \in Seq(ByteNumbers)
        BY <1>3, <1>5, ConcatProperties
      <3>. QED
        BY <1>3, <1>6, <3>1, Zenon
    <2>2. /\ s \o c \in Seq(ByteNumbers)
          /\ Len(s \o c) = Len(s) + Len(c)
          /\ \A k \in 1..(Len(s) + Len(c)) :
                (s \o c)[k] = IF k <= Len(s) THEN s[k] ELSE c[k - Len(s)]
      BY <1>5, ConcatProperties, Zenon
    <2>3. Len(c) = width
      BY <1>5
    <2>4. /\ m \in Seq(ByteNumbers)
          /\ Len(m) = before + width
          /\ \A k \in 1..(before + width) : m[k] = IF k <= before THEN s[k] ELSE c[k - before]
      BY <2>1, <2>2, <2>3
    <2>. QED
      BY <2>1, <2>4
  <1>8. c = BigEndian(Spelt(symbol_table, arg, Base(at) + before), width)
    BY <1>3
  <1>. HIDE DEF c, more, before, width
  <1>9. /\ more.bytes[1] = Opcode(instr.opcode)
        /\ Several(instr) => more.bytes[2] = Description(instr.args)
    <2>1. 1 <= before /\ 1 \in 1..(before + width)
          /\ (Several(instr) => 2 <= before /\ 2 \in 1..(before + width))
      BY <1>2 DEF HeadLen
    <2>. QED
      BY <1>3, <1>7, <2>1
  <1>10. ASSUME NEW j \in 1..i
         PROVE  InPlace(more.bytes, symbol_table, instr, at, j)
    <2>1. CASE j = i
      <3>1. ASSUME NEW b \in 1..width
            PROVE  more.bytes[before + b] = c[b]
        <4>1. before + b \in 1..(before + width) /\ ~(before + b <= before)
              /\ (before + b) - before = b
          BY <1>2
        <4>. QED
          BY <1>7, <4>1
      <3>2. \A b \in 1..width :
               more.bytes[before + b] = BigEndian(Spelt(symbol_table, arg, Base(at) + before), width)[b]
        BY <1>8, <3>1
      <3>. QED
        BY <2>1, <3>2 DEF InPlace, before, width
    <2>2. CASE j # i
      <3> DEFINE w == Room(instr, instr.args[j])
                 start == UpToArg(instr, j - 1)
      <3>1. j \in 1..(i - 1) /\ j \in 1..Len(instr.args) /\ i \in Nat
        BY <1>1, <2>2
      <3>2. InPlace(e.bytes, symbol_table, instr, at, j)
        BY <1>3, <3>1
      <3>3. start \in Nat /\ w \in {1, 2, 4} /\ start + w <= before
        <4>1. UpToArg(instr, j) = start + w /\ start \in Nat /\ w \in {1, 2, 4}
          <5>1. j - 1 \in 0..Len(instr.args)
            BY <1>1, <3>1
          <5>. QED
            BY <3>1, <5>1, UpToArgFacts, RoomType
        <4>2. UpToArg(instr, j) <= before
          <5>1. j <= i - 1 /\ i - 1 \in 0..Len(instr.args) /\ j \in 0..Len(instr.args)
            BY <1>1, <3>1
          <5>. QED
            BY <5>1, UpToArgGrows DEF before
        <4>. QED
          BY <1>2, <4>1, <4>2
      <3>. HIDE DEF w, start
      <3>4. ASSUME NEW b \in 1..w
            PROVE  more.bytes[start + b] = e.bytes[start + b]
        <4>1. start + b \in 1..(before + width) /\ start + b <= before
          BY <1>2, <3>3
        <4>. QED
          BY <1>7, <4>1
      <3>. QED
        BY <3>2, <3>4 DEF InPlace, w, start
    <2>. QED
      BY <2>1, <2>2
  <1>11. more.address = Base(at) + (before + width)
    BY <1>2, <1>3, <1>4, <1>6
  <1>. QED
    BY <1>2, <1>7, <1>9, <1>10, <1>11 DEF SoFar, Written, more, before, width

Encoded == [bytes : Seq(ByteNumbers), address : Nat]

LEMMA EncodedType ==
    ASSUME NEW b \in Seq(ByteNumbers), NEW a \in Nat
    PROVE  [bytes |-> b, address |-> a] \in Encoded
  BY DEF Encoded

LEMMA BehindType ==
    ASSUME NEW instr \in KeptLine, NEW i \in 1..Len(instr.args), symbol_table \in Seq(Entry),
           NEW e \in Encoded
    PROVE  Behind(instr, instr.args[i], e) \in Encoded
  <1> DEFINE arg == instr.args[i]
             width == Room(instr, arg)
             c == BigEndian(Spelt(symbol_table, arg, e.address), width)
  <1>1. arg \in Lexemes
    <2>1. instr.args \in Seq(Lexemes)
      BY DEF KeptLine, ParsedLine
    <2>. QED
      BY <2>1, ElementOfSeq
  <1>2. e.bytes \in Seq(ByteNumbers) /\ e.address \in Nat /\ width \in {1, 2, 4}
    BY RoomType DEF Encoded
  <1>3. Spelt(symbol_table, arg, e.address) \in Int
    <2>1. e.address \in Int
      BY <1>2
    <2>. QED
      BY <1>1, <2>1, SpeltType, Zenon
  <1>4. c \in Seq(ByteNumbers)
    BY <1>2, <1>3, BigEndianType
  <1>5. e.bytes \o c \in Seq(ByteNumbers)
    BY <1>2, <1>4, ConcatProperties
  <1>6. Piece(instr, arg, e.address) = [bytes |-> c, address |-> e.address + width]
    BY <1>1, PieceFacts
  <1>7. Behind(instr, arg, e) = [bytes   |-> e.bytes \o Piece(instr, arg, e.address).bytes,
                                 address |-> Piece(instr, arg, e.address).address]
    BY DEF Behind, Piece
  <1>. HIDE DEF arg, width, c
  <1>8. Behind(instr, arg, e) = [bytes |-> e.bytes \o c, address |-> e.address + width]
    BY <1>6, <1>7
  <1>9. e.address + width \in Nat
    BY <1>2
  <1>10. Behind(instr, arg, e) \in Encoded
    BY <1>5, <1>8, <1>9, EncodedType, Zenon
  <1>. QED
    BY <1>10 DEF arg

(* The argument by argument recursion of encode_instruction *)
Runs(f, instr, at) ==
    f = [i \in 0..Len(instr.args) |->
            IF i = 0 THEN encode_opcode(instr, at) ELSE Behind(instr, instr.args[i], f[i - 1])]

LEMMA RunExists ==
    ASSUME NEW instr \in KeptLine, NEW at \in Nat, symbol_table \in Seq(Entry)
    PROVE  \E f : Runs(f, instr, at)
  <1> DEFINE n == Len(instr.args)
             base == encode_opcode(instr, at)
             h == [mx \in (1..n) \X Encoded |-> Behind(instr, instr.args[mx[1]], mx[2])]
  <1>1. n \in Nat
    BY LenProperties DEF KeptLine, ParsedLine
  <1>2. base \in Encoded
    <2>1. SoFar(base, symbol_table, instr, at, 0)
      BY OpcodeSoFar
    <2>2. base.bytes \in Seq(ByteNumbers)
      BY <2>1 DEF SoFar, Written
    <2>3. base = [bytes |-> base.bytes,
                  address |-> at + (IF at # 0 THEN 1 ELSE 0) + (IF Several(instr) THEN 1 ELSE 0)]
      BY DEF encode_opcode
    <2>4. at + (IF at # 0 THEN 1 ELSE 0) + (IF Several(instr) THEN 1 ELSE 0) \in Nat
      OBVIOUS
    <2>. HIDE DEF base
    <2>. QED
      BY <2>2, <2>3, <2>4, EncodedType, Zenon
  <1>3. ASSUME NEW m \in 1..n, NEW x \in Encoded
        PROVE  h[<<m, x>>] = Behind(instr, instr.args[m], x) /\ h[<<m, x>>] \in Encoded
    <2>1. h[<<m, x>>] = Behind(instr, instr.args[m], x)
      OBVIOUS
    <2>2. Behind(instr, instr.args[m], x) \in Encoded
      BY BehindType
    <2>. QED
      BY <2>1, <2>2
  <1>. HIDE DEF h, base, n
  <1>4. Into(h, Encoded, n)
    BY <1>3 DEF Into
  <1>5. PICK f \in [0..n -> Encoded] : Follows(f, base, h, n)
    BY <1>1, <1>2, <1>4, Recursion
  <1>6. ASSUME NEW i \in 0..n
        PROVE  f[i] = IF i = 0 THEN base ELSE Behind(instr, instr.args[i], f[i - 1])
    <2>1. CASE i = 0
      BY <1>5, <2>1 DEF Follows
    <2>2. CASE i # 0
      <3>1. i \in 1..n /\ i - 1 \in 0..n
        BY <1>1, <2>2
      <3>2. f[i] = h[<<i, f[i - 1]>>] /\ f[i - 1] \in Encoded
        BY <1>5, <3>1 DEF Follows
      <3>. QED
        BY <1>3, <2>2, <3>1, <3>2
    <2>. QED
      BY <2>1, <2>2
  <1>7. f = [i \in 0..n |-> IF i = 0 THEN base ELSE Behind(instr, instr.args[i], f[i - 1])]
    BY <1>5, <1>6, Zenon
  <1>. QED
    BY <1>7 DEF Runs, n, base

LEMMA InstructionEncoded ==
    ASSUME NEW instr \in KeptLine, NEW at \in Nat, symbol_table \in Seq(Entry)
    PROVE  SoFar(encode_instruction(instr, at), symbol_table, instr, at, Len(instr.args))
  <1> DEFINE n == Len(instr.args)
             f == CHOOSE g : Runs(g, instr, at)
             S == {m \in Nat : m <= n => SoFar(f[m], symbol_table, instr, at, m)}
  <1>1. n \in Nat
    BY LenProperties DEF KeptLine, ParsedLine
  <1>2. Runs(f, instr, at)
    BY RunExists
  <1>3. encode_instruction(instr, at) = f[n]
    BY DEF encode_instruction, Runs
  <1>. HIDE DEF f
  <1>4. \A i \in 0..n : f[i] = IF i = 0 THEN encode_opcode(instr, at)
                               ELSE Behind(instr, instr.args[i], f[i - 1])
    BY <1>2, Zenon DEF Runs
  <1>. HIDE DEF n
  <1>5. 0 \in S
    <2>1. 0 \in 0..n
      BY <1>1
    <2>2. f[0] = encode_opcode(instr, at)
      BY <1>4, <2>1
    <2>. QED
      BY <2>2, OpcodeSoFar
  <1>6. ASSUME NEW m \in Nat, m \in S PROVE m + 1 \in S
    <2>1. SUFFICES ASSUME m + 1 <= n PROVE SoFar(f[m + 1], symbol_table, instr, at, m + 1)
      OBVIOUS
    <2> DEFINE i == m + 1
    <2>2. i \in 0..n /\ i \in 1..n /\ i # 0 /\ i - 1 = m /\ m <= n
      BY <1>1, <2>1
    <2>. HIDE DEF i
    <2>3. SoFar(f[i - 1], symbol_table, instr, at, i - 1)
      BY <1>6, <2>2
    <2>4. f[i] = Behind(instr, instr.args[i], f[i - 1])
      BY <1>4, <2>2
    <2>5. SoFar(Behind(instr, instr.args[i], f[i - 1]), symbol_table, instr, at, i)
      BY <2>2, <2>3, BehindSoFar DEF n
    <2>. QED
      BY <2>4, <2>5 DEF i
  <1>. HIDE DEF S
  <1>7. n \in S
    BY <1>1, <1>5, <1>6, Counting
  <1>8. SoFar(f[n], symbol_table, instr, at, n)
    BY <1>1, <1>7 DEF S
  <1>. QED
    BY <1>3, <1>8 DEF n

-----------------------------------------------------------------------------
(* The code, instruction by instruction *)

(* CodeBefore, of any code *)
CodeLen(o, k) == Total([i \in DOMAIN o |-> Len(o[i])], k - 1)

LEMMA CodeLenFacts ==
    ASSUME NEW o \in Seq(Seq(ByteNumbers))
    PROVE  /\ CodeLen(o, 1) = 0
           /\ \A k \in 1..Len(o) : CodeLen(o, k + 1) = CodeLen(o, k) + Len(o[k])
           /\ \A k \in 1..(Len(o) + 1) : CodeLen(o, k) \in Nat
  <1> DEFINE v == [i \in DOMAIN o |-> Len(o[i])]
  <1>1. Len(o) \in Nat /\ DOMAIN o = 1..Len(o)
    BY LenProperties
  <1>2. \A k \in 1..Len(o) : v[k] = Len(o[k]) /\ v[k] \in Nat
    <2> TAKE k \in 1..Len(o)
    <2>1. o[k] \in Seq(ByteNumbers)
      BY ElementOfSeq
    <2>. QED
      BY <1>1, <2>1, LenProperties
  <1>3. \A k : CodeLen(o, k) = Total(v, k - 1)
    BY DEF CodeLen
  <1>. HIDE DEF v
  <1>4. CodeLen(o, 1) = 0
    <2>1. 1 - 1 = 0
      OBVIOUS
    <2>. QED
      BY <1>3, <2>1, TotalNone
  <1>5. ASSUME NEW k \in 1..Len(o) PROVE CodeLen(o, k + 1) = CodeLen(o, k) + Len(o[k])
    <2>1. k \in Nat \ {0} /\ (k + 1) - 1 = k
      BY <1>1
    <2>2. Total(v, k) = Total(v, k - 1) + v[k]
      BY <2>1, TotalOneMore
    <2>. QED
      BY <1>2, <1>3, <2>1, <2>2
  <1>6. ASSUME NEW k \in 1..(Len(o) + 1) PROVE CodeLen(o, k) \in Nat
    <2>1. k - 1 \in Nat /\ \A i \in 1..(k - 1) : i \in 1..Len(o)
      BY <1>1
    <2>2. Naturals1(v, k - 1)
      BY <1>2, <2>1 DEF Naturals1
    <2>. QED
      BY <1>3, <2>1, <2>2, TotalType
  <1>. QED
    BY <1>4, <1>5, <1>6

LEMMA CodeLenAppended ==
    ASSUME NEW o \in Seq(Seq(ByteNumbers)), NEW c \in Seq(ByteNumbers)
    PROVE  /\ \A k \in 1..(Len(o) + 1) : CodeLen(Append(o, c), k) = CodeLen(o, k)
           /\ CodeLen(Append(o, c), Len(o) + 2) = CodeLen(o, Len(o) + 1) + Len(c)
  <1> DEFINE all == Append(o, c)
             n == Len(o)
             v == [i \in DOMAIN o |-> Len(o[i])]
             w == [i \in DOMAIN all |-> Len(all[i])]
  <1>1. /\ n \in Nat /\ all \in Seq(Seq(ByteNumbers)) /\ Len(all) = n + 1
        /\ \A i \in 1..n : all[i] = o[i]
        /\ all[n + 1] = c
    BY LenProperties, AppendProperties
  <1>. HIDE DEF all
  <1>2. DOMAIN o = 1..n /\ DOMAIN all = 1..(n + 1)
    BY <1>1, LenProperties
  <1>. HIDE DEF n
  <1>3. \A i \in 1..n : v[i] = w[i]
    BY <1>1, <1>2
  <1>4. \A k : CodeLen(o, k) = Total(v, k - 1) /\ CodeLen(all, k) = Total(w, k - 1)
    BY DEF CodeLen
  <1>. HIDE DEF v, w
  <1>5. ASSUME NEW k \in 1..(n + 1) PROVE CodeLen(all, k) = CodeLen(o, k)
    <2>1. k - 1 \in Nat /\ \A i \in 1..(k - 1) : i \in 1..n
      BY <1>1
    <2>2. Alike(v, w, k - 1)
      BY <1>3, <2>1 DEF Alike
    <2>3. Total(v, k - 1) = Total(w, k - 1)
      BY <2>1, <2>2, TotalSame
    <2>. QED
      BY <1>4, <2>3
  <1>6. CodeLen(all, n + 2) = CodeLen(o, n + 1) + Len(c)
    <2>1. n + 1 \in 1..Len(all) /\ (n + 1) + 1 = n + 2 /\ n + 1 \in 1..(n + 1)
      BY <1>1
    <2>2. CodeLen(all, (n + 1) + 1) = CodeLen(all, n + 1) + Len(all[n + 1])
      BY <1>1, <2>1, CodeLenFacts
    <2>. QED
      BY <1>1, <1>5, <2>1, <2>2
  <1>. QED
    BY <1>5, <1>6 DEF all, n

-----------------------------------------------------------------------------
(* The invariant of the second pass *)

AllSeveral(lines) == \A k \in 1..Len(lines) : Several(lines[k])

(* The encoder's counter before the k-th instruction, if each has several *)
(* arguments: one behind, but at the first.                               *)
Counter(o, k) == IF k = 1 THEN 0 ELSE CodeLen(o, k) - 1

(* The k-th instruction is written out. *)
Coded(table, o, lines, k) ==
    \E at \in Nat :
        /\ Written(o[k], table, lines[k], at, Len(lines[k].args))
        /\ AllSeveral(lines) => at = Counter(o, k)

EncInv ==
    /\ ReadInv
    /\ pc \in {"line", "label", "arguments"} => out = <<>> /\ address = 0
    /\ out \in Seq(Seq(ByteNumbers)) /\ Len(out) <= Len(parsed_lines)
    /\ pc = "done" => Len(out) = Len(parsed_lines)
    /\ address \in Nat
    /\ AllSeveral(parsed_lines) => /\ address = Counter(out, Len(out) + 1)
                                   /\ Len(out) >= 1 => address # 0
    /\ \A k \in 1..Len(out) : Coded(symbol_table, out, parsed_lines, k)

(* No code yet *)
LEMMA NoCode ==
    /\ <<>> \in Seq(Seq(ByteNumbers)) /\ Len(<<>>) = 0
    /\ Counter(<<>>, Len(<<>>) + 1) = 0
    /\ \A k \in 1..Len(<<>>) : FALSE
  <1>1. <<>> \in Seq(Seq(ByteNumbers)) /\ Len(<<>>) = 0
    BY EmptySeq
  <1>. QED
    BY <1>1 DEF Counter

LEMMA FirstPassEnc ==
    ASSUME EncInv, SkipLine \/ ReadLabel \/ ReadOpcode \/ ReadArgument \/ EndLine \/ EndOfFile
    PROVE  EncInv'
  <1>1. ReadInv'
    BY SkipLineRead, LabelRead, OpcodeReadInv, ArgumentReadInv, EndLineReadInv, RestReadInv
       DEF EncInv
  <1>2. /\ pc \in {"line", "label", "arguments"} /\ pc' # "done"
        /\ out' = out /\ address' = address
    BY DEF SkipLine, ReadLabel, ReadOpcode, ReadArgument, EndLine, EndOfFile
  <1>3. out' = <<>> /\ address' = 0
    BY <1>2 DEF EncInv
  <1>4. Len(parsed_lines') \in Nat
    BY <1>1, LenProperties DEF ReadInv
  <1>. QED
    BY <1>1, <1>2, <1>3, <1>4, NoCode DEF EncInv

LEMMA EncodeEnc ==
    ASSUME EncInv, EncodeInstruction
    PROVE  EncInv'
  <1> DEFINE k == Len(out) + 1
             instr == parsed_lines[k]
             e == encode_instruction(instr, address)
             n == Len(instr.args)
  <1>1. ReadInv'
    BY RestReadInv DEF EncInv
  <1>2. /\ pc = "assemble" /\ Len(out) < Len(parsed_lines)
        /\ out' = Append(out, e.bytes) /\ address' = e.address
        /\ UNCHANGED <<pc, parsed_lines, symbol_table>>
    BY DEF EncodeInstruction, passOne
  <1>3. /\ out \in Seq(Seq(ByteNumbers)) /\ address \in Nat /\ Len(out) \in Nat
        /\ parsed_lines \in Seq(KeptLine) /\ symbol_table \in Seq(Entry)
        /\ Len(parsed_lines) \in Nat
    BY LenProperties DEF EncInv, ReadInv, TableInv, Shapes
  <1>4. k \in 1..Len(parsed_lines) /\ instr \in KeptLine
    <2>1. k \in 1..Len(parsed_lines)
      BY <1>2, <1>3
    <2>. QED
      BY <1>3, <2>1, ElementOfSeq
  <1>5. n \in Nat
    BY <1>4, LenProperties DEF KeptLine, ParsedLine
  <1>6. SoFar(e, symbol_table, instr, address, n)
    BY <1>3, <1>4, InstructionEncoded
  <1>7. /\ e.bytes \in Seq(ByteNumbers) /\ Len(e.bytes) = UpToArg(instr, n)
        /\ e.address = Base(address) + Len(e.bytes)
        /\ Len(e.bytes) \in Nat /\ Len(e.bytes) >= HeadLen(instr)
    BY <1>4, <1>5, <1>6, UpToArgFacts DEF SoFar, Written
  <1>. HIDE DEF e, n, instr
  <1>8. /\ out' \in Seq(Seq(ByteNumbers)) /\ Len(out') = k
        /\ \A j \in 1..Len(out) : out'[j] = out[j]
        /\ out'[k] = e.bytes
    BY <1>2, <1>3, <1>7, AppendProperties
  <1>9. e.address \in Nat
    BY <1>3, <1>7 DEF Base, HeadLen
  <1>10. /\ \A j \in 1..k : CodeLen(out', j) = CodeLen(out, j)
         /\ CodeLen(out', k + 1) = CodeLen(out, k) + Len(e.bytes)
         /\ CodeLen(out, k) \in Nat
    <2>1. k + 1 = Len(out) + 2 /\ k \in 1..(Len(out) + 1)
      BY <1>3
    <2>2. CodeLen(out, k) \in Nat
      BY <1>3, <2>1, CodeLenFacts
    <2>. QED
      BY <1>2, <1>3, <1>7, <2>1, <2>2, CodeLenAppended
  <1>11. AllSeveral(parsed_lines) => /\ address = Counter(out, k)
                                     /\ Len(out) >= 1 => address # 0
    BY DEF EncInv
  <1>12. ASSUME AllSeveral(parsed_lines)
         PROVE  address' = Counter(out', k + 1) /\ address' # 0
    <2>1. Several(instr) /\ HeadLen(instr) = 2
      BY <1>4, <1>12 DEF AllSeveral, HeadLen, instr
    <2>2. k + 1 # 1
      BY <1>3
    <2>3. CASE k = 1
      <3>1. address = 0 /\ CodeLen(out, 1) = 0
        BY <1>3, <1>11, <1>12, <2>3, CodeLenFacts DEF Counter
      <3>. QED
        BY <1>2, <1>7, <1>10, <2>1, <2>2, <2>3, <3>1 DEF Base, Counter
    <2>4. CASE k # 1
      <3>1. address = CodeLen(out, k) - 1 /\ address # 0
        BY <1>3, <1>11, <1>12, <2>4 DEF Counter
      <3>. QED
        BY <1>2, <1>3, <1>7, <1>10, <2>1, <2>2, <2>4, <3>1 DEF Base, Counter
    <2>. QED
      BY <2>3, <2>4
  <1>13. ASSUME NEW j \in 1..k
         PROVE  Coded(symbol_table, out', parsed_lines, j)
    <2>1. Counter(out', j) = Counter(out, j)
      BY <1>10 DEF Counter
    <2>2. CASE j = k
      <3>1. /\ Written(out'[j], symbol_table, parsed_lines[j], address, Len(parsed_lines[j].args))
            /\ AllSeveral(parsed_lines) => address = Counter(out', j)
        BY <1>6, <1>8, <1>11, <2>1, <2>2 DEF instr, n, SoFar
      <3>. QED
        BY <1>3, <3>1 DEF Coded
    <2>3. CASE j # k
      <3>1. j \in 1..Len(out)
        BY <1>3, <2>3
      <3>2. Coded(symbol_table, out, parsed_lines, j) /\ out'[j] = out[j]
        BY <1>8, <3>1 DEF EncInv
      <3>3. PICK at \in Nat :
               /\ Written(out[j], symbol_table, parsed_lines[j], at, Len(parsed_lines[j].args))
               /\ AllSeveral(parsed_lines) => at = Counter(out, j)
        BY <3>2 DEF Coded
      <3>4. /\ Written(out'[j], symbol_table, parsed_lines[j], at, Len(parsed_lines[j].args))
            /\ AllSeveral(parsed_lines) => at = Counter(out', j)
        BY <2>1, <3>2, <3>3
      <3>. QED
        BY <3>3, <3>4 DEF Coded
    <2>. QED
      BY <2>2, <2>3
  <1>14. k <= Len(parsed_lines)
    BY <1>4
  <1>. QED
    BY <1>1, <1>2, <1>8, <1>9, <1>12, <1>13, <1>14 DEF EncInv

LEMMA RestEnc ==
    ASSUME EncInv, Finish \/ UNCHANGED avars
    PROVE  EncInv'
  <1>1. ReadInv'
    BY RestReadInv DEF EncInv
  <1>2. /\ UNCHANGED <<out, address, parsed_lines, symbol_table>>
        /\ \/ pc' = pc
           \/ pc' = "done" /\ Len(out) = Len(parsed_lines)
    BY DEF Finish, avars, passOne
  <1>. QED
    BY <1>1, <1>2 DEF EncInv

LEMMA InitEnc == Init => EncInv
  <1> SUFFICES ASSUME Init PROVE EncInv
    OBVIOUS
  <1>1. ReadInv
    BY InitRead
  <1>2. /\ out = <<>> /\ address = 0 /\ pc = "line"
        /\ Len(parsed_lines) \in Nat
    BY <1>1, LenProperties DEF Init, ReadInv
  <1>. QED
    BY <1>1, <1>2, NoCode DEF EncInv

LEMMA EncInvariance == Spec => []EncInv
  <1>1. EncInv /\ [Next]_avars => EncInv'
    BY FirstPassEnc, EncodeEnc, RestEnc DEF Next
  <1>. QED
    BY InitEnc, <1>1, PTL DEF Spec

-----------------------------------------------------------------------------
(* Where the labels lie *)

(* a is the size after the m-th line, the last that is an instruction before *)
(* the l-th (or the first line's beginning).                                 *)
MarkedBy(s, l, a, m) ==
    /\ a = Sized(s, m + 1)
    /\ m = 0 \/ IsInstruction(s[m])
    /\ \A k \in (m + 1)..(l - 1) : ~IsInstruction(s[k])
IsMark(s, l, a) == \E m \in 0..(l - 1) : MarkedBy(s, l, a, m)

(* What is kept of a line is text lex_token knows. *)
IsText(args) == \A i \in 1..Len(args) : args[i].kind \notin {"comma", "comment", "unknown"}

(* Labels of a table, each at its mark. *)
AtMarks(s, table) ==
    \A i \in 1..Len(table) :
        /\ table[i].line \in 1..Len(s)
        /\ IsMark(s, table[i].line, table[i].address)

MarkInv ==
    /\ EncInv
    /\ IsMark(src, line, current_address)
    /\ AtMarks(src, symbol_table)
    /\ IsText(parsed.args)
    /\ \A k \in 1..Len(parsed_lines) : IsText(parsed_lines[k].args)

LEMMA MarkMoves ==
    ASSUME NEW s, NEW a, NEW l \in Nat \ {0}, IsMark(s, l, a), ~IsInstruction(s[l])
    PROVE  IsMark(s, l + 1, a)
  <1>1. PICK m \in 0..(l - 1) : MarkedBy(s, l, a, m)
    BY DEF IsMark
  <1>2. m \in 0..((l + 1) - 1)
    OBVIOUS
  <1>3. \A k \in (m + 1)..((l + 1) - 1) : k \in (m + 1)..(l - 1) \/ k = l
    OBVIOUS
  <1>4. MarkedBy(s, l + 1, a, m)
    BY <1>1, <1>3 DEF MarkedBy
  <1>. QED
    BY <1>2, <1>4 DEF IsMark

LEMMA MarkNew ==
    ASSUME NEW s, NEW l \in Nat \ {0}, IsInstruction(s[l])
    PROVE  IsMark(s, l + 1, Sized(s, l + 1))
  <1>1. l \in 0..((l + 1) - 1)
    OBVIOUS
  <1>2. \A k \in (l + 1)..((l + 1) - 1) : FALSE
    OBVIOUS
  <1>3. MarkedBy(s, l + 1, Sized(s, l + 1), l)
    BY <1>2 DEF MarkedBy
  <1>. QED
    BY <1>1, <1>3 DEF IsMark

LEMMA MarkAdded ==
    ASSUME NEW s, NEW table \in Seq(Entry), AtMarks(s, table),
           NEW e \in Entry, e.line \in 1..Len(s), IsMark(s, e.line, e.address)
    PROVE  AtMarks(s, <<e>> \o table)
  <1> DEFINE more == <<e>> \o table
  <1>1. /\ <<e>> \in Seq(Entry) /\ Len(<<e>>) = 1 /\ <<e>>[1] = e
        /\ Len(table) \in Nat
    BY LenProperties
  <1>2. /\ Len(more) = Len(table) + 1
        /\ \A i \in 1..(Len(table) + 1) : more[i] = IF i <= 1 THEN e ELSE table[i - 1]
    BY <1>1, ConcatProperties
  <1>. HIDE DEF more
  <1>3. ASSUME NEW i \in 1..Len(more)
        PROVE  more[i].line \in 1..Len(s) /\ IsMark(s, more[i].line, more[i].address)
    <2>1. CASE i = 1
      BY <1>1, <1>2, <2>1
    <2>2. CASE i # 1
      <3>1. more[i] = table[i - 1] /\ i - 1 \in 1..Len(table)
        BY <1>1, <1>2, <2>2
      <3>. QED
        BY <3>1 DEF AtMarks
    <2>. QED
      BY <2>1, <2>2
  <1>. QED
    BY <1>3 DEF AtMarks, more

LEMMA TextAppended ==
    ASSUME NEW args \in Seq(Lexemes), NEW x \in Lexemes, IsText(args),
           x.kind \notin {"comma", "comment", "unknown"}
    PROVE  IsText(Append(args, x))
  <1> DEFINE more == Append(args, x)
  <1>1. /\ Len(args) \in Nat /\ Len(more) = Len(args) + 1
        /\ \A i \in 1..Len(args) : more[i] = args[i]
        /\ more[Len(args) + 1] = x
    BY AppendProperties, LenProperties
  <1>. HIDE DEF more
  <1>2. ASSUME NEW i \in 1..Len(more)
        PROVE  more[i].kind \notin {"comma", "comment", "unknown"}
    <2>1. CASE i = Len(args) + 1
      BY <1>1, <2>1
    <2>2. CASE i # Len(args) + 1
      <3>1. i \in 1..Len(args)
        BY <1>1, <2>2
      <3>. QED
        BY <1>1, <3>1 DEF IsText
    <2>. QED
      BY <2>1, <2>2
  <1>. QED
    BY <1>2 DEF IsText, more

(* The label of the line being read, where it is added to the table. *)
LEMMA LabelMarked ==
    ASSUME MarkInv, NEW label \in Names, line \in 1..Len(src)
    PROVE  AtMarks(src, Labelled(label))
  <1> DEFINE e == [label |-> label, address |-> current_address, line |-> line]
  <1>1. /\ symbol_table \in Seq(Entry) /\ AtMarks(src, symbol_table)
        /\ current_address \in Nat /\ line \in Nat
        /\ IsMark(src, line, current_address)
    BY DEF MarkInv, EncInv, ReadInv, TableInv, Shapes
  <1>2. e \in Entry /\ e.line = line /\ e.address = current_address
    BY <1>1 DEF Entry
  <1>3. Labelled(label) = <<e>> \o symbol_table
    BY DEF Labelled
  <1>. HIDE DEF e
  <1>. QED
    BY <1>1, <1>2, <1>3, MarkAdded

LEMMA SkipLineMark ==
    ASSUME MarkInv, SkipLine
    PROVE  MarkInv'
  <1>1. EncInv'
    BY FirstPassEnc DEF MarkInv
  <1>2. /\ pc = "line" /\ More /\ AtEnd /\ line' = line + 1
        /\ UNCHANGED <<src, parsed, current_address, symbol_table, parsed_lines>>
    BY DEF SkipLine
  <1>3. ReadInv
    BY DEF MarkInv, EncInv
  <1>4. line \in 1..Len(src) /\ Len(src) \in Nat /\ IsLine(src[line]) /\ pos = 1
    BY <1>2, <1>3, ThisLine DEF ReadInv, Stage
  <1>5. ~IsInstruction(src[line])
    <2>1. lex_token(src[line], 1).type \in {"BLANKLINE", "COMMENT"}
      BY <1>2, <1>4 DEF AtEnd, Token
    <2>. QED
      BY <1>4, <2>1, NothingRead
  <1>6. IsMark(src, line + 1, current_address)
    BY <1>4, <1>5, MarkMoves DEF MarkInv
  <1>. QED
    BY <1>1, <1>2, <1>6 DEF MarkInv

LEMMA LabelMark ==
    ASSUME MarkInv, ReadLabel
    PROVE  MarkInv'
  <1>1. EncInv'
    BY FirstPassEnc DEF MarkInv
  <1>2. /\ pc = "line" /\ More /\ Token.type = "LABEL"
        /\ parsed' = [parsed EXCEPT !.lineType = "LABEL", !.label = Lexeme.name]
        /\ symbol_table' = Labelled(Lexeme.name)
        /\ UNCHANGED <<src, line, current_address, parsed_lines>>
    BY DEF ReadLabel
  <1>3. ReadInv
    BY DEF MarkInv, EncInv
  <1>4. line \in 1..Len(src) /\ pos \in Nat \ {0} /\ src \in Sources /\ parsed \in ParsedLine
    BY <1>2, <1>3, ThisLine DEF ReadInv, TableInv, Shapes
  <1>5. Lexeme.name \in Names
    <2>1. Lexeme \in Lexemes
      BY <1>2, <1>4, TokenFacts
    <2>. QED
      BY <2>1 DEF Lexemes, Names
  <1>6. AtMarks(src, symbol_table')
    BY <1>2, <1>4, <1>5, LabelMarked
  <1>7. parsed'.args = parsed.args
    BY <1>2, <1>4 DEF ParsedLine
  <1>. QED
    BY <1>1, <1>2, <1>6, <1>7 DEF MarkInv

LEMMA OpcodeMark ==
    ASSUME MarkInv, ReadOpcode
    PROVE  MarkInv'
  <1>1. EncInv'
    BY FirstPassEnc DEF MarkInv
  <1>2. /\ UNCHANGED <<src, line, current_address, symbol_table, parsed_lines>>
        /\ parsed' = CASE Token.type = "INSTRUCTION" ->
                           [parsed EXCEPT !.lineType = "INSTRUCTION", !.opcode = Lexeme.name]
                      [] Token.type = "DIRECT" -> [parsed EXCEPT !.lineType = "DIRECT"]
                      [] OTHER -> parsed
    BY DEF ReadOpcode
  <1>3. parsed \in ParsedLine
    BY DEF MarkInv, EncInv, ReadInv, TableInv, Shapes
  <1>4. parsed'.args = parsed.args
    <2>1. CASE Token.type = "INSTRUCTION"
      BY <1>2, <1>3, <2>1 DEF ParsedLine
    <2>2. CASE Token.type = "DIRECT"
      BY <1>2, <1>3, <2>2 DEF ParsedLine
    <2>3. CASE Token.type \notin {"INSTRUCTION", "DIRECT"}
      BY <1>2, <2>3
    <2>. QED
      BY <2>1, <2>2, <2>3
  <1>. QED
    BY <1>1, <1>2, <1>4 DEF MarkInv

LEMMA ArgumentMark ==
    ASSUME MarkInv, ReadArgument
    PROVE  MarkInv'
  <1>1. EncInv'
    BY FirstPassEnc DEF MarkInv
  <1>2. /\ pc = "arguments" /\ ~AtEnd
        /\ UNCHANGED <<src, line, current_address, symbol_table, parsed_lines>>
        /\ IF Kept(Token.type) THEN parsed' = [parsed EXCEPT !.args = Append(@, Lexeme)]
                               ELSE parsed' = parsed
    BY DEF ReadArgument
  <1>3. ReadInv /\ IsText(parsed.args)
    BY DEF MarkInv, EncInv
  <1>4. line \in 1..Len(src) /\ pos \in Nat \ {0} /\ src \in Sources /\ parsed \in ParsedLine
    BY <1>2, <1>3, ThisLine DEF ReadInv, TableInv, Shapes
  <1>5. Token.type # "BLANKLINE" => Lexeme \in Lexemes /\ Token.type = TokenType[Lexeme.kind]
    <2>1. CASE pos > Len(src[line])
      BY <2>1 DEF Token, lex_token
    <2>2. CASE ~(pos > Len(src[line]))
      BY <1>4, <2>2, TokenFacts DEF Token, lex_token, Lexeme
    <2>. QED
      BY <2>1, <2>2
  <1>6. IsText(parsed'.args)
    <2>1. CASE Kept(Token.type)
      <3>1. parsed'.args = Append(parsed.args, Lexeme) /\ parsed.args \in Seq(Lexemes)
        BY <1>2, <1>4, <2>1 DEF ParsedLine
      <3>2. Token.type \notin {"BLANKLINE", "COMMENT", "SEPARATOR", "UNKNOWN"}
        BY <1>2, <2>1 DEF AtEnd, Kept
      <3>3. Lexeme \in Lexemes /\ Lexeme.kind \notin {"comma", "comment", "unknown"}
        BY <1>5, <3>2 DEF TokenType
      <3>. QED
        BY <1>3, <3>1, <3>3, TextAppended
    <2>2. CASE ~Kept(Token.type)
      BY <1>2, <1>3, <2>2
    <2>. QED
      BY <2>1, <2>2
  <1>. QED
    BY <1>1, <1>2, <1>6 DEF MarkInv

LEMMA EndLineMark ==
    ASSUME MarkInv, EndLine
    PROVE  MarkInv'
  <1>1. EncInv'
    BY FirstPassEnc DEF MarkInv
  <1>2. /\ pc = "arguments" /\ pc' = "line" /\ line' = line + 1 /\ src' = src /\ size' = size
        /\ symbol_table' = IF parsed.lineType = "LABEL" THEN Labelled(parsed.label) ELSE symbol_table
        /\ parsed' = NoLine
        /\ IF parsed.lineType = "INSTRUCTION"
           THEN current_address' = size /\ parsed_lines' = Append(parsed_lines, parsed)
           ELSE current_address' = current_address /\ parsed_lines' = parsed_lines
    BY DEF EndLine
  <1>3. ReadInv /\ IsText(parsed.args) /\ ReadInv'
    BY <1>1 DEF MarkInv, EncInv
  <1>4. /\ line \in 1..Len(src) /\ parsed \in ParsedLine /\ parsed_lines \in Seq(KeptLine)
        /\ parsed_lines' \in Seq(KeptLine)
        /\ parsed.lineType = "INSTRUCTION" <=> IsInstruction(src[line])
    BY <1>2, <1>3, ThisLine DEF ReadInv, TableInv, Shapes, Stage
  <1>5. AtMarks(src, symbol_table')
    <2>1. parsed.label \in Names
      BY <1>4 DEF ParsedLine
    <2>2. AtMarks(src, Labelled(parsed.label)) /\ AtMarks(src, symbol_table)
      BY <1>4, <2>1, LabelMarked DEF MarkInv
    <2>. QED
      BY <1>2, <2>2
  <1>6. IsMark(src, line + 1, current_address')
    <2>1. CASE IsInstruction(src[line])
      <3>1. current_address' = Sized(src, line + 1)
        BY <1>2, <1>3, <1>4, <2>1 DEF ReadInv, Stage
      <3>. QED
        BY <1>4, <2>1, <3>1, MarkNew
    <2>2. CASE ~IsInstruction(src[line])
      BY <1>2, <1>4, <2>2, MarkMoves DEF MarkInv
    <2>. QED
      BY <2>1, <2>2
  <1>7. IsText(parsed'.args)
    <2>1. parsed'.args = <<>> /\ Len(<<>>) = 0
      BY <1>2, EmptySeq DEF NoLine
    <2>. QED
      BY <2>1 DEF IsText
  <1>8. \A k \in 1..Len(parsed_lines') : IsText(parsed_lines'[k].args)
    <2>1. CASE parsed.lineType = "INSTRUCTION"
      <3>1. parsed_lines' = Append(parsed_lines, parsed) /\ parsed_lines \in Seq(ParsedLine)
        <4>1. KeptLine \subseteq ParsedLine
          BY DEF KeptLine
        <4>. QED
          BY <1>2, <1>4, <2>1, <4>1
      <3>2. /\ Len(parsed_lines) \in Nat /\ Len(parsed_lines') = Len(parsed_lines) + 1
            /\ \A k \in 1..Len(parsed_lines) : parsed_lines'[k] = parsed_lines[k]
            /\ parsed_lines'[Len(parsed_lines) + 1] = parsed
        BY <1>4, <3>1, AppendProperties, LenProperties
      <3>3. \A k \in 1..Len(parsed_lines) : IsText(parsed_lines[k].args)
        BY DEF MarkInv
      <3>. QED
        BY <1>3, <3>2, <3>3
    <2>2. CASE parsed.lineType # "INSTRUCTION"
      BY <1>2, <2>2 DEF MarkInv
    <2>. QED
      BY <2>1, <2>2
  <1>. QED
    BY <1>1, <1>2, <1>5, <1>6, <1>7, <1>8 DEF MarkInv

LEMMA MarkInvariance == Spec => []MarkInv
  <1>1. Init => MarkInv
    <2> SUFFICES ASSUME Init PROVE MarkInv
      OBVIOUS
    <2>1. EncInv
      BY InitEnc
    <2>2. /\ src \in Sources /\ line = 1 /\ current_address = 0 /\ parsed.args = <<>>
          /\ symbol_table = <<>> /\ parsed_lines = <<>> /\ Len(<<>>) = 0
      BY EmptySeq DEF Init, NoLine
    <2>3. MarkedBy(src, 1, 0, 0)
      <3>1. Sized(src, 0 + 1) = 0
        BY <2>2, SizedFacts
      <3>2. \A k \in (0 + 1)..(1 - 1) : FALSE
        OBVIOUS
      <3>. QED
        BY <3>1, <3>2 DEF MarkedBy
    <2>4. IsMark(src, 1, 0)
      BY <2>3 DEF IsMark
    <2>. QED
      BY <2>1, <2>2, <2>4 DEF MarkInv, AtMarks, IsText
  <1>2. MarkInv /\ [Next]_avars => MarkInv'
    <2> SUFFICES ASSUME MarkInv, [Next]_avars PROVE MarkInv'
      OBVIOUS
    <2>1. CASE EndOfFile \/ EncodeInstruction \/ Finish \/ UNCHANGED avars
      <3>1. EncInv'
        BY <2>1, FirstPassEnc, EncodeEnc, RestEnc DEF MarkInv
      <3>2. UNCHANGED <<src, line, current_address, symbol_table, parsed, parsed_lines>>
        BY <2>1 DEF EndOfFile, EncodeInstruction, Finish, avars, passOne
      <3>. QED
        BY <3>1, <3>2 DEF MarkInv
    <2>. QED
      BY <2>1, SkipLineMark, LabelMark, OpcodeMark, ArgumentMark, EndLineMark DEF Next
  <1>. QED
    BY <1>1, <1>2, PTL DEF Spec

-----------------------------------------------------------------------------
(* Types *)

LEMMA SizedGrows ==
    ASSUME NEW s \in Sources, NEW j \in 1..(Len(s) + 1), NEW i \in 1..j
    PROVE  Sized(s, i) <= Sized(s, j)
  <1> DEFINE S == {m \in Nat : i + m <= Len(s) + 1 => Sized(s, i) <= Sized(s, i + m)}
  <1>1. Len(s) \in Nat /\ i \in Nat \ {0} /\ i <= Len(s) + 1 /\ j - i \in Nat /\ i + (j - i) = j
    BY SourceType
  <1>2. \A l \in 1..(Len(s) + 1) : Sized(s, l) \in Nat
    BY SizedType
  <1>3. 0 \in S
    <2>1. i + 0 = i /\ i \in 1..(Len(s) + 1)
      BY <1>1
    <2>. QED
      BY <1>2, <2>1
  <1>4. ASSUME NEW m \in Nat, m \in S PROVE m + 1 \in S
    <2>1. SUFFICES ASSUME i + (m + 1) <= Len(s) + 1
                   PROVE  Sized(s, i) <= Sized(s, i + (m + 1))
      OBVIOUS
    <2> DEFINE l == i + m
    <2>2. l \in 1..Len(s) /\ l \in 1..(Len(s) + 1) /\ i \in 1..(Len(s) + 1) /\ i + (m + 1) = l + 1
          /\ l + 1 \in 1..(Len(s) + 1) /\ i + m <= Len(s) + 1
      BY <1>1, <2>1
    <2>3. Sized(s, i) <= Sized(s, l)
      BY <1>4, <2>2
    <2>. HIDE DEF l
    <2>4. BytesOf(s[l]) \in Nat
      BY <2>2, LineFacts, BytesType
    <2>5. Sized(s, l + 1) = Sized(s, l) + BytesOf(s[l])
      BY <2>2, SizedFacts
    <2>6. Sized(s, i) \in Nat /\ Sized(s, l) \in Nat /\ Sized(s, l + 1) \in Nat
      BY <1>2, <2>2
    <2>7. Sized(s, i) <= Sized(s, l + 1)
      BY <2>3, <2>4, <2>5, <2>6
    <2>. QED
      BY <2>2, <2>7
  <1>. HIDE DEF S
  <1>5. j - i \in S
    BY <1>1, <1>3, <1>4, Counting
  <1>. QED
    BY <1>1, <1>5 DEF S

(* The size counted so far is at least that of the lines before this one. *)
LEMMA SizeAtLine ==
    ASSUME ReadInv
    PROVE  Sized(src, line) \in Nat /\ Sized(src, line) <= size
  <1>1. /\ src \in Sources /\ line \in 1..(Len(src) + 1) /\ size \in Nat
        /\ Stage(pc, src, line, pos, parsed, size)
        /\ pc \in {"line", "label", "arguments", "assemble", "done"}
    BY DEF ReadInv, TableInv, Shapes
  <1>2. Sized(src, line) \in Nat
    BY <1>1, SizedType
  <1>3. CASE pc = "arguments"
    <2>1. parsed.args \in Seq(Lexemes)
      BY DEF ReadInv, TableInv, Shapes, ParsedLine
    <2>2. ArgBytes(parsed.args) \in Nat
      BY <2>1, ArgBytesType
    <2>3. Counted(src[line], parsed.args) \in Nat
      BY <2>2 DEF Counted
    <2>. QED
      BY <1>1, <1>2, <1>3, <2>3 DEF Stage
  <1>4. CASE pc # "arguments"
    BY <1>1, <1>2, <1>4 DEF Stage
  <1>. QED
    BY <1>2, <1>3, <1>4

LEMMA PosType ==
    ASSUME ReadInv
    PROVE  pos \in IF More THEN 1..(Len(src[line]) + 1) ELSE {1}
  <1>1. /\ src \in Sources /\ line \in 1..(Len(src) + 1) /\ Len(src) \in Nat
        /\ Stage(pc, src, line, pos, parsed, size)
        /\ pc \in {"line", "label", "arguments", "assemble", "done"}
    BY SourceType DEF ReadInv, TableInv, Shapes
  <1>2. CASE pc \in {"label", "arguments"}
    <2>1. /\ line \in 1..Len(src) /\ IsLine(src[line]) /\ Len(src[line]) \in Nat
      BY <1>2, ThisLine
    <2>2. More
      BY <1>1, <2>1 DEF More
    <2>3. CASE pc = "label"
      <3>1. pos = 2 /\ src[line] # <<>>
        BY <1>1, <2>3 DEF Stage, BehindLabel
      <3>2. Len(src[line]) # 0
        BY <2>1, <3>1, EmptySeq DEF IsLine
      <3>. QED
        BY <2>1, <2>2, <3>1, <3>2
    <2>4. CASE pc = "arguments"
      <3>1. pos \in OpcodeAt(src[line])..(Len(src[line]) + 1)
        BY <1>1, <2>4 DEF Stage, Stands
      <3>2. OpcodeAt(src[line]) \in {1, 2}
        BY DEF OpcodeAt
      <3>. QED
        BY <2>1, <2>2, <3>1, <3>2
    <2>. QED
      BY <1>2, <2>3, <2>4
  <1>3. CASE pc \notin {"label", "arguments"}
    <2>1. pos = 1
      BY <1>1, <1>3 DEF Stage
    <2>2. CASE More
      <3>1. line \in 1..Len(src)
        BY <1>1, <2>2 DEF More
      <3>2. Len(src[line]) \in Nat
        BY <1>1, <3>1, LineFacts, LenProperties DEF IsLine
      <3>. QED
        BY <2>1, <2>2, <3>2
    <2>. QED
      BY <2>1, <2>2
  <1>. QED
    BY <1>2, <1>3

(***************************************************************************)
(* For any source, every lexeme read is one of it, no label's address is    *)
(* beyond the size counted so far, and every byte written fits a byte.      *)
(***************************************************************************)
THEOREM BytesFit == Spec => []TypeOK
  <1>1. MarkInv => TypeOK
    <2> SUFFICES ASSUME MarkInv PROVE TypeOK
      OBVIOUS
    <2>1. /\ ReadInv /\ src \in Sources /\ line \in 1..(Len(src) + 1)
          /\ size \in Nat /\ current_address \in Nat /\ address \in Nat
          /\ Len(parsed.args) <= MAX_ARGS_NUMBER
          /\ parsed \in ParsedLine /\ symbol_table \in Seq(Entry)
          /\ parsed_lines \in Seq(KeptLine) /\ out \in Seq(Seq(ByteNumbers))
          /\ pc \in {"line", "label", "arguments", "assemble", "done"}
      BY DEF MarkInv, EncInv, ReadInv, TableInv, Shapes
    <2>2. pos \in IF More THEN 1..(Len(src[line]) + 1) ELSE {1}
      BY <2>1, PosType
    <2>3. ASSUME NEW s \in Range1(symbol_table)
          PROVE  s.address \in 0..size /\ s.line \in 1..Len(src)
      <3>1. PICK i \in 1..Len(symbol_table) : s = symbol_table[i]
        BY <2>1, LenProperties DEF Range1
      <3>2. /\ s \in Entry /\ s.line \in 1..Len(src) /\ IsMark(src, s.line, s.address)
            /\ s.line <= line
        <4>1. symbol_table[i].line <= line
          <5>1. symbol_table[i].line < line \/ symbol_table[i].line = line
            BY <2>1 DEF ReadInv, TableInv, UpToHere
          <5>2. symbol_table[i] \in Entry
            BY <2>1, ElementOfSeq
          <5>3. symbol_table[i].line \in Nat /\ line \in Nat
            BY <2>1, <5>2, SourceType DEF Entry
          <5>. QED
            BY <5>1, <5>3
        <4>. QED
          BY <2>1, <3>1, <4>1, ElementOfSeq DEF MarkInv, AtMarks
      <3>3. PICK m \in 0..(s.line - 1) : s.address = Sized(src, m + 1)
        BY <3>2 DEF IsMark, MarkedBy
      <3>4. m + 1 \in 1..line
        BY <2>1, <3>2
      <3>5. Sized(src, m + 1) <= Sized(src, line)
        BY <2>1, <3>4, SizedGrows
      <3>6. Sized(src, line) \in Nat /\ Sized(src, line) <= size
        BY <2>1, SizeAtLine
      <3>7. s.address \in Nat
        BY <3>2 DEF Entry
      <3>. QED
        BY <2>1, <3>2, <3>3, <3>5, <3>6, <3>7
    <2>4. \A p \in Range1(parsed_lines) : p.lineType = "INSTRUCTION"
      <3> TAKE p \in Range1(parsed_lines)
      <3>1. PICK i \in 1..Len(parsed_lines) : p = parsed_lines[i]
        BY <2>1, LenProperties DEF Range1
      <3>2. p \in KeptLine
        BY <2>1, <3>1, ElementOfSeq
      <3>. QED
        BY <3>2 DEF KeptLine
    <2>5. \A bytes \in Range1(out) : bytes \in Seq(0..255)
      <3> TAKE bytes \in Range1(out)
      <3>1. PICK i \in 1..Len(out) : bytes = out[i]
        BY <2>1, LenProperties DEF Range1
      <3>2. bytes \in Seq(ByteNumbers)
        BY <2>1, <3>1, ElementOfSeq
      <3>. QED
        BY <3>2 DEF ByteNumbers
    <2>6. parsed.lineType \in {"UNKNOWN", "INSTRUCTION", "LABEL", "DIRECT"}
      BY <2>1 DEF ParsedLine
    <2>. QED
      BY <2>1, <2>2, <2>3, <2>4, <2>5, <2>6 DEF TypeOK
  <1>. QED
    BY MarkInvariance, <1>1, PTL

-----------------------------------------------------------------------------
(* Instructions and their lines *)

LEMMA InstructionsType ==
    ASSUME NEW s \in Sources, NEW l \in 1..(Len(s) + 1)
    PROVE  Instructions(s, l) \in Seq(Seq(Lexemes)) /\ Len(Instructions(s, l)) \in Nat
  <1>1. Len(s) \in Nat
    BY SourceType
  <1>2. Instructions(s, l) \in Seq(Seq(Lexemes))
    <2>1. CASE l = 1
      <3>1. Instructions(s, 1) = <<>>
        BY InstructionsFacts
      <3>. QED
        BY <2>1, <3>1, EmptySeq
    <2>2. CASE l # 1
      <3>1. PICK j \in 1..Len(s) : l = j + 1
        BY <1>1, <2>2
      <3>2. s[j] \in Seq(Lexemes)
        BY <3>1, LineFacts DEF IsLine
      <3>3. /\ Instructions(s, j) \in Seq(Seq(Lexemes))
            /\ Instructions(s, j + 1) = IF IsInstruction(s[j])
                                        THEN Append(Instructions(s, j), s[j])
                                        ELSE Instructions(s, j)
        BY <3>1, InstructionsFacts
      <3>4. Append(Instructions(s, j), s[j]) \in Seq(Seq(Lexemes))
        BY <3>2, <3>3, AppendProperties
      <3>. QED
        BY <3>1, <3>3, <3>4
    <2>. QED
      BY <2>1, <2>2
  <1>. QED
    BY <1>2, LenProperties

(* The instruction of a line keeps its number, whatever comes after it. *)
LEMMA InstructionStays ==
    ASSUME NEW s \in Sources, NEW l \in 1..Len(s), IsInstruction(s[l]),
           NEW more \in (l + 1)..(Len(s) + 1)
    PROVE  LET k == Len(Instructions(s, l)) + 1
           IN  k <= Len(Instructions(s, more)) /\ Instructions(s, more)[k] = s[l]
  <1> DEFINE k == Len(Instructions(s, l)) + 1
             Kept1(j) == k <= Len(Instructions(s, j)) /\ Instructions(s, j)[k] = s[l]
             S == {m \in Nat : (l + 1) + m <= Len(s) + 1 => Kept1((l + 1) + m)}
  <1>1. /\ Len(s) \in Nat /\ l \in Nat \ {0} /\ more - (l + 1) \in Nat
        /\ (l + 1) + (more - (l + 1)) = more /\ more <= Len(s) + 1
    BY SourceType
  <1>2. k \in Nat \ {0}
    BY <1>1, InstructionsType
  <1>3. ASSUME NEW j \in 1..Len(s)
        PROVE  /\ Instructions(s, j) \in Seq(Seq(Lexemes)) /\ Len(Instructions(s, j)) \in Nat
               /\ s[j] \in Seq(Lexemes)
               /\ Instructions(s, j + 1) = IF IsInstruction(s[j])
                                           THEN Append(Instructions(s, j), s[j])
                                           ELSE Instructions(s, j)
    BY InstructionsFacts, LineFacts, LenProperties DEF IsLine
  <1>4. Kept1(l + 1)
    <2>1. Instructions(s, l + 1) = Append(Instructions(s, l), s[l])
      BY <1>3
    <2>. QED
      BY <1>3, <2>1, AppendProperties
  <1>5. ASSUME NEW j \in 1..Len(s), Kept1(j) PROVE Kept1(j + 1)
    <2>1. CASE IsInstruction(s[j])
      <3> DEFINE a == Instructions(s, j)
                 b == Append(a, s[j])
      <3>1. /\ Len(a) \in Nat /\ Len(b) = Len(a) + 1
            /\ \A i \in 1..Len(a) : b[i] = a[i]
        BY <1>3, AppendProperties
      <3>2. k \in 1..Len(a)
        BY <1>2, <1>5, <3>1
      <3>3. Instructions(s, j + 1) = b
        BY <1>3, <2>1
      <3>. HIDE DEF b
      <3>4. b[k] = a[k] /\ k <= Len(b)
        BY <3>1, <3>2
      <3>. QED
        BY <1>5, <3>3, <3>4
    <2>2. CASE ~IsInstruction(s[j])
      BY <1>3, <1>5, <2>2
    <2>. QED
      BY <2>1, <2>2
  <1>. HIDE DEF Kept1
  <1>6. 0 \in S
    <2>1. (l + 1) + 0 = l + 1
      BY <1>1
    <2>. QED
      BY <1>4, <2>1
  <1>7. ASSUME NEW m \in Nat, m \in S PROVE m + 1 \in S
    <2>1. SUFFICES ASSUME (l + 1) + (m + 1) <= Len(s) + 1 PROVE Kept1((l + 1) + (m + 1))
      OBVIOUS
    <2>2. /\ (l + 1) + m <= Len(s) + 1 /\ (l + 1) + m \in 1..Len(s)
          /\ (l + 1) + (m + 1) = ((l + 1) + m) + 1
      BY <1>1, <2>1
    <2>3. Kept1((l + 1) + m)
      BY <1>7, <2>2
    <2>. QED
      BY <1>5, <2>2, <2>3
  <1>. HIDE DEF S
  <1>8. more - (l + 1) \in S
    BY <1>1, <1>6, <1>7, Counting
  <1>9. Kept1(more)
    BY <1>1, <1>8 DEF S
  <1>. QED
    BY <1>9 DEF Kept1

(* There are no fewer instructions in more lines. *)
LEMMA InstructionsGrow ==
    ASSUME NEW s \in Sources, NEW l \in 1..(Len(s) + 1)
    PROVE  Len(Instructions(s, l)) <= Len(Instructions(s, Len(s) + 1))
  <1> DEFINE all == Len(s) + 1
             n(j) == Len(Instructions(s, j))
             S == {m \in Nat : m < all => n(all - m) <= n(all)}
  <1>1. all \in Nat \ {0} /\ all = Len(s) + 1 /\ all - l \in Nat /\ all - (all - l) = l /\ all - l < all
        /\ all - 0 = all
    BY SourceType
  <1>2. ASSUME NEW j \in 1..Len(s)
        PROVE  n(j) \in Nat /\ n(j) <= n(j + 1)
    <2>1. /\ Instructions(s, j) \in Seq(Seq(Lexemes)) /\ s[j] \in Seq(Lexemes)
          /\ Instructions(s, j + 1) = IF IsInstruction(s[j])
                                      THEN Append(Instructions(s, j), s[j])
                                      ELSE Instructions(s, j)
      BY InstructionsFacts, LineFacts DEF IsLine
    <2>2. /\ Len(Append(Instructions(s, j), s[j])) = Len(Instructions(s, j)) + 1
          /\ Len(Instructions(s, j)) \in Nat
      BY <2>1, AppendProperties, LenProperties
    <2>3. \/ Instructions(s, j + 1) = Append(Instructions(s, j), s[j])
          \/ Instructions(s, j + 1) = Instructions(s, j)
      BY <2>1
    <2>4. n(j) \in Nat /\ (n(j + 1) = n(j) \/ n(j + 1) = n(j) + 1)
      BY <2>2, <2>3
    <2>. QED
      BY <2>4
  <1>3. \A j \in 1..all : n(j) \in Nat
    BY InstructionsType
  <1>. HIDE DEF n
  <1>4. 0 \in S
    <2>1. n(all) \in Nat
      BY <1>1, <1>3
    <2>. QED
      BY <1>1, <2>1
  <1>5. ASSUME NEW m \in Nat, m \in S PROVE m + 1 \in S
    <2>1. SUFFICES ASSUME m + 1 < all PROVE n(all - (m + 1)) <= n(all)
      OBVIOUS
    <2> DEFINE j == all - (m + 1)
    <2>2. j \in 1..Len(s) /\ j + 1 = all - m /\ m < all /\ j + 1 \in 1..all /\ all \in 1..all
      BY <1>1, <2>1
    <2>. HIDE DEF j, all
    <2>3. n(j + 1) <= n(all)
      BY <1>5, <2>2
    <2>4. n(j) \in Nat /\ n(j) <= n(j + 1) /\ n(j + 1) \in Nat /\ n(all) \in Nat
      BY <1>2, <1>3, <2>2
    <2>5. n(j) <= n(all)
      BY <2>3, <2>4
    <2>. QED
      BY <2>5 DEF j
  <1>. HIDE DEF S
  <1>6. all - l \in S
    BY <1>1, <1>4, <1>5, Counting
  <1>7. n(l) <= n(all)
    BY <1>1, <1>6 DEF S
  <1>. QED
    BY <1>7 DEF n

(* Lines without an instruction leave the instructions as they were. *)
LEMMA NoneBetween ==
    ASSUME NEW s \in Sources, NEW more \in 1..(Len(s) + 1), NEW l \in 1..more,
           \A i \in l..(more - 1) : ~IsInstruction(s[i])
    PROVE  Instructions(s, more) = Instructions(s, l)
  <1> DEFINE S == {m \in Nat : l + m <= more => Instructions(s, l + m) = Instructions(s, l)}
  <1>1. Len(s) \in Nat /\ l \in Nat \ {0} /\ more - l \in Nat /\ l + (more - l) = more
    BY SourceType
  <1>2. 0 \in S
    <2>1. l + 0 = l
      BY <1>1
    <2>. QED
      BY <2>1
  <1>3. ASSUME NEW m \in Nat, m \in S PROVE m + 1 \in S
    <2>1. SUFFICES ASSUME l + (m + 1) <= more
                   PROVE  Instructions(s, l + (m + 1)) = Instructions(s, l)
      OBVIOUS
    <2> DEFINE j == l + m
    <2>2. j \in l..(more - 1) /\ j \in 1..Len(s) /\ j <= more /\ l + (m + 1) = j + 1
      BY <1>1, <2>1
    <2>. HIDE DEF j
    <2>3. Instructions(s, j) = Instructions(s, l)
      BY <1>3, <2>2 DEF j
    <2>4. Instructions(s, j + 1) = Instructions(s, j)
      BY <2>2, InstructionsFacts
    <2>. QED
      BY <2>2, <2>3, <2>4
  <1>. HIDE DEF S
  <1>4. more - l \in S
    BY <1>1, <1>2, <1>3, Counting
  <1>. QED
    BY <1>1, <1>4 DEF S

(* InstructionsBefore, of any source *)
Before(s, l) == {m \in 1..(l - 1) : IsInstruction(s[m])}

LEMMA InstructionsCounted ==
    ASSUME NEW s \in Sources, NEW l \in 1..(Len(s) + 1)
    PROVE  IsFiniteSet(Before(s, l)) /\ Cardinality(Before(s, l)) = Len(Instructions(s, l))
  <1> DEFINE Right(j) == /\ IsFiniteSet(Before(s, j))
                         /\ Cardinality(Before(s, j)) = Len(Instructions(s, j))
             S == {m \in Nat : m <= Len(s) => Right(m + 1)}
  <1>1. Len(s) \in Nat /\ l - 1 \in Nat /\ (l - 1) + 1 = l /\ l - 1 <= Len(s)
    BY SourceType
  <1>2. Right(1)
    <2>1. Before(s, 1) = {}
      BY DEF Before
    <2>2. Instructions(s, 1) = <<>> /\ Len(<<>>) = 0
      BY InstructionsFacts, EmptySeq
    <2>. QED
      BY <2>1, <2>2, FS_EmptySet
  <1>3. ASSUME NEW j \in 1..Len(s), Right(j) PROVE Right(j + 1)
    <2>1. /\ Instructions(s, j) \in Seq(Seq(Lexemes)) /\ s[j] \in Seq(Lexemes)
          /\ Instructions(s, j + 1) = IF IsInstruction(s[j])
                                      THEN Append(Instructions(s, j), s[j])
                                      ELSE Instructions(s, j)
      BY InstructionsFacts, LineFacts DEF IsLine
    <2>2. j \in Nat \ {0} /\ j \notin Before(s, j)
      BY DEF Before
    <2>3. CASE IsInstruction(s[j])
      <3>1. Before(s, j + 1) = Before(s, j) \cup {j}
        BY <2>2, <2>3 DEF Before
      <3>2. /\ IsFiniteSet(Before(s, j) \cup {j})
            /\ Cardinality(Before(s, j) \cup {j}) = Cardinality(Before(s, j)) + 1
        BY <1>3, <2>2, FS_AddElement
      <3>3. Len(Append(Instructions(s, j), s[j])) = Len(Instructions(s, j)) + 1
        BY <2>1, AppendProperties
      <3>. QED
        BY <1>3, <2>1, <2>3, <3>1, <3>2, <3>3
    <2>4. CASE ~IsInstruction(s[j])
      <3>1. Before(s, j + 1) = Before(s, j)
        BY <2>2, <2>4 DEF Before
      <3>. QED
        BY <1>3, <2>1, <2>4, <3>1
    <2>. QED
      BY <2>3, <2>4
  <1>. HIDE DEF Right
  <1>4. 0 \in S
    <2>1. 0 + 1 = 1
      OBVIOUS
    <2>. QED
      BY <1>2, <2>1
  <1>5. ASSUME NEW m \in Nat, m \in S PROVE m + 1 \in S
    <2>1. SUFFICES ASSUME m + 1 <= Len(s) PROVE Right((m + 1) + 1)
      OBVIOUS
    <2>2. m <= Len(s) /\ m + 1 \in 1..Len(s)
      BY <1>1, <2>1
    <2>. QED
      BY <1>3, <1>5, <2>2
  <1>. HIDE DEF S
  <1>6. l - 1 \in S
    BY <1>1, <1>4, <1>5, Counting
  <1>7. Right(l)
    BY <1>1, <1>6 DEF S
  <1>. QED
    BY <1>7 DEF Right

-----------------------------------------------------------------------------
(* How far the first pass is ahead *)

NoMore(v, w, n) == \A i \in 1..n : v[i] \in Nat /\ w[i] \in Nat /\ v[i] <= w[i]

LEMMA TotalAtMost ==
    ASSUME NEW v, NEW w, NEW n \in Nat, NoMore(v, w, n)
    PROVE  Total(v, n) \in Nat /\ Total(w, n) \in Nat /\ Total(v, n) <= Total(w, n)
  <1> DEFINE Right(m) == Total(v, m) \in Nat /\ Total(w, m) \in Nat /\ Total(v, m) <= Total(w, m)
             S == {m \in Nat : m <= n => Right(m)}
  <1>1. 0 \in S
    <2>1. Total(v, 0) = 0 /\ Total(w, 0) = 0
      BY TotalNone
    <2>. QED
      BY <2>1
  <1>2. ASSUME NEW m \in Nat, m \in S PROVE m + 1 \in S
    <2>1. SUFFICES ASSUME m + 1 <= n PROVE Right(m + 1)
      OBVIOUS
    <2>2. m + 1 \in 1..n /\ m + 1 \in Nat \ {0} /\ (m + 1) - 1 = m /\ m <= n
      BY <2>1
    <2>3. Right(m)
      BY <1>2, <2>2
    <2>4. Total(v, m + 1) = Total(v, m) + v[m + 1] /\ Total(w, m + 1) = Total(w, m) + w[m + 1]
      BY <2>2, TotalOneMore
    <2>5. v[m + 1] \in Nat /\ w[m + 1] \in Nat /\ v[m + 1] <= w[m + 1]
      BY <2>2 DEF NoMore
    <2>. QED
      BY <2>3, <2>4, <2>5
  <1>. HIDE DEF S
  <1>3. n \in S
    BY <1>1, <1>2, Counting
  <1>. QED
    BY <1>3 DEF S

(* What the first pass counts for an argument is what the second writes, or *)
(* more.                                                                    *)
LEMMA ArgumentCounted ==
    ASSUME NEW instr \in KeptLine, NEW j \in 1..Len(instr.args),
           IsText(instr.args), ~CountedLow(instr)
    PROVE  /\ Room(instr, instr.args[j]) <= Bytes(TokenType[instr.args[j].kind])
           /\ Bytes(TokenType[instr.args[j].kind]) \in Nat
           /\ Room(instr, instr.args[j]) \in Nat
  <1>1. instr.args \in Seq(Lexemes)
    BY DEF KeptLine, ParsedLine
  <1>2. Len(instr.args) \in Nat /\ DOMAIN instr.args = 1..Len(instr.args)
    BY <1>1, LenProperties
  <1>3. PICK arg \in Lexemes : arg = instr.args[j]
    BY <1>1, ElementOfSeq
  <1>4. arg \in Range1(instr.args)
    BY <1>2, <1>3 DEF Range1
  <1>5. /\ arg.kind \in DOMAIN TokenType
        /\ arg.kind \notin {"comma", "comment", "unknown", "word", "label", "directive"}
        /\ arg.kind = "reference" => arg.name \notin WithDigit
    BY <1>3, <1>4 DEF IsText, CountedLow, Lexemes
  <1>6. arg.kind \in {"register", "value", "number", "reference"}
    BY <1>5 DEF TokenType
  <1>7. arg.kind = "register" => Several(instr)
    <2>1. SUFFICES ASSUME arg.kind = "register", ~Several(instr) PROVE FALSE
      OBVIOUS
    <2>2. PICK n \in Nat : n = Len(instr.args)
      BY <1>2
    <2>3. ~(n > 1) /\ j \in 1..n
      BY <2>1, <2>2, Zenon DEF Several
    <2>4. n = 1 /\ j = 1
      BY <2>3
    <2>. QED
      BY <1>3, <2>1, <2>2, <2>4 DEF CountedLow
  <1>8. CASE arg.kind = "register"
    <2>1. Room(instr, arg) = 1 /\ Bytes(TokenType[arg.kind]) = 1
      BY <1>7, <1>8 DEF Room, IsReference, IsLetter, Bytes, TokenType
    <2>. QED
      BY <1>3, <2>1
  <1>9. CASE arg.kind = "reference"
    <2>1. Room(instr, arg) = 2 /\ Bytes(TokenType[arg.kind]) = 2
      BY <1>5, <1>9 DEF Room, IsReference, Bytes, TokenType
    <2>. QED
      BY <1>3, <2>1
  <1>10. CASE arg.kind \in {"value", "number"}
    <2>1. Room(instr, arg) \in {1, 2, 4} /\ Bytes(TokenType[arg.kind]) = 4
      BY <1>10, RoomType DEF Bytes, TokenType
    <2>. QED
      BY <1>3, <2>1
  <1>. QED
    BY <1>6, <1>8, <1>9, <1>10

LEMMA NotLonger ==
    ASSUME NEW instr \in KeptLine, IsText(instr.args), ~CountedLow(instr)
    PROVE  UpToArg(instr, Len(instr.args)) <= 2 + ArgBytes(instr.args)
  <1> DEFINE n == Len(instr.args)
             v == Widths(instr)
             w == [i \in DOMAIN instr.args |-> Bytes(TokenType[instr.args[i].kind])]
  <1>1. instr.args \in Seq(Lexemes)
    BY DEF KeptLine, ParsedLine
  <1>2. n \in Nat /\ DOMAIN instr.args = 1..n
    BY <1>1, LenProperties
  <1>3. ASSUME NEW i \in 1..n
        PROVE  v[i] \in Nat /\ w[i] \in Nat /\ v[i] <= w[i]
    <2>1. v[i] = Room(instr, instr.args[i]) /\ w[i] = Bytes(TokenType[instr.args[i].kind])
      BY <1>2 DEF Widths
    <2>. QED
      BY <2>1, ArgumentCounted
  <1>4. UpToArg(instr, n) = HeadLen(instr) + Total(v, n) /\ ArgBytes(instr.args) = Total(w, n)
    BY DEF UpToArg, ArgBytes
  <1>. HIDE DEF v, w, n
  <1>5. NoMore(v, w, n)
    BY <1>3 DEF NoMore
  <1>6. Total(v, n) \in Nat /\ Total(w, n) \in Nat /\ Total(v, n) <= Total(w, n)
    BY <1>2, <1>5, TotalAtMost
  <1>7. HeadLen(instr) \in {1, 2}
    BY DEF HeadLen
  <1>. QED
    BY <1>4, <1>6, <1>7 DEF n

(* The k-th instruction's code is as long as its arguments make it. *)
LEMMA CodedLen ==
    ASSUME EncInv, NEW k \in 1..Len(out)
    PROVE  Len(out[k]) = UpToArg(parsed_lines[k], Len(parsed_lines[k].args))
  <1>1. Coded(symbol_table, out, parsed_lines, k)
    BY DEF EncInv
  <1>2. PICK at \in Nat :
           Written(out[k], symbol_table, parsed_lines[k], at, Len(parsed_lines[k].args))
    BY <1>1 DEF Coded
  <1>. QED
    BY <1>2 DEF Written

(* The first pass after m lines, less the code of those lines *)
Gap(m) == Sized(src, m + 1) - CodeLen(out, Len(Instructions(src, m + 1)) + 1)

(* Assembled, and nothing was counted too low. *)
AllCounted ==
    /\ MarkInv
    /\ pc = "done"
    /\ \A k \in 1..Len(parsed_lines) : ~CountedLow(parsed_lines[k])

LEMMA GapStep ==
    ASSUME AllCounted, NEW l \in 1..Len(src)
    PROVE  Gap(l - 1) \in Int /\ Gap(l) \in Int /\ Gap(l - 1) <= Gap(l)
  <1> DEFINE k == Len(Instructions(src, l)) + 1
             all == Len(Instructions(src, Len(src) + 1))
  <1>1. /\ src \in Sources /\ Len(src) \in Nat /\ (l - 1) + 1 = l
        /\ l \in 1..(Len(src) + 1) /\ l + 1 \in 1..(Len(src) + 1)
        /\ Len(src) + 1 \in 1..(Len(src) + 1)
        /\ Len(src) + 1 \in (l + 1)..(Len(src) + 1)
        /\ ReadInv /\ EncInv
    BY SourceType DEF AllCounted, MarkInv, EncInv, ReadInv, TableInv, Shapes
  <1>2. /\ line = Len(src) + 1
        /\ Filed(Instructions(src, line), parsed_lines)
        /\ parsed_lines \in Seq(KeptLine)
        /\ out \in Seq(Seq(ByteNumbers)) /\ Len(out) = Len(parsed_lines)
    BY <1>1 DEF AllCounted, ReadInv, Stage, EncInv
  <1>3. Len(out) = all
    BY <1>2 DEF Filed
  <1>4. /\ Sized(src, l) \in Nat /\ Sized(src, l + 1) \in Nat
        /\ Sized(src, l + 1) = Sized(src, l) + BytesOf(src[l])
        /\ BytesOf(src[l]) \in Nat
    BY <1>1, SizedType, SizedFacts, LineFacts, BytesType
  <1>5. Len(Instructions(src, l)) \in Nat /\ all \in Nat
    BY <1>1, InstructionsType
  <1>6. /\ Gap(l - 1) = Sized(src, l) - CodeLen(out, k)
        /\ Gap(l) = Sized(src, l + 1) - CodeLen(out, Len(Instructions(src, l + 1)) + 1)
    BY <1>1 DEF Gap
  <1>7. CASE IsInstruction(src[l])
    <2>1. k <= all /\ Instructions(src, Len(src) + 1)[k] = src[l]
      BY <1>1, <1>7, InstructionStays
    <2>2. k \in 1..Len(out) /\ k \in 1..(Len(out) + 1) /\ k + 1 \in 1..(Len(out) + 1)
      BY <1>3, <1>5, <2>1
    <2>3. Len(Instructions(src, l + 1)) = k
      <3>1. Instructions(src, l + 1) = Append(Instructions(src, l), src[l])
            /\ Instructions(src, l) \in Seq(Seq(Lexemes)) /\ src[l] \in Seq(Lexemes)
        BY <1>1, <1>7, InstructionsFacts, LineFacts DEF IsLine
      <3>. QED
        BY <3>1, AppendProperties
    <2>. HIDE DEF k, all
    <2>4. /\ CodeLen(out, k + 1) = CodeLen(out, k) + Len(out[k])
          /\ CodeLen(out, k) \in Nat /\ CodeLen(out, k + 1) \in Nat
      BY <1>2, <2>2, CodeLenFacts
    <2>5. /\ parsed_lines[k] \in KeptLine /\ IsText(parsed_lines[k].args)
          /\ ~CountedLow(parsed_lines[k])
          /\ parsed_lines[k].args = Arguments(src[l])
      <3>1. k \in 1..Len(parsed_lines)
        BY <1>2, <2>2
      <3>2. Says(parsed_lines[k], Instructions(src, line)[k])
        BY <1>2, <3>1 DEF Filed
      <3>3. parsed_lines[k].args = Arguments(src[l])
        BY <1>2, <2>1, <3>2 DEF Says
      <3>. QED
        BY <1>2, <3>1, <3>3, ElementOfSeq DEF AllCounted, MarkInv
    <2>6. Len(out[k]) <= BytesOf(src[l])
      <3>1. Len(out[k]) = UpToArg(parsed_lines[k], Len(parsed_lines[k].args))
        BY <1>1, <2>2, CodedLen
      <3>2. UpToArg(parsed_lines[k], Len(parsed_lines[k].args)) <= 2 + ArgBytes(Arguments(src[l]))
        BY <2>5, NotLonger
      <3>3. BytesOf(src[l]) = 2 + ArgBytes(Arguments(src[l]))
        BY <1>7, BytesCounted DEF Counted
      <3>. QED
        BY <3>1, <3>2, <3>3
    <2>7. Len(out[k]) \in Nat
      BY <1>2, <2>2, ElementOfSeq, LenProperties
    <2>8. Gap(l - 1) = Sized(src, l) - CodeLen(out, k) /\ Gap(l) = Sized(src, l + 1) - CodeLen(out, k + 1)
      BY <1>6, <2>3 DEF k
    <2>9. PICK before \in Nat, bytes \in Nat, c \in Nat, n \in Nat :
             /\ before = Sized(src, l) /\ bytes = BytesOf(src[l])
             /\ c = CodeLen(out, k) /\ n = Len(out[k])
      BY <1>4, <2>4, <2>7
    <2>10. Sized(src, l + 1) = before + bytes /\ CodeLen(out, k + 1) = c + n /\ n <= bytes
      BY <1>4, <2>4, <2>6, <2>9
    <2>11. Gap(l - 1) = before - c /\ Gap(l) = (before + bytes) - (c + n)
      BY <2>8, <2>9, <2>10
    <2>12. before - c \in Int /\ (before + bytes) - (c + n) \in Int
           /\ before - c <= (before + bytes) - (c + n)
      BY <2>10
    <2>. QED
      BY <2>11, <2>12
  <1>8. CASE ~IsInstruction(src[l])
    <2>1. Instructions(src, l + 1) = Instructions(src, l)
      BY <1>1, <1>8, InstructionsFacts
    <2>2. k \in 1..(Len(out) + 1)
      <3>1. Len(Instructions(src, l)) <= all
        <4>1. l \in 1..(Len(src) + 1)
          BY <1>1
        <4>. QED
          BY <1>1, <4>1, InstructionsGrow
      <3>. QED
        BY <1>3, <1>5, <3>1
    <2>. HIDE DEF k
    <2>3. CodeLen(out, k) \in Nat
      BY <1>2, <2>2, CodeLenFacts
    <2>4. Gap(l) = Sized(src, l + 1) - CodeLen(out, k)
      BY <1>6, <2>1 DEF k
    <2>. QED
      BY <1>4, <1>6, <2>3, <2>4
  <1>. QED
    BY <1>7, <1>8

LEMMA GapGrows ==
    ASSUME AllCounted, NEW j \in 0..Len(src), NEW i \in 0..j
    PROVE  Gap(i) \in Int /\ Gap(j) \in Int /\ Gap(i) <= Gap(j)
  <1> DEFINE S == {m \in Nat : i + m <= Len(src) =>
                      Gap(i) \in Int /\ Gap(i + m) \in Int /\ Gap(i) <= Gap(i + m)}
  <1>1. src \in Sources
    BY DEF AllCounted, MarkInv, EncInv, ReadInv, TableInv, Shapes
  <1>2. /\ Len(src) \in Nat /\ i \in Nat /\ i <= Len(src) /\ j - i \in Nat /\ i + (j - i) = j
        /\ j <= Len(src)
    BY <1>1, SourceType
  <1>3. Gap(i) \in Int
    <2>1. CASE i = 0
      <3>1. Sized(src, 0 + 1) = 0 /\ Instructions(src, 0 + 1) = <<>> /\ Len(<<>>) + 1 = 1
        BY <1>1, SizedFacts, InstructionsFacts, EmptySeq
      <3>2. CodeLen(out, 1) = 0
        BY CodeLenFacts DEF AllCounted, MarkInv, EncInv
      <3>3. Gap(0) = 0
        BY <3>1, <3>2 DEF Gap
      <3>. QED
        BY <2>1, <3>3
    <2>2. CASE i # 0
      <3>1. i \in 1..Len(src)
        BY <1>2, <2>2
      <3>. QED
        BY <3>1, GapStep
    <2>. QED
      BY <2>1, <2>2
  <1>4. 0 \in S
    <2>1. i + 0 = i
      BY <1>2
    <2>. QED
      BY <1>3, <2>1
  <1>5. ASSUME NEW m \in Nat, m \in S PROVE m + 1 \in S
    <2>1. SUFFICES ASSUME i + (m + 1) <= Len(src)
                   PROVE  /\ Gap(i) \in Int /\ Gap(i + (m + 1)) \in Int
                          /\ Gap(i) <= Gap(i + (m + 1))
      OBVIOUS
    <2> DEFINE l == i + (m + 1)
    <2>2. l \in 1..Len(src) /\ l - 1 = i + m /\ i + m <= Len(src)
      BY <1>2, <2>1
    <2>. HIDE DEF l
    <2>3. Gap(l - 1) \in Int /\ Gap(i) <= Gap(l - 1)
      BY <1>5, <2>2
    <2>4. Gap(l) \in Int /\ Gap(l - 1) <= Gap(l)
      BY <2>2, GapStep
    <2>5. Gap(i) <= Gap(l)
      BY <1>3, <2>3, <2>4
    <2>. QED
      BY <1>3, <2>4, <2>5 DEF l
  <1>. HIDE DEF S
  <1>6. j - i \in S
    BY <1>2, <1>4, <1>5, Counting
  <1>. QED
    BY <1>2, <1>6 DEF S

LEMMA GapEnds ==
    ASSUME AllCounted
    PROVE  Gap(0) = 0 /\ Gap(Len(src)) = size - CodeLen(out, Len(out) + 1)
  <1>1. src \in Sources /\ ReadInv /\ EncInv
    BY DEF AllCounted, MarkInv, EncInv, ReadInv, TableInv, Shapes
  <1>2. Gap(0) = 0
    <2>1. Sized(src, 0 + 1) = 0 /\ Instructions(src, 0 + 1) = <<>> /\ Len(<<>>) + 1 = 1
      BY <1>1, SizedFacts, InstructionsFacts, EmptySeq
    <2>2. CodeLen(out, 1) = 0
      BY CodeLenFacts DEF AllCounted, MarkInv, EncInv
    <2>. QED
      BY <2>1, <2>2 DEF Gap
  <1>3. /\ line = Len(src) + 1 /\ size = Sized(src, line)
        /\ Len(parsed_lines) = Len(Instructions(src, line))
        /\ Len(out) = Len(parsed_lines)
    BY <1>1 DEF AllCounted, ReadInv, Stage, Filed, EncInv
  <1>4. Gap(Len(src)) = size - CodeLen(out, Len(out) + 1)
    BY <1>3, Zenon DEF Gap
  <1>. QED
    BY <1>2, <1>4

(* A mark, and the line whose instruction is the last before it. *)
StandsAfter(s, m) ==
    /\ m \in 0..Len(src)
    /\ s.line \in 1..(Len(src) + 1)
    /\ Ahead(s) = Gap(m)
    /\ s.line # Len(src) + 1 => /\ m < s.line
                                /\ m = 0 \/ IsInstruction(src[m])
                                /\ \A k \in (m + 1)..(s.line - 1) : ~IsInstruction(src[k])
    /\ s.line = Len(src) + 1 => m = Len(src)

LEMMA BeforeIsLen ==
    ASSUME src \in Sources, NEW l \in 1..(Len(src) + 1)
    PROVE  InstructionsBefore(l) = Len(Instructions(src, l))
  <1>1. InstructionsBefore(l) = Cardinality(Before(src, l))
    BY DEF InstructionsBefore, Before
  <1>. QED
    BY <1>1, InstructionsCounted

LEMMA EveryMarkStands ==
    ASSUME AllCounted, NEW s \in Marks
    PROVE  \E m : StandsAfter(s, m)
  <1>1. /\ src \in Sources /\ Len(src) \in Nat /\ ReadInv /\ EncInv
        /\ symbol_table \in Seq(Entry)
    BY SourceType DEF AllCounted, MarkInv, EncInv, ReadInv, TableInv, Shapes
  <1>2. CASE s = [label |-> "", address |-> size, line |-> Len(src) + 1]
    <2>1. s.line = Len(src) + 1 /\ s.address = size /\ Len(src) + 1 \in 1..(Len(src) + 1)
      <3>1. s.line = Len(src) + 1 /\ s.address = size
        BY <1>2
      <3>2. Len(src) + 1 \in 1..(Len(src) + 1)
        BY <1>1
      <3>. QED
        BY <3>1, <3>2
    <2>2. line = Len(src) + 1 /\ size = Sized(src, line)
      BY <1>1 DEF AllCounted, ReadInv, Stage
    <2>3. InstructionsBefore(Len(src) + 1) = Len(Instructions(src, Len(src) + 1))
      BY <1>1, <2>1, BeforeIsLen
    <2>4. Ahead(s) = Gap(Len(src))
      BY <2>1, <2>2, <2>3, Zenon DEF Ahead, Gap, CodeBefore, CodeLen
    <2>5. Len(src) \in 0..Len(src)
      BY <1>1
    <2>6. StandsAfter(s, Len(src))
      BY <2>1, <2>4, <2>5 DEF StandsAfter
    <2>. QED
      BY <2>6
  <1>3. CASE s \in Range1(symbol_table)
    <2>1. PICK i \in 1..Len(symbol_table) : s = symbol_table[i]
      BY <1>1, <1>3, LenProperties DEF Range1
    <2>2. s.line \in 1..Len(src) /\ IsMark(src, s.line, s.address)
      BY <2>1 DEF AllCounted, MarkInv, AtMarks
    <2>3. PICK m \in 0..(s.line - 1) : MarkedBy(src, s.line, s.address, m)
      BY <2>2 DEF IsMark
    <2>4. /\ m \in 0..Len(src) /\ s.line \in 1..(Len(src) + 1) /\ m < s.line
          /\ s.line # Len(src) + 1 /\ m + 1 \in 1..s.line
      BY <1>1, <2>2
    <2>5. Instructions(src, s.line) = Instructions(src, m + 1)
      <3>1. \A k \in (m + 1)..(s.line - 1) : ~IsInstruction(src[k])
        BY <2>3 DEF MarkedBy
      <3>. QED
        BY <1>1, <2>4, <3>1, NoneBetween
    <2>6. InstructionsBefore(s.line) = Len(Instructions(src, m + 1))
      BY <1>1, <2>4, <2>5, BeforeIsLen
    <2>7. Ahead(s) = Gap(m)
      BY <2>3, <2>6, Zenon DEF Ahead, Gap, CodeBefore, CodeLen, MarkedBy
    <2>8. StandsAfter(s, m)
      BY <2>3, <2>4, <2>7 DEF StandsAfter, MarkedBy
    <2>. QED
      BY <2>8
  <1>. QED
    BY <1>2, <1>3 DEF Marks

(***************************************************************************)
(* For any source whose arguments are all counted for enough, no label's    *)
(* address is before its code, and later labels are as far ahead or farther.*)
(***************************************************************************)
THEOREM AddressesRunAhead == Spec => []FirstPassRunsAhead
  <1>1. MarkInv => FirstPassRunsAhead
    <2> SUFFICES ASSUME MarkInv, pc = "done",
                        \A p \in Range1(parsed_lines) : ~CountedLow(p),
                        NEW s \in Marks, NEW t \in Marks
                 PROVE  Ahead(s) >= 0 /\ (s.line < t.line => Ahead(s) <= Ahead(t))
      BY DEF FirstPassRunsAhead
    <2>1. AllCounted
      <3>1. DOMAIN parsed_lines = 1..Len(parsed_lines)
        BY LenProperties DEF MarkInv, EncInv, ReadInv
      <3>2. \A k \in 1..Len(parsed_lines) : parsed_lines[k] \in Range1(parsed_lines)
        BY <3>1 DEF Range1
      <3>. QED
        BY <3>2 DEF AllCounted
    <2>2. PICK m : StandsAfter(s, m)
      BY <2>1, EveryMarkStands
    <2>3. PICK n : StandsAfter(t, n)
      BY <2>1, EveryMarkStands
    <2>4. /\ m \in 0..Len(src) /\ n \in 0..Len(src) /\ Ahead(s) = Gap(m) /\ Ahead(t) = Gap(n)
          /\ s.line \in 1..(Len(src) + 1) /\ t.line \in 1..(Len(src) + 1)
      BY <2>2, <2>3 DEF StandsAfter
    <2>5. Len(src) \in Nat
      BY SourceType DEF MarkInv, EncInv, ReadInv, TableInv, Shapes
    <2>6. Ahead(s) >= 0
      <3>1. 0 \in 0..m
        BY <2>4, <2>5
      <3>2. Gap(0) = 0 /\ Gap(m) \in Int /\ Gap(0) <= Gap(m)
        BY <2>1, <2>4, <3>1, GapGrows, GapEnds
      <3>. QED
        BY <2>4, <3>2
    <2>7. ASSUME s.line < t.line PROVE Ahead(s) <= Ahead(t)
      <3>1. m <= n
        <4>1. CASE t.line = Len(src) + 1
          BY <2>3, <2>4, <2>5, <4>1 DEF StandsAfter
        <4>2. CASE t.line # Len(src) + 1
          <5>1. s.line # Len(src) + 1
            BY <2>4, <2>5, <2>7
          <5>2. /\ m < s.line /\ (m = 0 \/ IsInstruction(src[m]))
                /\ n < t.line
                /\ \A k \in (n + 1)..(t.line - 1) : ~IsInstruction(src[k])
            BY <2>2, <2>3, <4>2, <5>1 DEF StandsAfter
          <5>3. CASE m = 0
            BY <2>4, <2>5, <5>3
          <5>4. CASE m # 0
            <6>1. ~(m \in (n + 1)..(t.line - 1))
              BY <5>2, <5>4
            <6>. QED
              BY <2>4, <2>5, <2>7, <5>2, <6>1
          <5>. QED
            BY <5>3, <5>4
        <4>. QED
          BY <4>1, <4>2
      <3>2. m \in 0..n
        BY <2>4, <2>5, <3>1
      <3>. QED
        BY <2>1, <2>4, <3>2, GapGrows
    <2>. QED
      BY <2>6, <2>7
  <1>. QED
    BY MarkInvariance, <1>1, PTL

-----------------------------------------------------------------------------
(* References *)

LEMMA AlikeIsCounted ==
    ASSUME NEW instr \in KeptLine, CountedAlike(instr)
    PROVE  Several(instr) /\ ~CountedLow(instr)
  <1>1. Several(instr) /\ Len(instr.args) # 1
    <2>1. PICK n \in Nat : n = Len(instr.args)
      BY LenProperties DEF KeptLine, ParsedLine
    <2>2. n > 1
      BY <2>1, Zenon DEF CountedAlike
    <2>3. n # 1
      BY <2>2
    <2>. QED
      BY <2>1, <2>2, <2>3, Zenon DEF Several
  <1>2. ASSUME NEW arg \in Range1(instr.args)
        PROVE  /\ arg.kind \notin {"word", "label", "directive"}
               /\ ~(arg.kind = "reference" /\ arg.name \in WithDigit)
    BY DEF CountedAlike, IsReference
  <1>. QED
    BY <1>1, <1>2 DEF CountedLow

LEMMA PlaceIsUpTo ==
    ASSUME NEW instr \in KeptLine, Several(instr), NEW j \in 1..Len(instr.args)
    PROVE  Place(instr.args, j) = UpToArg(instr, j - 1)
  <1> DEFINE args == instr.args
             v == [i \in DOMAIN args |-> WidthInCode(args[i])]
             w == Widths(instr)
  <1>1. Len(args) \in Nat /\ DOMAIN args = 1..Len(args)
    BY LenProperties DEF KeptLine, ParsedLine
  <1>2. j - 1 \in Nat /\ \A i \in 1..(j - 1) : i \in DOMAIN args
    BY <1>1
  <1>3. ASSUME NEW i \in 1..(j - 1) PROVE v[i] = w[i]
    <2>1. v[i] = WidthInCode(args[i]) /\ w[i] = Room(instr, args[i])
      BY <1>2 DEF Widths
    <2>2. WidthInCode(args[i]) = Room(instr, args[i])
      BY DEF WidthInCode, Room, IsReference
    <2>. QED
      BY <2>1, <2>2
  <1>4. Place(args, j) = 2 + Total(v, j - 1) /\ UpToArg(instr, j - 1) = 2 + Total(w, j - 1)
    BY DEF Place, UpToArg, HeadLen
  <1>. HIDE DEF v, w
  <1>5. Alike(v, w, j - 1)
    BY <1>3 DEF Alike
  <1>. QED
    BY <1>2, <1>4, <1>5, TotalSame

(* What is behind the first pass' addresses when both passes count alike. *)
LEMMA AheadNone ==
    ASSUME AllCounted, size = CodeLen(out, Len(out) + 1), NEW s \in Range1(symbol_table)
    PROVE  /\ s.address = CodeBefore(InstructionsBefore(s.line) + 1)
           /\ s.address \in Nat
  <1>1. /\ src \in Sources /\ Len(src) \in Nat /\ ReadInv /\ EncInv /\ size \in Nat
        /\ symbol_table \in Seq(Entry) /\ out \in Seq(Seq(ByteNumbers)) /\ Len(out) \in Nat
    BY SourceType, LenProperties DEF AllCounted, MarkInv, EncInv, ReadInv, TableInv, Shapes
  <1>2. s \in Entry
    BY <1>1, ElementOfSeq, LenProperties DEF Range1
  <1>3. s \in Marks
    BY DEF Marks
  <1>4. PICK m : StandsAfter(s, m)
    BY <1>3, EveryMarkStands
  <1>5. m \in 0..Len(src) /\ Ahead(s) = Gap(m) /\ s.line \in 1..(Len(src) + 1)
    BY <1>4 DEF StandsAfter
  <1>6. Gap(m) = 0
    <2>1. 0 \in 0..m /\ m \in 0..Len(src) /\ Len(src) \in 0..Len(src)
      BY <1>1, <1>5
    <2>2. Gap(0) = 0 /\ Gap(Len(src)) = 0
      <3>1. size - size = 0
        BY <1>1
      <3>. QED
        BY <3>1, GapEnds
    <2>3. Gap(m) \in Int /\ Gap(0) <= Gap(m) /\ Gap(m) <= Gap(Len(src))
      BY <2>1, GapGrows
    <2>. QED
      BY <2>2, <2>3
  <1>7. CodeBefore(InstructionsBefore(s.line) + 1) \in Nat
    <2>1. InstructionsBefore(s.line) = Len(Instructions(src, s.line))
      BY <1>1, <1>5, BeforeIsLen
    <2>2. Len(Instructions(src, s.line)) \in Nat
      BY <1>1, <1>5, InstructionsType
    <2>3. Len(Instructions(src, s.line)) <= Len(Instructions(src, Len(src) + 1))
      BY <1>1, <1>5, InstructionsGrow
    <2>4. Len(Instructions(src, Len(src) + 1)) = Len(out)
      <3>1. line = Len(src) + 1 /\ Len(parsed_lines) = Len(Instructions(src, line))
            /\ Len(out) = Len(parsed_lines)
        BY <1>1 DEF AllCounted, ReadInv, Stage, Filed, EncInv
      <3>. QED
        BY <3>1
    <2>5. Len(Instructions(src, s.line)) + 1 \in 1..(Len(out) + 1)
      BY <1>1, <2>2, <2>3, <2>4
    <2>6. CodeLen(out, Len(Instructions(src, s.line)) + 1) \in Nat
      BY <1>1, <2>5, CodeLenFacts
    <2>. QED
      BY <2>1, <2>6 DEF CodeLen, CodeBefore
  <1>8. s.address \in Nat
    BY <1>2 DEF Entry
  <1>9. s.address - CodeBefore(InstructionsBefore(s.line) + 1) = 0
    BY <1>5, <1>6 DEF Ahead
  <1>. QED
    BY <1>7, <1>8, <1>9

(* The counter before an instruction is the byte before its first. *)
LEMMA CounterIsOneBehind ==
    ASSUME EncInv, AllSeveral(parsed_lines), NEW k \in 1..Len(out)
    PROVE  CodeLen(out, k) \in Nat /\ Base(Counter(out, k)) = CodeLen(out, k) - 1
  <1>1. /\ out \in Seq(Seq(ByteNumbers)) /\ Len(out) \in Nat
        /\ parsed_lines \in Seq(KeptLine) /\ Len(parsed_lines) \in Nat
        /\ Len(out) <= Len(parsed_lines)
    BY LenProperties DEF EncInv, ReadInv
  <1>2. k \in 1..(Len(out) + 1) /\ CodeLen(out, k) \in Nat /\ CodeLen(out, 1) = 0
    BY <1>1, CodeLenFacts
  <1>3. CASE k = 1
    BY <1>2, <1>3 DEF Base, Counter
  <1>4. CASE k # 1
    <2>1. PICK j \in 1..Len(out) : k = j + 1
      BY <1>1, <1>4
    <2>2. CodeLen(out, j + 1) = CodeLen(out, j) + Len(out[j]) /\ CodeLen(out, j) \in Nat
      BY <1>1, <2>1, CodeLenFacts
    <2>3. parsed_lines[j] \in KeptLine /\ Several(parsed_lines[j])
      <3>1. j \in 1..Len(parsed_lines)
        BY <1>1
      <3>. QED
        BY <1>1, <3>1, ElementOfSeq DEF AllSeveral
    <2>4. Len(out[j]) \in Nat /\ Len(out[j]) >= 2
      <3> DEFINE n == Len(parsed_lines[j].args)
      <3>1. Len(out[j]) = UpToArg(parsed_lines[j], n)
        BY CodedLen
      <3>2. n \in Nat
        BY <2>3, LenProperties DEF KeptLine, ParsedLine
      <3>. HIDE DEF n
      <3>3. n \in 0..n
        BY <3>2
      <3>4. UpToArg(parsed_lines[j], n) \in Nat /\ UpToArg(parsed_lines[j], n) >= HeadLen(parsed_lines[j])
        BY <2>3, <3>3, UpToArgFacts DEF n
      <3>5. HeadLen(parsed_lines[j]) = 2
        BY <2>3 DEF HeadLen
      <3>. QED
        BY <3>1, <3>4, <3>5
    <2>5. CodeLen(out, k) >= 2
      BY <2>1, <2>2, <2>4
    <2>. QED
      BY <1>2, <1>4, <2>5 DEF Base, Counter
  <1>. QED
    BY <1>2, <1>3, <1>4

LEMMA NextTwo ==
    ASSUME NEW S, NEW s \in Seq(S), NEW at \in Nat, at + 2 <= Len(s)
    PROVE  /\ SubSeq(s, at + 1, at + 2) \in Seq(S)
           /\ Len(SubSeq(s, at + 1, at + 2)) = 2
           /\ \A b \in 1..2 : SubSeq(s, at + 1, at + 2)[b] = s[at + b]
  <1>1. PICK m \in Int, n \in Int : m = at + 1 /\ n = at + 2
    OBVIOUS
  <1>2. Len(s) \in Nat
    BY LenProperties
  <1>3. \A i \in m..n : i \in 1..Len(s)
    BY <1>1, <1>2
  <1>4. \A i \in m..n : s[i] \in S
    BY <1>3, ElementOfSeq
  <1>5. /\ SubSeq(s, m, n) \in Seq(S)
        /\ Len(SubSeq(s, m, n)) = IF m <= n THEN n - m + 1 ELSE 0
        /\ \A i \in 1..(n - m + 1) : SubSeq(s, m, n)[i] = s[m + i - 1]
    BY <1>4, SubSeqProperties
  <1>6. m <= n /\ n - m + 1 = 2 /\ \A b \in 1..2 : m + b - 1 = at + b
    BY <1>1
  <1>7. /\ SubSeq(s, m, n) \in Seq(S) /\ Len(SubSeq(s, m, n)) = 2
        /\ \A b \in 1..2 : SubSeq(s, m, n)[b] = s[at + b]
    BY <1>5, <1>6
  <1>. QED
    BY <1>1, <1>7, Zenon

(* The two bytes of a reference *)
LEMMA ReferenceWritten ==
    ASSUME EncInv, AllSeveral(parsed_lines), NEW k \in 1..Len(out),
           NEW j \in 1..Len(parsed_lines[k].args), IsReference(parsed_lines[k].args[j])
    PROVE  LET at == Place(parsed_lines[k].args, j)
               found == lookup_symbol(parsed_lines[k].args[j].name)
           IN  /\ at \in Nat /\ found \in Int
               /\ SubSeq(out[k], at + 1, at + 2)
                    = BigEndian(found - ((CodeLen(out, k) - 1) + at), 2)
  <1> DEFINE instr == parsed_lines[k]
             n == Len(instr.args)
             at == Place(instr.args, j)
             found == lookup_symbol(instr.args[j].name)
             distance == found - ((CodeLen(out, k) - 1) + at)
             code == BigEndian(distance, 2)
             bytes == out[k]
  <1>1. /\ out \in Seq(Seq(ByteNumbers)) /\ parsed_lines \in Seq(KeptLine)
        /\ symbol_table \in Seq(Entry)
        /\ k \in 1..Len(parsed_lines)
        /\ Coded(symbol_table, out, parsed_lines, k)
    BY LenProperties DEF EncInv, ReadInv, TableInv, Shapes
  <1>2. instr \in KeptLine /\ Several(instr) /\ bytes \in Seq(ByteNumbers) /\ n \in Nat
    <2>1. instr \in KeptLine
      BY <1>1, ElementOfSeq
    <2>. QED
      BY <1>1, <2>1, ElementOfSeq, LenProperties DEF AllSeveral, KeptLine, ParsedLine
  <1>3. PICK at0 \in Nat :
           /\ Written(bytes, symbol_table, instr, at0, n)
           /\ at0 = Counter(out, k)
    BY <1>1 DEF Coded
  <1>4. CodeLen(out, k) \in Nat /\ Base(at0) = CodeLen(out, k) - 1
    BY <1>3, CounterIsOneBehind
  <1>5. at = UpToArg(instr, j - 1)
    BY <1>2, PlaceIsUpTo
  <1>6. Room(instr, instr.args[j]) = 2
    BY DEF Room
  <1>7. found = Found(symbol_table, instr.args[j].name) /\ found \in Int
    BY <1>1, LookupFound, FoundType
  <1>8. Len(bytes) = UpToArg(instr, n) /\ InPlace(bytes, symbol_table, instr, at0, j)
    BY <1>3 DEF SoFar, Written
  <1>9. /\ at \in Nat /\ at + 2 <= Len(bytes) /\ Len(bytes) \in Nat
    <2>. HIDE DEF instr, n, at, bytes
    <2>1. j \in 1..n /\ j - 1 \in 0..n /\ j \in 0..n /\ n \in 0..n /\ j \in 0..n
      BY <1>2 DEF n, instr
    <2>2. /\ UpToArg(instr, j) = UpToArg(instr, j - 1) + Room(instr, instr.args[j])
          /\ UpToArg(instr, j - 1) \in Nat /\ UpToArg(instr, n) \in Nat
          /\ UpToArg(instr, j) \in Nat
      BY <1>2, <2>1, UpToArgFacts DEF n
    <2>3. UpToArg(instr, j) <= UpToArg(instr, n)
      <3>1. n \in 0..Len(instr.args)
        BY <2>1 DEF n
      <3>. QED
        BY <1>2, <2>1, <3>1, UpToArgGrows
    <2>4. Room(instr, instr.args[j]) = 2
      BY <1>6 DEF instr
    <2>. QED
      BY <1>5, <1>8, <2>2, <2>3, <2>4
  <1>10. Spelt(symbol_table, instr.args[j], Base(at0) + UpToArg(instr, j - 1)) = distance
    BY <1>4, <1>5, <1>7 DEF Spelt
  <1>11. distance \in Int
    BY <1>4, <1>7, <1>9
  <1>. HIDE DEF distance, found
  <1>12. code \in Seq(ByteNumbers) /\ Len(code) = 2
    BY <1>11, BigEndianType
  <1>13. \A b \in 1..2 : bytes[at + b] = code[b]
    BY <1>5, <1>6, <1>8, <1>10 DEF InPlace
  <1>. HIDE DEF instr, n, at, bytes, code
  <1>14. /\ SubSeq(bytes, at + 1, at + 2) \in Seq(ByteNumbers)
         /\ Len(SubSeq(bytes, at + 1, at + 2)) = 2
         /\ \A b \in 1..2 : SubSeq(bytes, at + 1, at + 2)[b] = bytes[at + b]
    BY <1>2, <1>9, NextTwo
  <1> DEFINE sub == SubSeq(bytes, at + 1, at + 2)
  <1>15. \A b \in 1..Len(sub) : sub[b] = code[b]
    BY <1>13, <1>14
  <1>16. sub \in Seq(ByteNumbers) /\ Len(sub) = Len(code)
    BY <1>12, <1>14
  <1>. HIDE DEF sub
  <1>17. sub = code
    BY <1>12, <1>15, <1>16, SeqEqual
  <1>. QED
    BY <1>7, <1>9, <1>17 DEF sub, code, distance, bytes, at, found, instr

(***************************************************************************)
(* For any source whose passes count alike, a reference is written as the   *)
(* distance from the byte before its own to the code of its label.          *)
(***************************************************************************)
THEOREM ReferencesAreDistances == Spec => []RelativeToItself
  <1>1. MarkInv => RelativeToItself
    <2> SUFFICES ASSUME MarkInv, pc = "done", size = CodeBefore(Len(out) + 1),
                        \A p \in Range1(parsed_lines) : CountedAlike(p),
                        NEW k \in DOMAIN out, NEW j \in DOMAIN parsed_lines[k].args,
                        IsReference(parsed_lines[k].args[j]),
                        Matches(parsed_lines[k].args[j].name) # {}
                 PROVE  LET at == Place(parsed_lines[k].args, j)
                            target == Target(parsed_lines[k].args[j].name)
                            label == CodeBefore(InstructionsBefore(target.line) + 1)
                        IN  SubSeq(out[k], at + 1, at + 2)
                               = BigEndian(label - (CodeBefore(k) + at - 1), 2)
      BY DEF RelativeToItself
    <2> DEFINE args == parsed_lines[k].args
               name == args[j].name
               at == Place(args, j)
               label == CodeBefore(InstructionsBefore(Target(name).line) + 1)
               before == CodeLen(out, k)
    <2>1. /\ EncInv /\ parsed_lines \in Seq(KeptLine) /\ out \in Seq(Seq(ByteNumbers))
          /\ symbol_table \in Seq(Entry) /\ Len(out) = Len(parsed_lines)
      BY DEF MarkInv, EncInv, ReadInv, TableInv, Shapes
    <2>2. /\ DOMAIN parsed_lines = 1..Len(parsed_lines) /\ DOMAIN out = 1..Len(out)
          /\ DOMAIN symbol_table = 1..Len(symbol_table) /\ k \in 1..Len(parsed_lines)
          /\ k \in 1..Len(out)
      BY <2>1, LenProperties
    <2>3. ASSUME NEW i \in 1..Len(parsed_lines)
          PROVE  Several(parsed_lines[i]) /\ ~CountedLow(parsed_lines[i])
      <3>1. parsed_lines[i] \in KeptLine /\ CountedAlike(parsed_lines[i])
        BY <2>1, <2>2, ElementOfSeq DEF Range1
      <3>. QED
        BY <3>1, AlikeIsCounted
    <2>4. AllCounted /\ AllSeveral(parsed_lines)
      BY <2>3 DEF AllCounted, AllSeveral
    <2>5. j \in 1..Len(args)
      <3>1. parsed_lines[k] \in KeptLine
        BY <2>1, <2>2, ElementOfSeq
      <3>. QED
        BY <3>1, LenProperties DEF KeptLine, ParsedLine
    <2>6. /\ at \in Nat
          /\ SubSeq(out[k], at + 1, at + 2) = BigEndian(lookup_symbol(name) - ((before - 1) + at), 2)
      BY <2>1, <2>2, <2>4, <2>5, ReferenceWritten
    <2>7. lookup_symbol(name) = Target(name).address
      BY DEF lookup_symbol, Target
    <2>8. Target(name) \in Range1(symbol_table)
      <3>1. Matches(name) \subseteq DOMAIN symbol_table /\ Matches(name) \subseteq Nat
        BY <2>2 DEF Matches
      <3>2. Min(Matches(name)) \in DOMAIN symbol_table
        BY <3>1, MinFacts
      <3>. QED
        BY <3>2 DEF Target, Range1
    <2>9. Target(name).address = label /\ label \in Nat
      <3>1. size = CodeLen(out, Len(out) + 1)
        BY DEF CodeLen, CodeBefore
      <3>. QED
        BY <2>4, <2>8, <3>1, AheadNone
    <2>10. before \in Nat /\ CodeBefore(k) = before
      <3>1. before \in Nat
        BY <2>1, <2>2, <2>4, CounterIsOneBehind
      <3>. QED
        BY <3>1 DEF CodeBefore, CodeLen
    <2>. HIDE DEF at, label, before, name
    <2>11. label - ((before - 1) + at) = label - (CodeBefore(k) + at - 1)
      BY <2>6, <2>9, <2>10
    <2>12. SubSeq(out[k], at + 1, at + 2) = BigEndian(label - (CodeBefore(k) + at - 1), 2)
      BY <2>6, <2>7, <2>9, <2>11
    <2>. QED
      BY <2>12 DEF at, label, name
  <1>. QED
    BY MarkInvariance, <1>1, PTL
=============================================================================
