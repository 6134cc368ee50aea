--------------------------- MODULE RoundTripProofs ---------------------------
(***************************************************************************)
(* Theorems about what the machine reads of the assembler's code: which     *)
(* instructions it takes for as long as they are, and with which operands.  *)
(***************************************************************************)
EXTENDS EncoderProofs, RoundTrip

-----------------------------------------------------------------------------
(* The code in memory *)

(* c is o[1] to o[m], one behind the other. *)
Joined(c, o, m) ==
    /\ c \in Seq(ByteNumbers)
    /\ Len(c) = CodeLen(o, m + 1)
    /\ \A k \in 1..m : /\ CodeLen(o, k) + Len(o[k]) <= Len(c)
                       /\ \A i \in 1..Len(o[k]) : c[CodeLen(o, k) + i] = o[k][i]

LEMMA OneJoined ==
    ASSUME NEW o \in Seq(Seq(ByteNumbers)), Len(o) >= 1
    PROVE  Joined(o[1], o, 1)
  <1>1. Len(o) \in Nat
    BY LenProperties
  <1>2. 1 \in 1..Len(o)
    BY <1>1
  <1>3. o[1] \in Seq(ByteNumbers)
    BY <1>2, ElementOfSeq
  <1>4. Len(o[1]) \in Nat
    BY <1>3, LenProperties
  <1>5. CodeLen(o, 1) = 0 /\ CodeLen(o, 1 + 1) = CodeLen(o, 1) + Len(o[1])
    BY <1>2, CodeLenFacts
  <1>6. \A k \in 1..1 : k = 1
    OBVIOUS
  <1>7. CodeLen(o, 1) + Len(o[1]) <= Len(o[1]) /\ CodeLen(o, 1 + 1) = Len(o[1])
    BY <1>4, <1>5
  <1>8. \A i \in 1..Len(o[1]) : CodeLen(o, 1) + i = i
    BY <1>4, <1>5
  <1>. QED
    BY <1>3, <1>6, <1>7, <1>8, Zenon DEF Joined

LEMMA MoreJoined ==
    ASSUME NEW o \in Seq(Seq(ByteNumbers)), NEW m \in 1..Len(o), m + 1 <= Len(o),
           NEW c, Joined(c, o, m)
    PROVE  Joined(c \o o[m + 1], o, m + 1)
  <1> DEFINE d == o[m + 1]
             all == c \o d
  <1>1. Len(o) \in Nat /\ m \in Nat /\ m + 1 \in 1..Len(o)
    BY LenProperties
  <1>2. c \in Seq(ByteNumbers) /\ d \in Seq(ByteNumbers)
    BY <1>1, ElementOfSeq DEF Joined
  <1>3. Len(c) \in Nat /\ Len(d) \in Nat
    BY <1>2, LenProperties
  <1>4. /\ all \in Seq(ByteNumbers) /\ Len(all) = Len(c) + Len(d)
        /\ \A i \in 1..(Len(c) + Len(d)) : all[i] = IF i <= Len(c) THEN c[i] ELSE d[i - Len(c)]
    BY <1>2, ConcatProperties
  <1>5. /\ CodeLen(o, (m + 1) + 1) = CodeLen(o, m + 1) + Len(d)
        /\ CodeLen(o, m + 1) = Len(c)
    BY <1>1, CodeLenFacts DEF Joined
  <1>. HIDE DEF all, d
  <1>6. ASSUME NEW k \in 1..m
        PROVE  /\ CodeLen(o, k) + Len(o[k]) <= Len(all)
               /\ \A i \in 1..Len(o[k]) : all[CodeLen(o, k) + i] = o[k][i]
    <2>1. /\ CodeLen(o, k) + Len(o[k]) <= Len(c)
          /\ \A i \in 1..Len(o[k]) : c[CodeLen(o, k) + i] = o[k][i]
      BY DEF Joined
    <2>2. k \in 1..Len(o) /\ k \in 1..(Len(o) + 1)
      BY <1>1
    <2>3. CodeLen(o, k) \in Nat
      BY <2>2, CodeLenFacts
    <2>4. o[k] \in Seq(ByteNumbers)
      BY <2>2, ElementOfSeq
    <2>5. Len(o[k]) \in Nat
      BY <2>4, LenProperties
    <2>6. CodeLen(o, k) + Len(o[k]) <= Len(all)
      <3>1. PICK x \in Nat, z \in Nat, w \in Nat :
               x = CodeLen(o, k) + Len(o[k]) /\ z = Len(c) /\ w = Len(d)
        <4>1. CodeLen(o, k) + Len(o[k]) \in Nat
          BY <2>3, <2>5
        <4>. QED
          BY <1>3, <4>1, Zenon
      <3>2. x <= z /\ Len(all) = z + w
        BY <1>4, <2>1, <3>1
      <3>. QED
        BY <3>1, <3>2
    <2>7. ASSUME NEW i \in 1..Len(o[k]) PROVE all[CodeLen(o, k) + i] = o[k][i]
      <3>1. /\ CodeLen(o, k) + i \in 1..(Len(c) + Len(d))
            /\ CodeLen(o, k) + i <= Len(c)
        <4>1. PICK x \in Nat, y \in Nat, z \in Nat, w \in Nat :
                 x = CodeLen(o, k) /\ y = Len(o[k]) /\ z = Len(c) /\ w = Len(d)
          BY <1>3, <2>3, <2>5
        <4>2. x + y <= z /\ i \in 1..y
          BY <2>1, <4>1
        <4>3. x + i \in 1..(z + w) /\ x + i <= z
          BY <4>2
        <4>. QED
          BY <4>1, <4>3, Zenon
      <3>2. all[CodeLen(o, k) + i] = c[CodeLen(o, k) + i]
        BY <1>4, <3>1, Zenon
      <3>. QED
        BY <2>1, <3>2
    <2>. QED
      BY <2>6, <2>7
  <1>7. ASSUME NEW i \in 1..Len(d) PROVE all[CodeLen(o, m + 1) + i] = d[i]
    <2>1. PICK x \in Int : x = Len(c) + i
      BY <1>3
    <2>2. x \in 1..(Len(c) + Len(d)) /\ ~(x <= Len(c)) /\ x - Len(c) = i
      BY <1>3, <2>1
    <2>3. all[x] = d[x - Len(c)]
      BY <1>4, <2>2, Zenon
    <2>. QED
      BY <1>5, <2>1, <2>2, <2>3, Zenon
  <1>8. CodeLen(o, m + 1) + Len(d) <= Len(all)
    BY <1>3, <1>4, <1>5
  <1>9. Len(all) = CodeLen(o, (m + 1) + 1)
    BY <1>4, <1>5
  <1>10. \A k \in 1..(m + 1) : k \in 1..m \/ k = m + 1
    BY <1>1
  <1>11. \A k \in 1..(m + 1) :
            /\ CodeLen(o, k) + Len(o[k]) <= Len(all)
            /\ \A i \in 1..Len(o[k]) : all[CodeLen(o, k) + i] = o[k][i]
    <2> TAKE k \in 1..(m + 1)
    <2>1. CASE k \in 1..m
      BY <1>6, <2>1
    <2>2. CASE k = m + 1
      BY <1>7, <1>8, <2>2, Zenon DEF d
    <2>. QED
      BY <1>10, <2>1, <2>2
  <1>12. Joined(all, o, m + 1)
    BY <1>4, <1>9, <1>11, Zenon DEF Joined
  <1>. QED
    BY <1>12 DEF all, d

LEMMA CodeJoined ==
    ASSUME NEW o \in Seq(Seq(ByteNumbers))
    PROVE  Joined(FlattenSeq(o), o, Len(o))
  <1> DEFINE n == Len(o)
  <1>1. n \in Nat
    BY LenProperties
  <1>2. CASE n = 0
    <2>1. FlattenSeq(o) = o /\ o = <<>>
      BY <1>2, EmptySeq DEF FlattenSeq
    <2>2. <<>> \in Seq(ByteNumbers) /\ Len(<<>>) = 0
      BY EmptySeq
    <2>3. CodeLen(o, 0 + 1) = 0
      BY CodeLenFacts
    <2>4. \A k \in 1..0 : FALSE
      OBVIOUS
    <2>. QED
      BY <1>2, <2>1, <2>2, <2>3, <2>4, Zenon DEF Joined
  <1>3. CASE n # 0
    <2> DEFINE f == CHOOSE g : Concatenates(g, o, n)
               S == {m \in Nat : m \in 1..n => Joined(f[m], o, m)}
    <2>1. Concatenates(f, o, n)
      BY <1>1, ConcatenationExists
    <2>2. FlattenSeq(o) = f[n]
      BY <1>3 DEF FlattenSeq, Concatenates
    <2>. HIDE DEF f
    <2>3. \A i \in 1..n : f[i] = IF i = 1 THEN o[1] ELSE f[i - 1] \o o[i]
      BY <2>1, Zenon DEF Concatenates
    <2>. HIDE DEF n
    <2>4. 0 \in S
      OBVIOUS
    <2>5. ASSUME NEW m \in Nat, m \in S PROVE m + 1 \in S
      <3> SUFFICES ASSUME m + 1 \in 1..n PROVE Joined(f[m + 1], o, m + 1)
        OBVIOUS
      <3>1. CASE m = 0
        <4>1. f[1] = o[1] /\ m + 1 = 1 /\ n >= 1
          BY <1>1, <2>3, <3>1
        <4>. QED
          BY <4>1, OneJoined DEF n
      <3>2. CASE m # 0
        <4>1. m \in 1..n /\ m + 1 # 1 /\ (m + 1) - 1 = m /\ m + 1 <= n
          BY <1>1, <3>2
        <4>2. f[m + 1] = f[m] \o o[m + 1]
          BY <2>3, <4>1
        <4>3. Joined(f[m], o, m)
          BY <2>5, <4>1
        <4>4. Joined(f[m] \o o[m + 1], o, m + 1)
          BY <4>1, <4>3, MoreJoined DEF n
        <4>. QED
          BY <4>2, <4>4
      <3>. QED
        BY <3>1, <3>2
    <2>. HIDE DEF S
    <2>6. n \in S
      BY <1>1, <2>4, <2>5, Counting
    <2>7. n \in 1..n
      BY <1>1, <1>3
    <2>8. Joined(f[n], o, n)
      BY <2>6, <2>7 DEF S
    <2>. QED
      BY <2>2, <2>8 DEF n
  <1>. QED
    BY <1>2, <1>3

LEMMA CodeCell ==
    ASSUME NEW k \in 1..Len(out), NEW i \in 1..Len(out[k]), out \in Seq(Seq(ByteNumbers))
    PROVE  /\ out[k][i] \in ByteNumbers
           /\ Cell(Loaded, CodeLen(out, k) + (i - 1)) = out[k][i]
           /\ Byte(Loaded, CodeLen(out, k) + (i - 1)) = out[k][i]
  <1> DEFINE code == FlattenSeq(out)
  <1>1. Joined(code, out, Len(out))
    BY CodeJoined
  <1>2. Len(out) \in Nat /\ k \in 1..(Len(out) + 1)
    BY LenProperties
  <1>3. out[k] \in Seq(ByteNumbers)
    BY ElementOfSeq
  <1>4. /\ code \in Seq(ByteNumbers)
        /\ CodeLen(out, k) + Len(out[k]) <= Len(code)
        /\ code[CodeLen(out, k) + i] = out[k][i]
    BY <1>1 DEF Joined
  <1>5. PICK x \in Nat, y \in Nat, z \in Nat :
           x = CodeLen(out, k) /\ y = Len(out[k]) /\ z = Len(code)
    BY <1>2, <1>3, <1>4, CodeLenFacts, LenProperties
  <1>6. i \in 1..y /\ x + y <= z
    BY <1>4, <1>5
  <1>7. x + (i - 1) \in 0..(z - 1) /\ (x + (i - 1)) + 1 = x + i
    BY <1>6
  <1>8. Loaded = [a \in 0..(z - 1) |-> code[a + 1]]
    BY <1>5 DEF Loaded
  <1>9. x + (i - 1) \in DOMAIN Loaded /\ Loaded[x + (i - 1)] = code[x + i]
    BY <1>7, <1>8
  <1>10. Cell(Loaded, x + (i - 1)) = out[k][i]
    BY <1>4, <1>5, <1>9, Zenon DEF Cell
  <1>11. out[k][i] \in ByteNumbers
    BY <1>3, ElementOfSeq
  <1>12. Byte(Loaded, x + (i - 1)) = out[k][i]
    <2>1. out[k][i] # Blank
      <3>1. PICK e \in Nat : e = out[k][i]
        <4>1. ByteNumbers \subseteq Nat
          BY DEF ByteNumbers
        <4>. QED
          BY <1>11, <4>1, Zenon
      <3>. QED
        BY <3>1 DEF Blank
    <2>. QED
      BY <1>10, <2>1, Zenon DEF Byte
  <1>. QED
    BY <1>5, <1>10, <1>11, <1>12

(* Behind the last instruction nothing is loaded. *)
LEMMA NothingBehind ==
    ASSUME out \in Seq(Seq(ByteNumbers))
    PROVE  Byte(Loaded, CodeLen(out, Len(out) + 1)) = 0
  <1>1. Joined(FlattenSeq(out), out, Len(out))
    BY CodeJoined
  <1>2. PICK z \in Nat : z = Len(FlattenSeq(out)) /\ z = CodeLen(out, Len(out) + 1)
    BY <1>1, LenProperties DEF Joined
  <1>3. Loaded = [a \in 0..(z - 1) |-> FlattenSeq(out)[a + 1]]
    BY <1>2 DEF Loaded
  <1>4. z \notin DOMAIN Loaded
    BY <1>3
  <1>. QED
    BY <1>2, <1>4 DEF Byte, Cell

-----------------------------------------------------------------------------
(* Types and values *)

TypeOfCode(c) == IF c = 1 THEN "T_REG" ELSE IF c = 2 THEN "T_DIR" ELSE "T_IND"

(* The description tells the machine what the encoder took each argument for. *)
LEMMA DescriptionRead ==
    ASSUME NEW args \in Seq(Lexemes), Len(args) \in {2, 3}, NEW j \in 1..Len(args)
    PROVE  ArgType(Description(args), j) = TypeOfCode(Code(args[j]))
  <1> DEFINE v == [i \in DOMAIN args |-> Code(args[i]) * <<64, 16, 4, 1>>[i]]
             n == Len(args)
             d == Description(args)
  <1>1. DOMAIN args = 1..n
    BY LenProperties
  <1>2. \A arg : Code(arg) \in {1, 2, 3}
    BY DEF Code
  <1>3. /\ v[1] = Code(args[1]) * 64
        /\ v[2] = Code(args[2]) * 16
        /\ n = 3 => v[3] = Code(args[3]) * 4
    BY <1>1
  <1>4. d = Total(v, n)
    BY DEF Description
  <1>5. PICK a, b, c : /\ a = v[1] /\ b = v[2] /\ c = v[3]
                       /\ Total(v, 0) = 0 /\ Total(v, 1) = 0 + a
                       /\ Total(v, 2) = Total(v, 1) + b /\ Total(v, 3) = Total(v, 2) + c
    BY ThreeTotal
  <1>6. n \in {2, 3} /\ j \in 1..n
    OBVIOUS
  <1>. HIDE DEF v, n, d
  <1>7. PICK x \in {1, 2, 3}, y \in {1, 2, 3}, z \in {1, 2, 3} :
           x = Code(args[1]) /\ y = Code(args[2]) /\ z = Code(args[3])
    BY <1>2
  <1>8. Total(v, 2) = x * 64 + y * 16
    <2>1. a = x * 64 /\ b = y * 16
      BY <1>3, <1>5, <1>7, Zenon
    <2>. QED
      BY <1>5, <2>1
  <1>9. PICK w \in {0, 1, 2, 3} : d = x * 64 + y * 16 + w * 4 /\ (n = 3 => w = z)
    <2>1. CASE n = 2
      <3>1. d = x * 64 + y * 16 + 0 * 4
        BY <1>4, <1>8, <2>1
      <3>. QED
        BY <2>1, <3>1
    <2>2. CASE n = 3
      <3>1. c = z * 4
        BY <1>3, <1>5, <1>7, <2>2, Zenon
      <3>2. d = x * 64 + y * 16 + z * 4
        BY <1>4, <1>5, <1>8, <2>2, <3>1
      <3>. QED
        BY <2>2, <3>2
    <2>. QED
      BY <2>1, <2>2 DEF n
  <1>10. /\ (d \div 64) % 4 = x /\ (d \div 16) % 4 = y /\ (d \div 4) % 4 = w
    BY <1>9
  <1>11. ASSUME NEW c2 \in {1, 2, 3}, (d \div <<64, 16, 4, 1>>[j]) % 4 = c2
         PROVE  ArgType(d, j) = TypeOfCode(c2)
    <2>1. PICK c3 \in {1, 2, 3} : c3 = (d \div <<64, 16, 4, 1>>[j]) % 4 /\ c3 = c2
      BY <1>11, Zenon
    <2>. QED
      BY <2>1 DEF ArgType, TypeOfCode
  <1>12. (d \div <<64, 16, 4, 1>>[j]) % 4 = Code(args[j]) /\ Code(args[j]) \in {1, 2, 3}
    <2>1. CASE j = 1
      BY <1>7, <1>10, <2>1
    <2>2. CASE j = 2
      BY <1>7, <1>10, <2>2
    <2>3. CASE j = 3
      <3>1. n = 3
        BY <1>6, <2>3
      <3>. QED
        BY <1>7, <1>9, <1>10, <2>3, <3>1
    <2>4. j \in {1, 2, 3}
      <3>1. PICK m \in {2, 3} : m = Len(args)
        BY Zenon
      <3>2. j \in 1..m
        BY <3>1, Zenon
      <3>. QED
        BY <3>2
    <2>. QED
      BY <2>1, <2>2, <2>3, <2>4
  <1>. QED
    BY <1>11, <1>12 DEF d

(* What the machine makes of the bytes of a number: their sum. *)
ByteSum(v, width) ==
    LET b(i) == IF i <= width THEN BigEndian(v, width)[i] ELSE 0
    IN  b(1) + b(2) + b(3) + b(4)

(* It is the number exactly if that is one byte, and never more than it. *)
LEMMA ByteSumFacts ==
    ASSUME NEW v \in Int, NEW width \in {1, 2, 4}
    PROVE  /\ ByteSum(v, width) \in Nat
           /\ ByteSum(v, width) = v <=> v \in ByteNumbers
           /\ v >= 0 => ByteSum(v, width) <= v
  <1> DEFINE Digit(w) == (v \div w) % 256
  <1>1. \A w \in Nat \ {0} : Digit(w) \in 0..255
    <2> TAKE w \in Nat \ {0}
    <2>1. v \div w \in Int
      BY SMT
    <2>. QED
      BY <2>1, SMT
  <1>2. PICK d \in 0..255, c \in 0..255 : d = v % 256 /\ c = Digit(256)
    <2>1. v % 256 \in 0..255 /\ Digit(256) \in 0..255
      BY <1>1, SMT
    <2>. QED
      BY <2>1, Zenon
  <1>. HIDE DEF Digit
  <1>3. v \in ByteNumbers <=> v \in 0..255
    BY DEF ByteNumbers
  <1>4. PICK q \in Int : q = v \div 256 /\ v = 256 * q + d
    <2>1. v \div 256 \in Int /\ v = 256 * (v \div 256) + d
      BY <1>2, SMT
    <2>. QED
      BY <2>1, Zenon
  <1>5. (d = v <=> v \in 0..255) /\ (v >= 0 => d <= v)
    BY <1>4, SMT
  <1>6. /\ v \in 0..1020 => v = 256 * c + d
        /\ v \in 0..255 => c = 0
    <2>1. c = q % 256
      BY <1>2, <1>4, Zenon DEF Digit
    <2>2. v \in 0..1020 => q \in 0..3
      BY <1>4, SMT
    <2>3. v \in 0..255 => q = 0
      BY <1>4, SMT
    <2>4. q \in 0..3 => q % 256 = q
      BY SMT
    <2>5. v \in 0..1020 => c = q
      BY <2>1, <2>2, <2>4
    <2>6. v \in 0..1020 => v = 256 * c + d
      BY <1>4, <2>5
    <2>7. v \in 0..255 => v \in 0..1020
      BY SMT
    <2>8. v \in 0..255 => c = 0
      BY <2>3, <2>5, <2>7
    <2>. QED
      BY <2>6, <2>8
  <1>7. v \div 1 = v
    BY SMT
  <1>8. CASE width = 1
    <2>1. BigEndian(v, 1)[1] = d
      BY <1>2, <1>7, SMT DEF BigEndian, ByteWeights
    <2>2. ByteSum(v, 1) = d + 0 + 0 + 0
      BY <2>1, SMT DEF ByteSum
    <2>3. d + 0 + 0 + 0 = d
      OBVIOUS
    <2>. QED
      BY <1>3, <1>5, <1>8, <2>2, <2>3, SMT
  <1>9. CASE width = 2
    <2>1. BigEndian(v, 2)[1] = c /\ BigEndian(v, 2)[2] = d
      BY <1>2, <1>7, SMT DEF BigEndian, ByteWeights, Digit
    <2>2. ByteSum(v, 2) = c + d + 0 + 0
      BY <2>1, SMT DEF ByteSum
    <2>. QED
      BY <1>3, <1>6, <1>9, <2>2, SMT
  <1>10. CASE width = 4
    <2>1. PICK w \in Nat \ {0}, u \in Nat \ {0} : w = ByteWeights[1] /\ u = ByteWeights[2]
      BY SMT DEF ByteWeights
    <2>2. PICK x \in 0..255, y \in 0..255 : x = Digit(w) /\ y = Digit(u)
      <3>1. Digit(w) \in 0..255 /\ Digit(u) \in 0..255
        BY <1>1, SMT
      <3>. QED
        BY <3>1, Zenon
    <2>3. v \in 0..1020 => x = 0 /\ y = 0
      BY <2>1, <2>2, SMT DEF Digit, ByteWeights
    <2>4. /\ BigEndian(v, 4)[1] = x /\ BigEndian(v, 4)[2] = y
          /\ BigEndian(v, 4)[3] = c /\ BigEndian(v, 4)[4] = d
      BY <1>2, <1>7, <2>1, <2>2, SMT DEF BigEndian, ByteWeights, Digit
    <2>5. ByteSum(v, 4) = x + y + c + d
      BY <2>4, SMT DEF ByteSum
    <2>. QED
      BY <1>3, <1>6, <1>10, <2>3, <2>5, SMT
  <1>. QED
    BY <1>8, <1>9, <1>10

(* Without its first digit a number is less, and never more than it was. *)
LEMMA WithoutFirstFacts ==
    ASSUME NEW n \in Int
    PROVE  /\ WithoutFirst(n) \in Nat
           /\ n > 0 => WithoutFirst(n) < n
           /\ n <= 0 => WithoutFirst(n) = -n
  <1>1. CASE n <= 0
    BY <1>1 DEF WithoutFirst
  <1>2. CASE ~(n <= 0)
    <2> DEFINE S == {p \in Tens : p <= n}
    <2>1. 1 \in S /\ S \subseteq Nat \ {0} /\ n \in Nat
      BY <1>2 DEF Tens
    <2>2. \E m \in S : \A x \in S : x <= m
      BY <2>1 DEF Tens
    <2>3. WithoutFirst(n) = n % Max(S)
      BY <1>2 DEF WithoutFirst
    <2>4. \A p \in S : p <= n
      OBVIOUS
    <2>. HIDE DEF S
    <2>5. Max(S) \in S
      BY <2>1, <2>2, MaxFacts
    <2>6. PICK p \in Nat \ {0} : p = Max(S) /\ p <= n
      BY <2>1, <2>4, <2>5
    <2>7. n % p \in 0..(p - 1)
      BY <2>1, <2>6
    <2>. QED
      BY <1>2, <2>1, <2>3, <2>6, <2>7
  <1>. QED
    BY <1>1, <1>2

-----------------------------------------------------------------------------
(* An instruction in the code *)

(* What is written for its j-th argument, s, stands where it belongs. *)
ArgumentAt(k, j, s) ==
    LET instr == parsed_lines[k]
        arg == instr.args[j]
    IN  /\ s \in Int
        /\ IsReference(arg) \/ s = AtoiBehindFirst(arg)
        /\ \A b \in 1..Room(instr, arg) :
              out[k][UpToArg(instr, j - 1) + b] = BigEndian(s, Room(instr, arg))[b]

LEMMA InstructionWritten ==
    ASSUME EncInv, pc = "done", NEW k \in 1..Len(out)
    PROVE  /\ out \in Seq(Seq(ByteNumbers)) /\ out[k] \in Seq(ByteNumbers)
           /\ parsed_lines[k] \in KeptLine
           /\ parsed_lines[k].args \in Seq(Lexemes)
           /\ Len(parsed_lines[k].args) \in Nat
           /\ out[k][1] = Opcode(parsed_lines[k].opcode)
           /\ Several(parsed_lines[k]) => out[k][2] = Description(parsed_lines[k].args)
           /\ Len(out[k]) = UpToArg(parsed_lines[k], Len(parsed_lines[k].args))
           /\ \A j \in 1..Len(parsed_lines[k].args) : \E s : ArgumentAt(k, j, s)
  <1> DEFINE instr == parsed_lines[k]
             args == instr.args
             n == Len(args)
  <1>1. /\ out \in Seq(Seq(ByteNumbers)) /\ parsed_lines \in Seq(KeptLine)
        /\ symbol_table \in Seq(Entry) /\ Len(out) = Len(parsed_lines)
        /\ Coded(symbol_table, out, parsed_lines, k)
    BY DEF EncInv, ReadInv, TableInv, Shapes
  <1>2. instr \in KeptLine /\ out[k] \in Seq(ByteNumbers)
    BY <1>1, ElementOfSeq
  <1>3. args \in Seq(Lexemes)
    BY <1>2 DEF KeptLine, ParsedLine
  <1>4. n \in Nat
    BY <1>3, LenProperties
  <1>5. PICK at \in Nat : Written(out[k], symbol_table, instr, at, n)
    BY <1>1 DEF Coded
  <1>6. ASSUME NEW j \in 1..n PROVE \E s : ArgumentAt(k, j, s)
    <2> DEFINE before == UpToArg(instr, j - 1)
               s == Spelt(symbol_table, args[j], Base(at) + before)
    <2>1. args[j] \in Lexemes
      BY <1>3, ElementOfSeq
    <2>2. before \in Nat
      <3>1. j - 1 \in 0..Len(instr.args)
        BY <1>4
      <3>. QED
        BY <1>2, <3>1, UpToArgFacts
    <2>3. Base(at) + before \in Int
      BY <2>2 DEF Base
    <2>4. s \in Int
      BY <1>1, <2>1, <2>3, SpeltType
    <2>5. InPlace(out[k], symbol_table, instr, at, j)
      BY <1>5 DEF Written
    <2>6. \A b \in 1..Room(instr, args[j]) : out[k][before + b] = BigEndian(s, Room(instr, args[j]))[b]
      BY <2>5 DEF InPlace
    <2>7. IsReference(args[j]) \/ s = AtoiBehindFirst(args[j])
      BY DEF Spelt
    <2>8. ArgumentAt(k, j, s)
      BY <2>4, <2>6, <2>7, Zenon DEF ArgumentAt
    <2>. QED
      BY <2>8
  <1>7. /\ out[k][1] = Opcode(instr.opcode)
        /\ Several(instr) => out[k][2] = Description(args)
        /\ Len(out[k]) = UpToArg(instr, n)
    BY <1>5 DEF Written
  <1>. QED
    BY <1>1, <1>2, <1>3, <1>4, <1>6, <1>7

(* Where its j-th argument begins and ends. *)
LEMMA ArgumentBounds ==
    ASSUME EncInv, pc = "done", NEW k \in 1..Len(out),
           NEW j \in 1..Len(parsed_lines[k].args)
    PROVE  LET instr == parsed_lines[k]
           IN  /\ UpToArg(instr, j - 1) \in Nat /\ UpToArg(instr, j) \in Nat
               /\ UpToArg(instr, j) = UpToArg(instr, j - 1) + Room(instr, instr.args[j])
               /\ UpToArg(instr, j) <= Len(out[k])
               /\ Len(out[k]) \in Nat
  <1> DEFINE instr == parsed_lines[k]
             n == Len(instr.args)
  <1>1. /\ instr \in KeptLine /\ n \in Nat /\ Len(out[k]) = UpToArg(instr, n)
        /\ out[k] \in Seq(ByteNumbers)
    BY InstructionWritten
  <1>2. j - 1 \in 0..n /\ j \in 0..n /\ n \in 0..n
    BY <1>1
  <1>3. Len(out[k]) \in Nat
    BY <1>1, LenProperties
  <1>. HIDE DEF instr
  <1>4. /\ UpToArg(instr, j - 1) \in Nat /\ UpToArg(instr, j) \in Nat
        /\ UpToArg(instr, j) = UpToArg(instr, j - 1) + Room(instr, instr.args[j])
    BY <1>1, <1>2, UpToArgFacts DEF instr
  <1>5. UpToArg(instr, j) <= UpToArg(instr, n)
    BY <1>1, <1>2, UpToArgGrows
  <1>. QED
    BY <1>1, <1>3, <1>4, <1>5 DEF instr

(* The value the machine reads in its place, as wide as it is. *)
LEMMA ArgumentReadBack ==
    ASSUME EncInv, pc = "done", NEW k \in 1..Len(out),
           NEW j \in 1..Len(parsed_lines[k].args), NEW s, ArgumentAt(k, j, s)
    PROVE  LET instr == parsed_lines[k]
               width == Room(instr, instr.args[j])
           IN  GetValue(Loaded, width, CodeLen(out, k) + UpToArg(instr, j - 1)) = ByteSum(s, width)
  <1> DEFINE instr == parsed_lines[k]
             width == Room(instr, instr.args[j])
             before == UpToArg(instr, j - 1)
             a == CodeLen(out, k) + before
             b(i) == IF i <= width THEN BigEndian(s, width)[i] ELSE 0
  <1>1. /\ out \in Seq(Seq(ByteNumbers)) /\ out[k] \in Seq(ByteNumbers)
        /\ before \in Nat /\ before + width <= Len(out[k]) /\ Len(out[k]) \in Nat
    BY InstructionWritten, ArgumentBounds
  <1>2. width \in {1, 2, 4}
    BY RoomType
  <1>3. CodeLen(out, k) \in Nat
    <2>1. Len(out) \in Nat /\ k \in 1..(Len(out) + 1)
      BY <1>1, LenProperties
    <2>. QED
      BY <1>1, <2>1, CodeLenFacts
  <1>4. ASSUME NEW i \in {0, 1, 2, 3}, i < width
        PROVE  Byte(Loaded, a + i) = BigEndian(s, width)[i + 1]
    <2>1. /\ before + (i + 1) \in 1..Len(out[k]) /\ i + 1 \in 1..width
          /\ CodeLen(out, k) + ((before + (i + 1)) - 1) = a + i
      <3>1. PICK x \in Nat, y \in Nat, z \in Nat, w \in Nat :
               x = CodeLen(out, k) /\ y = before /\ z = Len(out[k]) /\ w = width
        BY <1>1, <1>2, <1>3
      <3>2. y + w <= z /\ i < w
        BY <1>1, <1>4, <3>1
      <3>3. /\ y + (i + 1) \in 1..z /\ i + 1 \in 1..w
            /\ x + ((y + (i + 1)) - 1) = (x + y) + i
        BY <3>2
      <3>. QED
        BY <3>1, <3>3, Zenon
    <2>2. Byte(Loaded, a + i) = out[k][before + (i + 1)]
      BY <1>1, <2>1, CodeCell
    <2>3. out[k][before + (i + 1)] = BigEndian(s, width)[i + 1]
      BY <2>1 DEF ArgumentAt
    <2>. QED
      BY <2>2, <2>3
  <1>. HIDE DEF a, width
  <1> DEFINE byte(i) == IF i < width THEN Byte(Loaded, a + i) ELSE 0
  <1>5. byte(0) = b(1) /\ byte(1) = b(2) /\ byte(2) = b(3) /\ byte(3) = b(4)
    <2>1. ASSUME NEW i \in {0, 1, 2, 3} PROVE byte(i) = b(i + 1)
      <3>1. i < width <=> i + 1 <= width
        BY <1>2
      <3>. QED
        BY <1>4, <3>1
    <2>2. byte(0) = b(0 + 1) /\ byte(1) = b(1 + 1) /\ byte(2) = b(2 + 1) /\ byte(3) = b(3 + 1)
      BY <2>1
    <2>3. 0 + 1 = 1 /\ 1 + 1 = 2 /\ 2 + 1 = 3 /\ 3 + 1 = 4
      OBVIOUS
    <2>. QED
      BY <2>2, <2>3
  <1>6. GetValue(Loaded, width, a) = byte(0) + byte(1) + byte(2) + byte(3)
    BY DEF GetValue
  <1>7. ByteSum(s, width) = b(1) + b(2) + b(3) + b(4)
    BY DEF ByteSum
  <1>. HIDE DEF byte, b
  <1>8. GetValue(Loaded, width, a) = ByteSum(s, width)
    BY <1>5, <1>6, <1>7
  <1>. QED
    BY <1>8 DEF a, width

-----------------------------------------------------------------------------
(* An instruction of several arguments *)

LEMMA TwoZeros ==
    ASSUME NEW S, NEW s \in Seq(S), NEW at \in Nat, at + 2 <= Len(s), 0 \in S
    PROVE  SubSeq(s, at + 1, at + 2) = <<0, 0>> <=> s[at + 1] = 0 /\ s[at + 2] = 0
  <1> DEFINE sub == SubSeq(s, at + 1, at + 2)
             zeros == <<0, 0>>
  <1>1. /\ sub \in Seq(S) /\ Len(sub) = 2
        /\ sub[1] = s[at + 1] /\ sub[2] = s[at + 2]
    BY NextTwo
  <1>2. zeros \in Seq(S) /\ Len(zeros) = 2 /\ zeros[1] = 0 /\ zeros[2] = 0
    OBVIOUS
  <1>. HIDE DEF sub, zeros
  <1>3. ASSUME sub[1] = 0, sub[2] = 0 PROVE sub = zeros
    <2>1. \A i \in 1..2 : sub[i] = zeros[i]
      BY <1>2, <1>3
    <2>. QED
      BY <1>1, <1>2, <2>1, SeqEqual
  <1>4. sub = zeros <=> s[at + 1] = 0 /\ s[at + 2] = 0
    BY <1>1, <1>2, <1>3
  <1>. QED
    BY <1>4 DEF sub, zeros

(* In step, an argument is read in as many bytes as it has. *)
LEMMA WidthRead ==
    ASSUME EncInv, pc = "done", NEW k \in 1..Len(out), InStep(k), Several(parsed_lines[k]),
           NEW j \in 1..Len(parsed_lines[k].args)
    PROVE  LET instr == parsed_lines[k]
           IN  Width(Loaded, TypeOfCode(Code(instr.args[j])),
                     CodeLen(out, k) + UpToArg(instr, j - 1)) = Room(instr, instr.args[j])
  <1> DEFINE instr == parsed_lines[k]
             args == instr.args
             arg == args[j]
             before == UpToArg(instr, j - 1)
             a == CodeLen(out, k) + before
  <1>1. /\ instr \in KeptLine /\ args \in Seq(Lexemes) /\ Len(args) \in Nat
        /\ out \in Seq(Seq(ByteNumbers)) /\ out[k] \in Seq(ByteNumbers)
    BY InstructionWritten
  <1>2. before \in Nat /\ before + Room(instr, arg) <= Len(out[k]) /\ Len(out[k]) \in Nat
    BY ArgumentBounds
  <1>3. Place(args, j) = before
    BY <1>1, PlaceIsUpTo
  <1>4. Room(instr, arg) = WidthInCode(arg)
    BY DEF Room, WidthInCode, IsReference
  <1>5. CodeLen(out, k) \in Nat
    <2>1. Len(out) \in Nat /\ k \in 1..(Len(out) + 1)
      BY <1>1, LenProperties
    <2>. QED
      BY <1>1, <2>1, CodeLenFacts
  <1>6. CASE Code(arg) = 1
    <2>1. arg.kind = "register"
      BY <1>6 DEF Code
    <2>. QED
      <3>1. WidthInCode(arg) = 1 /\ TypeOfCode(Code(arg)) = "T_REG"
        <4>1. WidthInCode(arg) = 1
          BY <2>1 DEF WidthInCode, IsReference
        <4>2. TypeOfCode(1) = "T_REG"
          BY DEF TypeOfCode
        <4>. QED
          BY <1>6, <4>1, <4>2
      <3>2. Width(Loaded, "T_REG", a) = 1
        BY DEF Width
      <3>. QED
        BY <1>4, <3>1, <3>2
  <1>7. CASE Code(arg) = 3
    <2>1. arg.kind = "number"
      BY <1>7 DEF Code
    <2>. QED
      <3>1. WidthInCode(arg) = 4 /\ TypeOfCode(Code(arg)) = "T_IND"
        BY <1>7, <2>1 DEF TypeOfCode, WidthInCode, IsReference
      <3>2. Width(Loaded, "T_IND", a) = 4
        BY DEF Width
      <3>. QED
        BY <1>4, <3>1, <3>2
  <1>8. CASE Code(arg) = 2
    <2>1. arg.kind # "register"
      BY <1>8 DEF Code
    <2>2. WidthInCode(arg) \in {2, 4}
      BY <2>1 DEF WidthInCode
    <2>3. before + 2 <= Len(out[k])
      BY <1>2, <1>4, <2>2
    <2>4. LooksLong(k, j) <=> out[k][before + 1] = 0 /\ out[k][before + 2] = 0
      <3>1. 0 \in ByteNumbers
        BY DEF ByteNumbers
      <3>. HIDE DEF before
      <3>2. SubSeq(out[k], before + 1, before + 2) = <<0, 0>>
               <=> out[k][before + 1] = 0 /\ out[k][before + 2] = 0
        BY <1>1, <1>2, <2>3, <3>1, TwoZeros
      <3>. QED
        BY <1>3, <3>2 DEF LooksLong, Args
    <2>5. WidthInCode(arg) = 4 <=> LooksLong(k, j)
      <3>1. j \in DOMAIN args
        BY <1>1, LenProperties
      <3>2. Len(args) # 1
        <4>1. PICK x \in Nat : x = Len(args) /\ x > 1
          BY <1>1, Zenon DEF Several
        <4>2. x # 1
          <5>1. x > 1
            BY <4>1, Zenon
          <5>. QED
            BY <5>1
        <4>. QED
          BY <4>1, <4>2, Zenon
      <3>. QED
        BY <1>8, <3>1, <3>2 DEF InStep, Args
    <2>6. Cell(Loaded, a) = out[k][before + 1] /\ Cell(Loaded, a + 1) = out[k][before + 2]
      <3>1. PICK x \in Nat, y \in Nat, z \in Nat :
               x = CodeLen(out, k) /\ y = before /\ z = Len(out[k])
        BY <1>2, <1>5
      <3>2. y + 2 <= z
        BY <2>3, <3>1
      <3>3. /\ y + 1 \in 1..z /\ y + 2 \in 1..z
            /\ x + ((y + 1) - 1) = x + y /\ x + ((y + 2) - 1) = (x + y) + 1
        BY <3>2
      <3>4. /\ Cell(Loaded, CodeLen(out, k) + ((y + 1) - 1)) = out[k][y + 1]
            /\ Cell(Loaded, CodeLen(out, k) + ((y + 2) - 1)) = out[k][y + 2]
        BY <1>1, <3>1, <3>3, CodeCell
      <3>. QED
        BY <3>1, <3>3, <3>4, Zenon
    <2>7. Width(Loaded, "T_DIR", a) = IF LooksLong(k, j) THEN 4 ELSE 2
      BY <2>4, <2>6 DEF Width
    <2>8. TypeOfCode(Code(arg)) = "T_DIR"
      BY <1>8 DEF TypeOfCode
    <2>. HIDE DEF a
    <2>9. Width(Loaded, "T_DIR", a) = Room(instr, arg)
      BY <1>4, <2>2, <2>5, <2>7
    <2>. QED
      BY <2>8, <2>9 DEF a
  <1>9. Code(arg) \in {1, 2, 3}
    BY DEF Code
  <1>. QED
    BY <1>6, <1>7, <1>8, <1>9

(* In step, it is read to its end, with the values of its bytes. *)
LEMMA SeveralRead ==
    ASSUME EncInv, pc = "done", NEW k \in 1..Len(out), InStep(k), Several(parsed_lines[k])
    PROVE  LET instr == parsed_lines[k]
           IN  /\ ReadBack(k).end = CodeLen(out, k + 1)
               /\ \A j \in 1..Len(instr.args) :
                     ReadBack(k).args[j] = GetValue(Loaded, Room(instr, instr.args[j]),
                                                    CodeLen(out, k) + UpToArg(instr, j - 1))
  <1> DEFINE instr == parsed_lines[k]
             args == instr.args
             n == Len(args)
             c == CodeLen(out, k)
             a == c + 1
             type == [j \in 1..3 |-> ArgType(Byte(Loaded, a), j)]
             second == a + 1 + Width(Loaded, type[1], a + 1)
             third == second + Width(Loaded, type[2], second)
             fourth == third + Width(Loaded, type[3], third)
             start == <<a + 1, second, third, fourth>>
  <1>1. /\ instr \in KeptLine /\ args \in Seq(Lexemes) /\ n \in Nat
        /\ out \in Seq(Seq(ByteNumbers)) /\ out[k] \in Seq(ByteNumbers)
        /\ out[k][2] = Description(args) /\ Len(out[k]) = UpToArg(instr, n)
    BY InstructionWritten
  <1>2. n = NbrArgs(instr.opcode) /\ n \in {2, 3}
    <2>1. n = NbrArgs(instr.opcode)
      BY DEF InStep, Args
    <2>2. n > 1
      BY DEF Several
    <2>3. NbrArgs(instr.opcode) \in {1, 2, 3}
      BY DEF NbrArgs
    <2>. QED
      BY <2>1, <2>2, <2>3
  <1>3. c \in Nat /\ CodeLen(out, k + 1) = c + Len(out[k])
    <2>1. Len(out) \in Nat /\ k \in 1..(Len(out) + 1)
      BY <1>1, LenProperties
    <2>. QED
      BY <1>1, <2>1, CodeLenFacts
  <1>4. UpToArg(instr, 0) = 2
    BY <1>1, UpToArgFacts DEF HeadLen
  <1>5. Byte(Loaded, a) = Description(args)
    <2>1. UpToArg(instr, 1 - 1) \in Nat /\ UpToArg(instr, 1) \in Nat /\ Len(out[k]) \in Nat
          /\ UpToArg(instr, 1) = UpToArg(instr, 1 - 1) + Room(instr, args[1])
          /\ UpToArg(instr, 1) <= Len(out[k])
      <3>1. 1 \in 1..n
        BY <1>2
      <3>. QED
        BY <3>1, ArgumentBounds
    <2>2. Room(instr, args[1]) \in Nat
      BY RoomType
    <2>3. 1 - 1 = 0
      OBVIOUS
    <2>4. 2 \in 1..Len(out[k]) /\ 2 - 1 = 1
      BY <1>4, <2>1, <2>2, <2>3
    <2>5. Byte(Loaded, CodeLen(out, k) + (2 - 1)) = out[k][2]
      BY <1>1, <2>4, CodeCell
    <2>. QED
      BY <1>1, <2>4, <2>5
  <1>. HIDE DEF n, c, args
  <1>6. \A j \in 1..n : type[j] = TypeOfCode(Code(args[j]))
    <2> TAKE j \in 1..n
    <2>1. j \in 1..3
      BY <1>2
    <2>2. ArgType(Description(args), j) = TypeOfCode(Code(args[j]))
      BY <1>1, <1>2, DescriptionRead DEF n
    <2>. QED
      BY <1>5, <2>1, <2>2
  <1>. HIDE DEF type, instr
  <1>7. ASSUME NEW j \in 1..n, NEW x, x = c + UpToArg(instr, j - 1)
        PROVE  x + Width(Loaded, type[j], x) = c + UpToArg(instr, j)
    <2>1. Width(Loaded, TypeOfCode(Code(args[j])), c + UpToArg(instr, j - 1)) = Room(instr, args[j])
      BY WidthRead DEF n, args, instr, c
    <2>2. /\ UpToArg(instr, j - 1) \in Nat
          /\ UpToArg(instr, j) = UpToArg(instr, j - 1) + Room(instr, args[j])
      BY ArgumentBounds DEF n, args, instr
    <2>3. Width(Loaded, type[j], x) = Room(instr, args[j])
      BY <1>6, <1>7, <2>1, Zenon
    <2>4. PICK r \in {1, 2, 4} : r = Room(instr, args[j])
      BY RoomType
    <2>. QED
      BY <1>3, <1>7, <2>2, <2>3, <2>4
  <1>8. a + 1 = c + UpToArg(instr, 0) /\ 1 - 1 = 0 /\ 2 - 1 = 1 /\ 3 - 1 = 2
    BY <1>3, <1>4
  <1>. HIDE DEF a
  <1>9. second = c + UpToArg(instr, 1)
    <2>1. 1 \in 1..n /\ a + 1 = c + UpToArg(instr, 1 - 1)
      BY <1>2, <1>8
    <2>. QED
      BY <1>7, <2>1
  <1>. HIDE DEF second
  <1>10. third = c + UpToArg(instr, 2)
    <2>1. 2 \in 1..n /\ second = c + UpToArg(instr, 2 - 1)
      BY <1>2, <1>8, <1>9
    <2>. QED
      BY <1>7, <2>1
  <1>. HIDE DEF third
  <1>11. n = 3 => fourth = c + UpToArg(instr, 3)
    <2>1. n = 3 => 3 \in 1..n /\ third = c + UpToArg(instr, 3 - 1)
      BY <1>8, <1>10
    <2>. QED
      BY <1>7, <2>1
  <1>. HIDE DEF fourth
  <1>12. start[1] = a + 1 /\ start[2] = second /\ start[3] = third /\ start[4] = fourth
    OBVIOUS
  <1>. HIDE DEF start
  <1>13. \A j \in 0..n : start[j + 1] = c + UpToArg(instr, j)
    <2> TAKE j \in 0..n
    <2>1. j \in {0, 1, 2} \/ (j = 3 /\ n = 3)
      BY <1>2
    <2>2. 0 + 1 = 1 /\ 1 + 1 = 2 /\ 2 + 1 = 3 /\ 3 + 1 = 4
      OBVIOUS
    <2>. QED
      BY <1>8, <1>9, <1>10, <1>11, <1>12, <2>1, <2>2
  <1>14. /\ ReadBack(k).end = start[n + 1]
         /\ ReadBack(k).args = [j \in 1..n |->
                IF type[j] = "none" THEN 0 ELSE GetValue(Loaded, start[j + 1] - start[j], start[j])]
    <2>1. NbrArgs(instr.opcode) # 1 /\ CodeBefore(k) + 1 = a
      BY <1>2 DEF CodeBefore, CodeLen, a, c
    <2>2. ReadBack(k) = BuildOperands(Loaded, a, instr.opcode, 0)
      BY <2>1 DEF ReadBack, instr
    <2>3. n = NbrArgs(instr.opcode)
      BY <1>2
    <2> DEFINE m == NbrArgs(instr.opcode)
               operands == [j \in 1..m |->
                   IF type[j] = "none" THEN 0 ELSE GetValue(Loaded, start[j + 1] - start[j], start[j])]
    <2>4. BuildOperands(Loaded, a, instr.opcode, 0)
             = [args |-> operands, last |-> start[m + 1] - 1, end |-> start[m + 1]]
      BY <2>1, Zenon DEF BuildOperands, start, fourth, third, second, type
    <2>. HIDE DEF m
    <2>5. m = n
      BY <2>3 DEF m
    <2>. HIDE DEF operands
    <2>6. ReadBack(k).end = start[m + 1] /\ ReadBack(k).args = operands
      BY <2>2, <2>4
    <2>. QED
      BY <2>5, <2>6, Zenon DEF operands
  <1>15. ASSUME NEW j \in 1..n
         PROVE  ReadBack(k).args[j] = GetValue(Loaded, Room(instr, args[j]), c + UpToArg(instr, j - 1))
    <2>1. type[j] # "none"
      BY <1>6 DEF TypeOfCode
    <2>2. j - 1 \in 0..n /\ (j - 1) + 1 = j /\ j \in 0..n
      BY <1>2
    <2>3. start[j] = c + UpToArg(instr, j - 1) /\ start[j + 1] = c + UpToArg(instr, j)
      BY <1>13, <2>2
    <2>4. /\ UpToArg(instr, j - 1) \in Nat
          /\ UpToArg(instr, j) = UpToArg(instr, j - 1) + Room(instr, args[j])
      BY ArgumentBounds DEF n, args, instr
    <2>5. PICK r \in {1, 2, 4} : r = Room(instr, args[j])
      BY RoomType
    <2>6. start[j + 1] - start[j] = Room(instr, args[j])
      BY <1>3, <2>3, <2>4, <2>5
    <2>. QED
      BY <1>14, <2>1, <2>3, <2>6
  <1>16. ReadBack(k).end = CodeLen(out, k + 1)
    <2>1. n \in 0..n
      BY <1>2
    <2>2. start[n + 1] = c + UpToArg(instr, n)
      BY <1>13, <2>1
    <2>. QED
      BY <1>1, <1>3, <1>14, <2>2
  <1>. QED
    BY <1>15, <1>16 DEF n, args, instr, c

-----------------------------------------------------------------------------
(* An instruction of one argument *)

(* A number between 0 and 255 is one in its last byte. *)
LEMMA SmallIsLast ==
    ASSUME NEW v \in 0..255
    PROVE  BigEndian(v, 4)[1] = 0 /\ BigEndian(v, 4)[2] = 0 /\ BigEndian(v, 4)[3] = 0
  <1>1. /\ BigEndian(v, 4)[1] = (v \div ByteWeights[1]) % 256
        /\ BigEndian(v, 4)[2] = (v \div ByteWeights[2]) % 256
        /\ BigEndian(v, 4)[3] = (v \div ByteWeights[3]) % 256
    BY SMT DEF BigEndian
  <1>2. \A w \in Nat \ {0} : w > 255 => v \div w = 0
    BY SMT
  <1>3. \A i \in {1, 2, 3} : ByteWeights[i] \in Nat \ {0} /\ ByteWeights[i] > 255
    BY SMT DEF ByteWeights
  <1>4. /\ v \div ByteWeights[1] = 0 /\ v \div ByteWeights[2] = 0
        /\ v \div ByteWeights[3] = 0
    BY <1>2, <1>3
  <1>5. 0 % 256 = 0
    OBVIOUS
  <1>. QED
    BY <1>1, <1>4, <1>5

LEMMA BuiltOfOne ==
    ASSUME NEW mem, NEW a, NEW op, NbrArgs(op) = 1
    PROVE  /\ BuildOperands(mem, a, op, 0).args = <<GetValue(mem, 3, a) + Byte(mem, a + 4)>>
           /\ BuildOperands(mem, a, op, 0).end = a + 4
  BY DEF BuildOperands, LastOfOne

LEMMA LoneRead ==
    ASSUME EncInv, pc = "done", NEW k \in 1..Len(out), InStep(k),
           Len(parsed_lines[k].args) = 1
    PROVE  /\ ReadBack(k).end = CodeLen(out, k + 1)
           /\ AtoiBehindFirst(parsed_lines[k].args[1]) \in 0..255 =>
                 ReadBack(k).args[1] = Byte(Loaded, CodeLen(out, k + 1))
  <1> DEFINE instr == parsed_lines[k]
             arg == instr.args[1]
             c == CodeLen(out, k)
             a == c + 1
  <1>1. /\ instr \in KeptLine /\ instr.args \in Seq(Lexemes)
        /\ out \in Seq(Seq(ByteNumbers)) /\ out[k] \in Seq(ByteNumbers)
        /\ Len(out[k]) = UpToArg(instr, 1)
    BY InstructionWritten
  <1>2. 1 \in 1..Len(instr.args) /\ 1 - 1 = 0
    OBVIOUS
  <1>3. arg \in Lexemes
    BY <1>1, <1>2, ElementOfSeq
  <1>4. PICK s : ArgumentAt(k, 1, s)
    BY <1>2, InstructionWritten
  <1>5. NbrArgs(instr.opcode) = 1 /\ ~IsReference(arg) /\ ~IsLetter(arg)
    BY DEF InStep, Args
  <1>6. ~Several(instr)
    BY DEF Several
  <1>7. Room(instr, arg) = 4
    BY <1>5, <1>6 DEF Room
  <1>8. UpToArg(instr, 0) = 1
    BY <1>1, <1>6, UpToArgFacts DEF HeadLen
  <1>9. Len(out[k]) = 5
    <2>1. UpToArg(instr, 1) = UpToArg(instr, 1 - 1) + Room(instr, arg)
      BY <1>2, ArgumentBounds
    <2>. QED
      BY <1>1, <1>2, <1>7, <1>8, <2>1
  <1>10. c \in Nat /\ CodeLen(out, k + 1) = c + Len(out[k])
    <2>1. Len(out) \in Nat /\ k \in 1..(Len(out) + 1)
      BY <1>1, LenProperties
    <2>. QED
      BY <1>1, <2>1, CodeLenFacts
  <1>11. CodeLen(out, k + 1) = a + 4
    BY <1>9, <1>10
  <1>12. /\ ReadBack(k).args = <<GetValue(Loaded, 3, a) + Byte(Loaded, a + 4)>>
         /\ ReadBack(k).end = a + 4
    <2>1. CodeBefore(k) + 1 = a
      BY DEF CodeBefore, CodeLen
    <2>2. ReadBack(k) = BuildOperands(Loaded, a, instr.opcode, 0)
      BY <2>1 DEF ReadBack
    <2>. HIDE DEF a, instr
    <2>3. /\ BuildOperands(Loaded, a, instr.opcode, 0).args
                = <<GetValue(Loaded, 3, a) + Byte(Loaded, a + 4)>>
          /\ BuildOperands(Loaded, a, instr.opcode, 0).end = a + 4
      BY <1>5, BuiltOfOne
    <2>. QED
      BY <2>2, <2>3, Zenon
  <1>13. ASSUME AtoiBehindFirst(arg) \in 0..255 PROVE GetValue(Loaded, 3, a) = 0
    <2>1. s \in 0..255
      BY <1>4, <1>5, <1>13 DEF ArgumentAt
    <2>2. \A b \in 1..4 : out[k][1 + b] = BigEndian(s, 4)[b]
      BY <1>2, <1>4, <1>7, <1>8 DEF ArgumentAt
    <2>3. BigEndian(s, 4)[1] = 0 /\ BigEndian(s, 4)[2] = 0 /\ BigEndian(s, 4)[3] = 0
      BY <2>1, SmallIsLast
    <2>4. ASSUME NEW b \in {1, 2, 3}
          PROVE  Byte(Loaded, a + (b - 1)) = out[k][1 + b]
      <3>1. 1 + b \in 1..Len(out[k]) /\ c + ((1 + b) - 1) = a + (b - 1)
        BY <1>9, <1>10
      <3>. QED
        BY <1>1, <3>1, CodeCell
    <2>5. Byte(Loaded, a + (1 - 1)) = 0 /\ Byte(Loaded, a + (2 - 1)) = 0 /\ Byte(Loaded, a + (3 - 1)) = 0
      BY <2>2, <2>3, <2>4
    <2>. HIDE DEF a
    <2>6. Byte(Loaded, a + 0) = 0 /\ Byte(Loaded, a + 1) = 0 /\ Byte(Loaded, a + 2) = 0
      <3>1. 1 - 1 = 0 /\ 2 - 1 = 1 /\ 3 - 1 = 2
        OBVIOUS
      <3>. QED
        BY <2>5, <3>1, Zenon
    <2>. QED
      BY <2>6 DEF GetValue
  <1>14. ASSUME AtoiBehindFirst(arg) \in 0..255
         PROVE  ReadBack(k).args[1] = Byte(Loaded, CodeLen(out, k + 1))
    <2>1. GetValue(Loaded, 3, a) = 0
      BY <1>13, <1>14
    <2>2. Byte(Loaded, a + 4) \in Nat
      <3>1. CASE k < Len(out)
        <4>1. k + 1 \in 1..Len(out)
          BY <3>1, <1>1, LenProperties
        <4>2. /\ Len(out[k + 1]) = UpToArg(parsed_lines[k + 1], Len(parsed_lines[k + 1].args))
              /\ parsed_lines[k + 1] \in KeptLine /\ Len(parsed_lines[k + 1].args) \in Nat
          BY <4>1, InstructionWritten
        <4>3. Len(parsed_lines[k + 1].args) \in 0..Len(parsed_lines[k + 1].args)
          BY <4>2
        <4>4. Len(out[k + 1]) \in Nat /\ Len(out[k + 1]) >= HeadLen(parsed_lines[k + 1])
          BY <4>2, <4>3, UpToArgFacts
        <4>5. 1 \in 1..Len(out[k + 1])
          BY <4>4 DEF HeadLen
        <4>6. /\ out[k + 1][1] \in ByteNumbers
              /\ Byte(Loaded, CodeLen(out, k + 1) + (1 - 1)) = out[k + 1][1]
          BY <1>1, <4>1, <4>5, CodeCell
        <4>7. CodeLen(out, k + 1) + (1 - 1) = a + 4
          BY <1>10, <1>11
        <4>. QED
          <5>1. ByteNumbers \subseteq Nat
            BY DEF ByteNumbers
          <5>2. Byte(Loaded, a + 4) = out[k + 1][1]
            BY <4>6, <4>7, Zenon
          <5>. QED
            BY <4>6, <5>1, <5>2, Zenon
      <3>2. CASE k = Len(out)
        BY <1>1, <1>11, <3>2, NothingBehind
      <3>3. k < Len(out) \/ k = Len(out)
        BY <1>1, LenProperties
      <3>. QED
        BY <3>1, <3>2, <3>3
    <2>3. ReadBack(k).args[1] = GetValue(Loaded, 3, a) + Byte(Loaded, a + 4)
      BY <1>12
    <2>. HIDE DEF a
    <2>4. ReadBack(k).args[1] = Byte(Loaded, a + 4)
      BY <2>1, <2>2, <2>3
    <2>. QED
      BY <1>11, <2>4
  <1>. QED
    BY <1>11, <1>12, <1>14

-----------------------------------------------------------------------------
(* The theorems *)

LEMMA OneOrSeveral ==
    ASSUME EncInv, pc = "done", NEW k \in 1..Len(out), InStep(k)
    PROVE  Len(parsed_lines[k].args) = 1 \/ Several(parsed_lines[k])
  <1>1. Len(parsed_lines[k].args) = NbrArgs(parsed_lines[k].opcode)
    BY DEF InStep, Args
  <1>2. NbrArgs(parsed_lines[k].opcode) \in {1, 2, 3}
    BY DEF NbrArgs
  <1>3. PICK n \in {1, 2, 3} : n = Len(parsed_lines[k].args)
    BY <1>1, <1>2
  <1>4. n = 1 \/ n > 1
    OBVIOUS
  <1>. QED
    BY <1>3, <1>4, Zenon DEF Several

(***************************************************************************)
(* Whatever the source, the machine reads every instruction the two         *)
(* programs agree about to its end and no further.                          *)
(***************************************************************************)
THEOREM AgreedAreReadToTheirEnd == Spec => []ReadToItsEnd
  <1>1. EncInv => ReadToItsEnd
    <2> SUFFICES ASSUME EncInv, pc = "done", NEW k \in DOMAIN out, InStep(k)
                 PROVE  ReadBack(k).end = CodeBefore(k + 1)
      BY DEF ReadToItsEnd
    <2>1. k \in 1..Len(out)
      BY LenProperties DEF EncInv
    <2>2. ReadBack(k).end = CodeLen(out, k + 1)
      BY <2>1, OneOrSeveral, LoneRead, SeveralRead
    <2>. QED
      BY <2>2 DEF CodeBefore, CodeLen
  <1>. QED
    BY EncInvariance, <1>1, PTL

(***************************************************************************)
(* Whatever the source, an operand among several of such an instruction is  *)
(* read as it was written exactly if it is between 0 and 255 and none of    *)
(* its digits was dropped: only then do its bytes add up to it.             *)
(***************************************************************************)
THEOREM SmallOperandsSurvive == Spec => []OperandsSurvive
  <1>1. EncInv => OperandsSurvive
    <2> SUFFICES ASSUME EncInv, pc = "done", NEW k \in DOMAIN out, InStep(k), Len(Args(k)) > 1,
                        NEW j \in DOMAIN Args(k),
                        Args(k)[j].kind \in {"register", "value", "number"}
                 PROVE  ReadBack(k).args[j] = Args(k)[j].n
                          <=> /\ Args(k)[j].n \in 0..255
                              /\ Args(k)[j].kind = "number" =>
                                    Args(k)[j].lead # "none" \/ Args(k)[j].n = 0
      BY DEF OperandsSurvive
    <2> DEFINE instr == parsed_lines[k]
               arg == instr.args[j]
               width == Room(instr, arg)
    <2>1. k \in 1..Len(out) /\ Args(k) = instr.args /\ Several(instr)
      BY LenProperties DEF EncInv, Args, Several
    <2>2. /\ instr.args \in Seq(Lexemes) /\ DOMAIN instr.args = 1..Len(instr.args)
          /\ j \in 1..Len(instr.args)
      BY <2>1, InstructionWritten, LenProperties
    <2>3. arg \in Lexemes
      BY <2>2, ElementOfSeq
    <2>4. PICK s : ArgumentAt(k, j, s)
      BY <2>1, <2>2, InstructionWritten
    <2>5. s \in Int /\ s = AtoiBehindFirst(arg)
      <3>1. ~IsReference(arg)
        BY <2>1 DEF IsReference
      <3>. QED
        BY <2>4, <3>1 DEF ArgumentAt
    <2>6. width \in {1, 2, 4}
      BY RoomType
    <2>7. ReadBack(k).args[j] = ByteSum(s, width)
      BY <2>1, <2>2, <2>4, SeveralRead, ArgumentReadBack
    <2>. HIDE DEF width
    <2>8. /\ ByteSum(s, width) \in Nat
          /\ ByteSum(s, width) = s <=> s \in ByteNumbers
          /\ s >= 0 => ByteSum(s, width) <= s
      BY <2>5, <2>6, ByteSumFacts, Zenon
    <2>9. PICK n \in Int : n = arg.n
      BY <2>3 DEF Lexemes
    <2>10. CASE arg.kind # "number" \/ arg.lead # "none"
      <3>1. s = n
        BY <2>1, <2>5, <2>9, <2>10 DEF AtoiBehindFirst, ColonSecond, IsLetter
      <3>2. ReadBack(k).args[j] = arg.n <=> arg.n \in 0..255
        BY <2>7, <2>8, <2>9, <3>1, Zenon DEF ByteNumbers
      <3>. QED
        BY <2>1, <2>10, <3>2
    <2>11. CASE arg.kind = "number" /\ arg.lead = "none"
      <3>1. s = WithoutFirst(n)
        BY <2>5, <2>9, <2>11 DEF AtoiBehindFirst, ColonSecond, IsLetter
      <3>2. /\ s \in Nat
            /\ n > 0 => s < n
            /\ n <= 0 => s = -n
        BY <2>9, <3>1, WithoutFirstFacts
      <3>3. PICK b \in Nat : b = ByteSum(s, width)
        BY <2>8
      <3>4. b <= s /\ (s = 0 => b = 0)
        <4>1. s >= 0
          BY <3>2
        <4>2. b <= s
          BY <2>8, <3>3, <4>1, Zenon
        <4>. QED
          BY <3>2, <4>2
      <3>5. b = n <=> n = 0
        BY <2>5, <2>9, <3>2, <3>4
      <3>6. ReadBack(k).args[j] = arg.n <=> arg.n = 0
        BY <2>7, <2>9, <3>3, <3>5
      <3>7. arg.n = 0 => arg.n \in 0..255
        BY <2>9
      <3>. QED
        BY <2>1, <2>11, <3>6, <3>7, Zenon
    <2>. QED
      BY <2>10, <2>11
  <1>. QED
    BY EncInvariance, <1>1, PTL

(***************************************************************************)
(* Whatever the source, instead of an operand that is alone and written in  *)
(* its last byte only, the machine reads the opcode of the instruction      *)
(* behind it.                                                               *)
(***************************************************************************)
THEOREM LoneOperandsAreLost == Spec => []LoneOperandIsNextOpcode
  <1>1. EncInv => LoneOperandIsNextOpcode
    <2> SUFFICES ASSUME EncInv, pc = "done", NEW k \in DOMAIN out, InStep(k),
                        Len(Args(k)) = 1, AtoiBehindFirst(Args(k)[1]) \in 0..255
                 PROVE  ReadBack(k).args[1] = IF k < Len(out) THEN Number(k + 1) ELSE 0
      BY DEF LoneOperandIsNextOpcode
    <2>1. /\ k \in 1..Len(out) /\ out \in Seq(Seq(ByteNumbers)) /\ Len(out) \in Nat
      BY LenProperties DEF EncInv
    <2>2. ReadBack(k).args[1] = Byte(Loaded, CodeLen(out, k + 1))
      BY <2>1, LoneRead DEF Args
    <2>3. CASE k < Len(out)
      <3>1. k + 1 \in 1..Len(out) /\ k + 1 \in 1..(Len(out) + 1)
        BY <2>1, <2>3
      <3>2. /\ out[k + 1][1] = Opcode(parsed_lines[k + 1].opcode)
            /\ Len(out[k + 1]) = UpToArg(parsed_lines[k + 1], Len(parsed_lines[k + 1].args))
            /\ parsed_lines[k + 1] \in KeptLine /\ Len(parsed_lines[k + 1].args) \in Nat
        BY <3>1, InstructionWritten
      <3>3. Len(parsed_lines[k + 1].args) \in 0..Len(parsed_lines[k + 1].args)
        BY <3>2
      <3>4. Len(out[k + 1]) \in Nat /\ Len(out[k + 1]) >= HeadLen(parsed_lines[k + 1])
        BY <3>2, <3>3, UpToArgFacts
      <3>5. 1 \in 1..Len(out[k + 1])
        BY <3>4 DEF HeadLen
      <3>6. Byte(Loaded, CodeLen(out, k + 1) + (1 - 1)) = out[k + 1][1]
        BY <2>1, <3>1, <3>5, CodeCell
      <3>7. CodeLen(out, k + 1) + (1 - 1) = CodeLen(out, k + 1)
        <4>1. CodeLen(out, k + 1) \in Nat
          BY <2>1, <3>1, CodeLenFacts
        <4>. QED
          BY <4>1
      <3>. QED
        BY <2>2, <2>3, <3>2, <3>6, <3>7 DEF Number
    <2>4. CASE ~(k < Len(out))
      <3>1. k = Len(out)
        BY <2>1, <2>4
      <3>. QED
        BY <2>1, <2>2, <2>4, <3>1, NothingBehind
    <2>. QED
      BY <2>3, <2>4
  <1>. QED
    BY EncInvariance, <1>1, PTL
=============================================================================
