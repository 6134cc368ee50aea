---------------------------- MODULE MCAssembler ----------------------------
(***************************************************************************)
(* Sources for TLC: every text of up to MaxLines of the lines below.        *)
(***************************************************************************)
EXTENDS AssemblerClaims

CONSTANT MaxLines

Piece(kind, name, n, lead) == [kind |-> kind, name |-> name, n |-> n, lead |-> lead]
Word(w) == Piece("word", w, 0, "none")
NumberedWord(w, i) == Piece("word", w, i, "none")
Label(w) == Piece("label", w, 0, "none")
Ref(w) == Piece("reference", w, 0, "none")
Reg(i) == Piece("register", "", i, "none")
Value(i) == Piece("value", "", i, "none")
Num(i) == Piece("number", "", i, "none")
SpacedNum(i) == Piece("number", "", i, "space")
ZeroNum(i) == Piece("number", "", i, "zero")
Strange(text) == Piece("unknown", text, 0, "none")
Mark(k) == Piece(k, "", 0, "none")
Comma == Mark("comma")

(* "loop" is the beginning of "loops"; "l2" has a digit. *)
NameBegins == {<<"loop", "loop">>, <<"loops", "loops">>, <<"loops", "loop">>, <<"l2", "l2">>,
                <<"a", "a">>}
NamesWithDigit == {"l2", "x300"}
NamesOfOneLetter == {"a"}

Lines == {
    <<Mark("directive")>>,                                          \* .name "Simple"
    <<Mark("comment")>>,                                            \* ; ...
    <<Label("loop")>>,                                              \* loop:
    <<Label("loops"), Word("live"), Value(1)>>,                     \* loops: live %1
    <<Label("l2"), Word("sti"), Reg(1), Comma, Ref("loop"), Comma, Value(1)>>,
    <<Word("zjmp"), Ref("loop")>>,
    <<Word("fork"), Ref("l2")>>,
    <<Word("and"), Reg(1), Comma, Value(0), Comma, Reg(1)>>,
    <<Word("ldi"), Ref("loop"), Comma, Ref("loops"), Comma, Reg(3)>>,
    <<Word("sti"), Reg(2), Comma, SpacedNum(23), Comma, Value(34)>>,
    <<Word("st"), Reg(1), Comma, Num(34)>>,                         \* st r1,34
    <<Word("ld"), SpacedNum(-5), Comma, Reg(2), Mark("comment")>>,  \* ld -5,r2 ; ...
    <<Word("add"), Reg(1), Reg(2), Comma, Reg(3), Comma, Reg(4)>>,  \* one too many
    <<Word("st"), Reg(3), Comma, ZeroNum(5)>>,                      \* st r3,05
    <<Word("ldi"), NumberedWord("x300", 300), Comma, Value(300), Comma, Reg(3)>>,
    <<Word("live"), NumberedWord("x300", 300)>>,                    \* live x300
    <<Word("live"), Label("a")>>,                                   \* live a:
    <<Word("aff"), Reg(3)>>,
    <<Word("zjmp")>>,
    <<SpacedNum(7), Reg(1)>>,                                       \* the rest of a long line
    <<Word("ld"), Strange("%-"), Num(6), Comma, Reg(2)>>,           \* ld %-6,r2
    <<Word("zjmp"), Ref("loop"), Strange("#")>>                     \* zjmp %:loop #if (carry)
}
Texts == UNION {[1..n -> Lines] : n \in 0..MaxLines}
=============================================================================
