------------------------------ MODULE MCLoader ------------------------------
(***************************************************************************)
(* Command lines for TLC: the options, numbers, and champions whose code is *)
(* empty, fits every share, fits none, or is longer than the memory's half. *)
(***************************************************************************)
EXTENDS Loader, TLC

Token(kind, value, size) == [kind |-> kind, value |-> value, size |-> size]

AllTokens == {Token("-n", 0, 0), Token("-dump", 0, 0), Token("dash", -3, 0),
              Token("word", 2, 0), Token("word", 3, 0), Token("badcor", 0, 0),
              Token("cor", 0, 0), Token("cor", 0, 2), Token("cor", 0, 5)}

AnyGarbage == {0, 7}
=============================================================================
