---------------------------- MODULE NumberProofs ----------------------------
(***************************************************************************)
(* Lemmas on natural numbers that the theorems about every component rest   *)
(* on: least and greatest ones, induction in a form the provers can use     *)
(* (on a set, not on an operator), and what is computed by a recursion.     *)
(***************************************************************************)
EXTENDS Integers, Sequences, FiniteSetsExt, WellFoundedInduction, TLAPS

(* Every set of naturals that is not empty has a least member. *)
LEMMA Least ==
    ASSUME NEW S \in SUBSET Nat, S # {}
    PROVE  \E s \in S : \A t \in S : s <= t
  <1> DEFINE R == {ss \in Nat \X Nat : ss[1] < ss[2]}
  <1>1. IsWellFoundedOn(R, Nat)
    BY NatLessThanWellFounded DEF OpToRel
  <1> HIDE DEF R
  <1>2. PICK s \in S : \A t \in S : ~(<<t, s>> \in R)
    BY <1>1, WFMin
  <1>3. ASSUME NEW t \in S PROVE s <= t
    <2>1. t \in Nat /\ s \in Nat /\ <<t, s>> \in Nat \X Nat
      OBVIOUS
    <2>2. ~(t < s)
      BY <1>2, <2>1 DEF R
    <2>. QED
      BY <2>1, <2>2, SMT
  <1>. QED
    BY <1>3

(* A set of naturals with 0 and, with each, the next one has them all. *)
LEMMA Counting ==
    ASSUME NEW S, 0 \in S, \A m \in Nat : m \in S => m + 1 \in S
    PROVE  Nat \subseteq S
  <1> DEFINE R == {m \in Nat : m \notin S}
  <1>1. SUFFICES ASSUME R # {} PROVE FALSE
    OBVIOUS
  <1>2. PICK m \in R : \A t \in R : m <= t
    BY <1>1, Least
  <1>3. m \in Nat \ {0}
    OBVIOUS
  <1>4. m - 1 \in Nat /\ ~(m <= m - 1) /\ (m - 1) + 1 = m
    BY <1>3, SMT
  <1>5. m - 1 \in S
    BY <1>2, <1>4
  <1>. QED
    BY <1>4, <1>5

(* The least element the community modules' Min chooses is there. *)
LEMMA MinFacts ==
    ASSUME NEW S, S \subseteq Nat, S # {}
    PROVE  Min(S) \in S /\ \A x \in S : Min(S) <= x
  <1>1. PICK m \in S : \A x \in S : ~(<<x, m>> \in OpToRel(<, Nat))
    BY WFMin, NatLessThanWellFounded, Zenon
  <1>2. \A x \in Nat, y \in Nat : x < y => <<x, y>> \in OpToRel(<, Nat)
    BY Zenon DEF OpToRel
  <1>3. \A x \in S : m \in Nat /\ x \in Nat /\ ~(x < m)
    BY <1>1, <1>2, Zenon
  <1>4. \A x \in S : m =< x
    BY <1>3, SMT
  <1>. QED
    BY <1>4 DEF Min

(* Any greatest element is the one Max chooses. *)
LEMMA MaxFacts ==
    ASSUME NEW S, S \subseteq Nat, NEW m \in S, \A x \in S : x <= m
    PROVE  Max(S) = m
  <1>1. Max(S) \in S /\ \A y \in S : Max(S) >= y
    BY DEF Max
  <1>2. Max(S) \in Nat /\ m \in Nat /\ Max(S) <= m /\ Max(S) >= m
    BY <1>1
  <1>. QED
    BY <1>2, SMT

-----------------------------------------------------------------------------
(* Sums *)

(* f[s] is the sum of v[1] to v[s], for s up to n. *)
Sums(f, v, n) == f = [s \in 0..n |-> IF s = 0 THEN 0 ELSE f[s - 1] + v[s]]

LEMMA SumsExist ==
    ASSUME NEW v, NEW n \in Nat
    PROVE  \E f : Sums(f, v, n)
  <1> DEFINE S == {m \in Nat : \E f : Sums(f, v, m)}
  <1>1. 0 \in S
    <2> DEFINE f == [s \in 0..0 |-> 0]
    <2>1. \A s \in 0..0 : s = 0
      BY SMT
    <2>2. f = [s \in 0..0 |-> IF s = 0 THEN 0 ELSE f[s - 1] + v[s]]
      BY <2>1, Zenon
    <2>. HIDE DEF f
    <2>. QED
      BY <2>2 DEF Sums
  <1>2. ASSUME NEW m \in Nat, m \in S PROVE m + 1 \in S
    <2>1. PICK f : Sums(f, v, m)
      BY <1>2
    <2> DEFINE g == [s \in 0..(m + 1) |-> IF s <= m THEN f[s] ELSE f[m] + v[s]]
    <2>2. ASSUME NEW s \in 0..(m + 1)
          PROVE  g[s] = IF s = 0 THEN 0 ELSE g[s - 1] + v[s]
      <3>1. CASE s = 0
        <4>1. 0 \in 0..m /\ s <= m
          BY <3>1
        <4>. QED
          BY <2>1, <3>1, <4>1 DEF Sums
      <3>2. CASE s # 0 /\ s <= m
        <4>1. s \in 0..m /\ s - 1 \in 0..(m + 1) /\ s - 1 <= m
          BY <3>2
        <4>2. g[s - 1] = f[s - 1]
          BY <4>1
        <4>. QED
          BY <2>1, <3>2, <4>1, <4>2 DEF Sums
      <3>3. CASE ~(s <= m)
        <4>1. s - 1 = m /\ m \in 0..(m + 1) /\ m <= m /\ s # 0
          BY <3>3
        <4>2. g[s - 1] = f[m]
          BY <4>1
        <4>. QED
          BY <3>3, <4>1, <4>2
      <3>. QED
        BY <3>1, <3>2, <3>3
    <2>3. g = [s \in 0..(m + 1) |-> IF s = 0 THEN 0 ELSE g[s - 1] + v[s]]
      BY <2>2, Zenon
    <2>4. m + 1 \in Nat
      OBVIOUS
    <2>. HIDE DEF g
    <2>. QED
      BY <2>3, <2>4 DEF Sums
  <1>. HIDE DEF S
  <1>3. n \in S
    BY <1>1, <1>2, Counting
  <1>. QED
    BY <1>3 DEF S

(* A sum that differs from another in one place, by d, differs by d. *)
DifferIn(w, v, c, d, n) ==
    \A s \in 1..n : v[s] \in Nat /\ w[s] = v[s] + (IF s = c THEN d ELSE 0)

LEMMA SumsDiffer ==
    ASSUME NEW n \in Nat, NEW c \in 1..n, NEW d \in Nat,
           NEW v, NEW w, DifferIn(w, v, c, d, n),
           NEW f, Sums(f, v, n), NEW g, Sums(g, w, n)
    PROVE  f[n] \in Nat /\ g[n] = f[n] + d
  <1> DEFINE S == {m \in Nat : m <= n => /\ f[m] \in Nat
                                        /\ g[m] = f[m] + (IF c <= m THEN d ELSE 0)}
  <1>0. \A s \in 0..n : /\ f[s] = IF s = 0 THEN 0 ELSE f[s - 1] + v[s]
                        /\ g[s] = IF s = 0 THEN 0 ELSE g[s - 1] + w[s]
    BY Zenon DEF Sums
  <1>1. 0 \in S
    <2>1. 0 \in 0..n /\ ~(c <= 0)
      OBVIOUS
    <2>2. f[0] = 0 /\ g[0] = 0
      BY <1>0, <2>1
    <2>. QED
      BY <2>1, <2>2
  <1>2. ASSUME NEW m \in Nat, m \in S PROVE m + 1 \in S
    <2>1. SUFFICES ASSUME m + 1 <= n
                   PROVE  /\ f[m + 1] \in Nat
                          /\ g[m + 1] = f[m + 1] + (IF c <= m + 1 THEN d ELSE 0)
      OBVIOUS
    <2> DEFINE j == m + 1
    <2>2. j \in 0..n /\ j \in 1..n /\ j # 0 /\ j - 1 = m /\ m <= n
      BY <2>1
    <2>. HIDE DEF j
    <2>3. f[j] = f[m] + v[j] /\ g[j] = g[m] + w[j]
      BY <1>0, <2>2
    <2>4. f[m] \in Nat /\ g[m] = f[m] + (IF c <= m THEN d ELSE 0)
      BY <1>2, <2>2
    <2>5. v[j] \in Nat /\ w[j] = v[j] + (IF j = c THEN d ELSE 0)
      BY <2>2 DEF DifferIn
    <2>6. f[j] \in Nat /\ g[j] = f[j] + (IF c <= j THEN d ELSE 0)
      <3>1. CASE c <= m
        BY <2>2, <2>3, <2>4, <2>5, <3>1
      <3>2. CASE c = j
        BY <2>2, <2>3, <2>4, <2>5, <3>2
      <3>3. CASE ~(c <= m) /\ c # j
        BY <2>2, <2>3, <2>4, <2>5, <3>3
      <3>. QED
        BY <3>1, <3>2, <3>3
    <2>. QED
      BY <2>6 DEF j
  <1>. HIDE DEF S
  <1>3. n \in S
    BY <1>1, <1>2, Counting
  <1>. QED
    BY <1>3 DEF S

Alike(v, w, n) == \A s \in 1..n : v[s] = w[s]

(* There is only one, and it does not depend on what comes after. *)
LEMMA SumsUnique ==
    ASSUME NEW v, NEW w, NEW n \in Nat, NEW m \in Nat, n <= m,
           NEW f, Sums(f, v, n), NEW g, Sums(g, w, m),
           Alike(v, w, n)
    PROVE  \A s \in 0..n : f[s] = g[s]
  <1> DEFINE S == {s \in Nat : s \in 0..n => f[s] = g[s]}
  <1>0. \A s \in 0..n : /\ f[s] = IF s = 0 THEN 0 ELSE f[s - 1] + v[s]
                        /\ s \in 0..m
    BY DEF Sums
  <1>1. \A s \in 0..m : g[s] = IF s = 0 THEN 0 ELSE g[s - 1] + w[s]
    BY Zenon DEF Sums
  <1>2. 0 \in S
    <2>1. 0 \in 0..n /\ 0 \in 0..m
      BY SMT
    <2>. QED
      BY <1>0, <1>1, <2>1
  <1>3. ASSUME NEW s \in Nat, s \in S PROVE s + 1 \in S
    <2>1. SUFFICES ASSUME s + 1 \in 0..n PROVE f[s + 1] = g[s + 1]
      OBVIOUS
    <2> DEFINE j == s + 1
    <2>2. j \in 0..n /\ j \in 0..m /\ j \in 1..n /\ j # 0 /\ j - 1 = s /\ s \in 0..n
      BY <1>0, <2>1
    <2>. HIDE DEF j
    <2>3. f[j] = f[s] + v[j] /\ g[j] = g[s] + w[j]
      BY <1>0, <1>1, <2>2
    <2>4. f[s] = g[s] /\ v[j] = w[j]
      BY <1>3, <2>2 DEF Alike
    <2>. QED
      BY <2>3, <2>4, Zenon DEF j
  <1>. HIDE DEF S
  <1>4. Nat \subseteq S
    BY <1>2, <1>3, Counting
  <1>. QED
    BY <1>4 DEF S

-----------------------------------------------------------------------------
(* Selections *)

(* f[i] is those of s[1] to s[i] whose places are in P, for i up to n. *)
Selects(f, s, P, n) ==
    f = [i \in 0..n |-> IF i = 0 THEN <<>>
                        ELSE IF i \in P THEN Append(f[i - 1], s[i]) ELSE f[i - 1]]

LEMMA SelectionExists ==
    ASSUME NEW s, NEW P, NEW n \in Nat
    PROVE  \E f : Selects(f, s, P, n)
  <1> DEFINE S == {m \in Nat : \E f : Selects(f, s, P, m)}
  <1>1. 0 \in S
    <2> DEFINE f == [i \in 0..0 |-> <<>>]
    <2>1. \A i \in 0..0 : i = 0
      BY SMT
    <2>2. f = [i \in 0..0 |-> IF i = 0 THEN <<>>
                              ELSE IF i \in P THEN Append(f[i - 1], s[i]) ELSE f[i - 1]]
      BY <2>1, Zenon
    <2>. HIDE DEF f
    <2>. QED
      BY <2>2 DEF Selects
  <1>2. ASSUME NEW m \in Nat, m \in S PROVE m + 1 \in S
    <2>1. PICK f : Selects(f, s, P, m)
      BY <1>2
    <2> DEFINE last == IF m + 1 \in P THEN Append(f[m], s[m + 1]) ELSE f[m]
               g == [i \in 0..(m + 1) |-> IF i <= m THEN f[i] ELSE last]
    <2>0. \A i \in 0..m : f[i] = IF i = 0 THEN <<>>
                                 ELSE IF i \in P THEN Append(f[i - 1], s[i]) ELSE f[i - 1]
      BY <2>1, Zenon DEF Selects
    <2>2. ASSUME NEW i \in 0..(m + 1)
          PROVE  g[i] = IF i = 0 THEN <<>>
                        ELSE IF i \in P THEN Append(g[i - 1], s[i]) ELSE g[i - 1]
      <3>1. CASE i = 0
        <4>1. 0 \in 0..m /\ i <= m
          BY <3>1
        <4>. QED
          BY <2>0, <3>1, <4>1
      <3>2. CASE i # 0 /\ i <= m
        <4>1. i \in 0..m /\ i - 1 \in 0..(m + 1) /\ i - 1 <= m
          BY <3>2
        <4>2. g[i - 1] = f[i - 1] /\ g[i] = f[i]
          BY <3>2, <4>1
        <4>. HIDE DEF g
        <4>. QED
          BY <2>0, <3>2, <4>1, <4>2, Zenon
      <3>3. CASE ~(i <= m)
        <4>1. i = m + 1 /\ i - 1 = m /\ m \in 0..(m + 1) /\ m <= m /\ i # 0
          BY <3>3
        <4>2. g[i - 1] = f[m] /\ g[i] = last
          BY <3>3, <4>1
        <4>. HIDE DEF g
        <4>. QED
          BY <4>1, <4>2, Zenon
      <3>. QED
        BY <3>1, <3>2, <3>3
    <2>3. g = [i \in 0..(m + 1) |-> IF i = 0 THEN <<>>
                                    ELSE IF i \in P THEN Append(g[i - 1], s[i]) ELSE g[i - 1]]
      BY <2>2, Zenon
    <2>4. m + 1 \in Nat
      OBVIOUS
    <2>. HIDE DEF g
    <2>. QED
      BY <2>3, <2>4 DEF Selects
  <1>. HIDE DEF S
  <1>3. n \in S
    BY <1>1, <1>2, Counting
  <1>. QED
    BY <1>3 DEF S

LEMMA SelectionUnique ==
    ASSUME NEW s, NEW P, NEW n \in Nat, NEW m \in Nat, n <= m,
           NEW f, Selects(f, s, P, n), NEW g, Selects(g, s, P, m)
    PROVE  \A i \in 0..n : f[i] = g[i]
  <1> DEFINE S == {i \in Nat : i \in 0..n => f[i] = g[i]}
  <1>0. \A i \in 0..n : i \in 0..m
    OBVIOUS
  <1>1. \A i \in 0..n : f[i] = IF i = 0 THEN <<>>
                               ELSE IF i \in P THEN Append(f[i - 1], s[i]) ELSE f[i - 1]
    BY Zenon DEF Selects
  <1>2. \A i \in 0..m : g[i] = IF i = 0 THEN <<>>
                               ELSE IF i \in P THEN Append(g[i - 1], s[i]) ELSE g[i - 1]
    BY Zenon DEF Selects
  <1>3. 0 \in S
    <2>1. 0 \in 0..n /\ 0 \in 0..m
      BY SMT
    <2>. QED
      BY <1>1, <1>2, <2>1
  <1>4. ASSUME NEW i \in Nat, i \in S PROVE i + 1 \in S
    <2>1. SUFFICES ASSUME i + 1 \in 0..n PROVE f[i + 1] = g[i + 1]
      OBVIOUS
    <2> DEFINE j == i + 1
    <2>2. j \in 0..n /\ j \in 0..m /\ j # 0 /\ j - 1 = i /\ i \in 0..n
      BY <1>0, <2>1
    <2>. HIDE DEF j
    <2>3. f[i] = g[i]
      BY <1>4, <2>2
    <2>4. f[j - 1] = g[j - 1]
      BY <2>2, <2>3
    <2>5. f[j] = g[j]
      BY <1>1, <1>2, <2>2, <2>4, Zenon
    <2>. QED
      BY <2>5 DEF j
  <1>. HIDE DEF S
  <1>5. Nat \subseteq S
    BY <1>3, <1>4, Counting
  <1>. QED
    BY <1>5 DEF S

-----------------------------------------------------------------------------
(* Concatenations *)

(* f[i] is c[1] to c[i] one behind the other, for i up to n. *)
Concatenates(f, c, n) == f = [i \in 1..n |-> IF i = 1 THEN c[1] ELSE f[i - 1] \o c[i]]

LEMMA ConcatenationExists ==
    ASSUME NEW c, NEW n \in Nat
    PROVE  \E f : Concatenates(f, c, n)
  <1> DEFINE S == {m \in Nat : \E f : Concatenates(f, c, m)}
  <1>1. 0 \in S
    <2> DEFINE f == [i \in 1..0 |-> c[1]]
    <2>1. \A i \in 1..0 : FALSE
      BY SMT
    <2>2. f = [i \in 1..0 |-> IF i = 1 THEN c[1] ELSE f[i - 1] \o c[i]]
      BY <2>1, Zenon
    <2>. HIDE DEF f
    <2>. QED
      BY <2>2 DEF Concatenates
  <1>2. ASSUME NEW m \in Nat, m \in S PROVE m + 1 \in S
    <2>1. PICK f : Concatenates(f, c, m)
      BY <1>2
    <2> DEFINE g == [i \in 1..(m + 1) |-> IF i <= m THEN f[i]
                                          ELSE IF i = 1 THEN c[1] ELSE f[m] \o c[i]]
    <2>2. ASSUME NEW i \in 1..(m + 1)
          PROVE  g[i] = IF i = 1 THEN c[1] ELSE g[i - 1] \o c[i]
      <3>1. CASE i = 1
        <4>1. i <= m => i \in 1..m
          BY <3>1
        <4>. QED
          BY <2>1, <3>1, <4>1 DEF Concatenates
      <3>2. CASE i # 1 /\ i <= m
        <4>1. i \in 1..m /\ i - 1 \in 1..(m + 1) /\ i - 1 <= m
          BY <3>2
        <4>2. g[i - 1] = f[i - 1]
          BY <4>1
        <4>. QED
          BY <2>1, <3>2, <4>1, <4>2 DEF Concatenates
      <3>3. CASE i # 1 /\ ~(i <= m)
        <4>1. i - 1 = m /\ m \in 1..(m + 1)
          BY <3>3
        <4>2. g[i - 1] = f[m]
          BY <4>1
        <4>. QED
          BY <3>3, <4>2
      <3>. QED
        BY <3>1, <3>2, <3>3
    <2>3. g = [i \in 1..(m + 1) |-> IF i = 1 THEN c[1] ELSE g[i - 1] \o c[i]]
      BY <2>2, Zenon
    <2>4. m + 1 \in Nat
      OBVIOUS
    <2>. HIDE DEF g
    <2>. QED
      BY <2>3, <2>4 DEF Concatenates
  <1>. HIDE DEF S
  <1>3. n \in S
    BY <1>1, <1>2, Counting
  <1>. QED
    BY <1>3 DEF S

(* There is only one, and it does not depend on what comes after. *)
LEMMA ConcatenationUnique ==
    ASSUME NEW c, NEW d, NEW n \in Nat, NEW m \in Nat, n <= m,
           NEW f, Concatenates(f, c, n), NEW g, Concatenates(g, d, m),
           \A i \in 1..n : c[i] = d[i]
    PROVE  \A i \in 1..n : f[i] = g[i]
  <1> DEFINE S == {i \in Nat : i \in 1..n => f[i] = g[i]}
  <1>1. 0 \in S
    BY SMT
  <1>2. ASSUME NEW i \in Nat, i \in S PROVE i + 1 \in S
    <2>1. SUFFICES ASSUME i + 1 \in 1..n PROVE f[i + 1] = g[i + 1]
      OBVIOUS
    <2> DEFINE j == i + 1
    <2>2. j \in 1..n /\ j \in 1..m /\ j - 1 = i
      BY <2>1
    <2>. HIDE DEF j
    <2>3. /\ f[j] = IF j = 1 THEN c[1] ELSE f[j - 1] \o c[j]
          /\ g[j] = IF j = 1 THEN d[1] ELSE g[j - 1] \o d[j]
      BY <2>2, Zenon DEF Concatenates
    <2>4. CASE j = 1
      BY <2>2, <2>3, <2>4 DEF j
    <2>5. CASE j # 1
      <3>1. i \in 1..n
        BY <2>2, <2>5
      <3>2. f[j - 1] = g[j - 1]
        BY <1>2, <2>2, <3>1
      <3>. QED
        BY <2>2, <2>3, <2>5, <3>2 DEF j
    <2>. QED
      BY <2>4, <2>5
  <1>. HIDE DEF S
  <1>3. Nat \subseteq S
    BY <1>1, <1>2, Counting
  <1>. QED
    BY <1>3 DEF S

-----------------------------------------------------------------------------
(* Recursion *)

(* What h makes of a number up to n and a value in S is in S. *)
Into(h, S, n) == \A m \in 1..n : \A x \in S : h[<<m, x>>] \in S

(* f starts with base and goes on with h. *)
Follows(f, base, h, n) == /\ f[0] = base
                          /\ \A m \in 1..n : f[m] = h[<<m, f[m - 1]>>]

(* A function can be defined by a first value and a step. *)
LEMMA Recursion ==
    ASSUME NEW S, NEW base \in S, NEW n \in Nat, NEW h, Into(h, S, n)
    PROVE  \E f \in [0..n -> S] : Follows(f, base, h, n)
  <1> DEFINE D == {j \in Nat : j <= n => \E f \in [0..j -> S] : Follows(f, base, h, j)}
  <1>1. 0 \in D
    <2> DEFINE f == [m \in 0..0 |-> base]
    <2>1. f \in [0..0 -> S] /\ f[0] = base /\ \A m \in 1..0 : FALSE
      OBVIOUS
    <2>. HIDE DEF f
    <2>. QED
      BY <2>1 DEF Follows
  <1>2. ASSUME NEW j \in Nat, j \in D PROVE j + 1 \in D
    <2>1. SUFFICES ASSUME j + 1 <= n PROVE \E g \in [0..(j + 1) -> S] : Follows(g, base, h, j + 1)
      OBVIOUS
    <2>2. PICK f \in [0..j -> S] : Follows(f, base, h, j)
      BY <1>2, <2>1
    <2>3. f[j] \in S /\ j + 1 \in 1..n
      BY <2>1
    <2>4. h[<<j + 1, f[j]>>] \in S
      BY <2>3 DEF Into
    <2> DEFINE g == [m \in 0..(j + 1) |-> IF m <= j THEN f[m] ELSE h[<<j + 1, f[j]>>]]
    <2>5. \A m \in 0..(j + 1) : m <= j => m \in 0..j
      OBVIOUS
    <2>6. g \in [0..(j + 1) -> S]
      BY <2>4, <2>5
    <2>7. g[j + 1] = h[<<j + 1, f[j]>>] /\ \A m \in 0..j : g[m] = f[m]
      OBVIOUS
    <2>. HIDE DEF g
    <2>8. g[0] = base
      BY <2>2, <2>7 DEF Follows
    <2>9. ASSUME NEW m \in 1..(j + 1) PROVE g[m] = h[<<m, g[m - 1]>>]
      <3>1. g[m - 1] = f[m - 1]
        BY <2>7
      <3>2. CASE m = j + 1
        <4>1. m - 1 = j
          BY <3>2
        <4>. QED
          BY <2>7, <3>1, <3>2, <4>1
      <3>3. CASE m # j + 1
        <4>1. m \in 1..j /\ m \in 0..j
          BY <3>3
        <4>. QED
          BY <2>2, <2>7, <3>1, <4>1 DEF Follows
      <3>. QED
        BY <3>2, <3>3
    <2>. QED
      BY <2>6, <2>8, <2>9 DEF Follows
  <1>. HIDE DEF D
  <1>3. n \in D
    BY <1>1, <1>2, Counting
  <1>. QED
    BY <1>3 DEF D
=============================================================================
