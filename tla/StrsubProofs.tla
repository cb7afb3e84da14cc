----------------------------- MODULE StrsubProofs -----------------------------
(***************************************************************************)
(* Text substitution: what strsub_parse writes into a buffer is what       *)
(* Expand says of the whole line, cut to the buffer, for every line of any *)
(* length, any answers and any size of the buffer.                         *)
(*                                                                         *)
(* The parser goes over the line from the left, Expand is defined from the *)
(* right.  What relates the two is LeadsTo: what was written and what is   *)
(* still to be expanded are together the expansion of the line.            *)
(***************************************************************************)
EXTENDS Strsub, TLAPS, FiniteSetTheorems, SequenceTheorems, WellFoundedInduction

-----------------------------------------------------------------------------
(***************************************************************************)
(* Numbers, iterations, lists and texts.                                   *)
(***************************************************************************)
\* A set of natural numbers that is not empty has a smallest element.
LEMMA MinOfNat ==
    ASSUME NEW S \in SUBSET Nat, S # {}
    PROVE  Min(S) \in S /\ \A j \in S : Min(S) <= j
<1> DEFINE R == {p \in Nat \X Nat : p[1] < p[2]}
<1>1. IsWellFoundedOn(R, Nat)
  BY NatLessThanWellFounded DEF OpToRel
<1> HIDE DEF R
<1>2. PICK m \in S : \A j \in S : ~(<<j, m>> \in R)
  BY <1>1, WFMin
<1>3. ASSUME NEW a \in Nat, NEW b \in Nat, a < b PROVE <<a, b>> \in R
  BY <1>3 DEF R
<1>4. ASSUME NEW j \in S PROVE m <= j
  <2>1. m \in Nat /\ j \in Nat
    OBVIOUS
  <2>2. ~(j < m)
    BY <1>2, <1>3, <2>1
  <2>3. QED
    BY <2>1, <2>2
<1>5. QED
  BY <1>4 DEF Min

\* What holds at 0 and at every successor holds up to n: the set of numbers at
\* which it holds stands for it.
LEMMA UpTo ==
    ASSUME NEW n \in Nat, NEW T, 0 \in T,
           \A m \in 1 .. n : m - 1 \in T => m \in T
    PROVE  0 .. n \subseteq T
<1> DEFINE B == (0 .. n) \ T
<1>1. ASSUME B # {} PROVE FALSE
  <2>1. B \in SUBSET Nat
    OBVIOUS
  <2>2. Min(B) \in B /\ \A j \in B : Min(B) <= j
    BY <1>1, <2>1, MinOfNat
  <2> DEFINE m == Min(B)
  <2> HIDE DEF m
  <2>3. m \in 0 .. n /\ m \notin T /\ \A j \in 0 .. n : j \notin T => m <= j
    BY <2>2 DEF m
  <2>4. m \in 1 .. n /\ m - 1 \in 0 .. n /\ ~(m <= m - 1)
    BY <2>3
  <2>5. m - 1 \in T
    BY <2>3, <2>4
  <2>6. QED
    BY <2>3, <2>4, <2>5
<1>2. QED
  BY <1>1

\* A function that goes from each number to the next by a step, each step from one
\* set into the next, exists, and has its values in those sets.
Iterates(f, n, base, g) ==
    f = [i \in 0 .. n |-> IF i = 0 THEN base ELSE g[i][f[i - 1]]]
Leads(g, n, S) == \A i \in 1 .. n : \A x \in S[i - 1] : g[i][x] \in S[i]

\* There is a function that goes on by these steps.
LEMMA IterationExists ==
    ASSUME NEW S, NEW base \in S[0], NEW n \in Nat, NEW g, Leads(g, n, S)
    PROVE  \E f : Iterates(f, n, base, g)
<1> USE DEF Leads, Iterates
<1> DEFINE Upto(m, f) ==
        /\ DOMAIN f = 0 .. m
        /\ f = [i \in 0 .. m |-> f[i]]
        /\ \A i \in 0 .. m : f[i] \in S[i]
        /\ f[0] = base
        /\ \A i \in 1 .. m : f[i] = g[i][f[i - 1]]
           T == {m \in 0 .. n : \E f : Upto(m, f)}
<1>1. 0 \in T
  <2> DEFINE f == [i \in 0 .. 0 |-> base]
  <2>1. Upto(0, f)
    OBVIOUS
  <2> HIDE DEF Upto, f
  <2>2. QED
    BY <2>1
<1>2. ASSUME NEW m \in 1 .. n, m - 1 \in T PROVE m \in T
  <2>1. PICK f : Upto(m - 1, f)
    BY <1>2
  <2> DEFINE h == [i \in 0 .. m |-> IF i = m THEN g[m][f[m - 1]] ELSE f[i]]
  <2>2. f[m - 1] \in S[m - 1] /\ g[m][f[m - 1]] \in S[m]
    BY <2>1
  <2>3. Upto(m, h)
    <3>1. h[0] = base /\ DOMAIN h = 0 .. m /\ h = [i \in 0 .. m |-> h[i]]
      BY <2>1
    <3>2. ASSUME NEW i \in 0 .. m PROVE h[i] \in S[i]
      BY <2>1, <2>2
    <3>3. ASSUME NEW i \in 1 .. m PROVE h[i] = g[i][h[i - 1]]
      <4>1. i - 1 \in 0 .. m /\ i - 1 # m /\ h[i - 1] = f[i - 1]
        OBVIOUS
      <4>2. CASE i = m
        BY <4>1, <4>2
      <4>3. CASE i # m
        <5>1. i \in 1 .. m - 1 /\ h[i] = f[i]
          BY <4>3
        <5>2. f[i] = g[i][f[i - 1]]
          BY <2>1, <5>1
        <5>3. QED
          BY <4>1, <5>1, <5>2
      <4>4. QED
        BY <4>2, <4>3
    <3>4. QED
      BY <3>1, <3>2, <3>3
  <2> HIDE DEF Upto, h
  <2>4. QED
    BY <2>3
<1>3. n \in T
  <2> HIDE DEF T
  <2>1. 0 .. n \subseteq T
    BY <1>1, <1>2, UpTo
  <2>2. QED
    BY <2>1
<1>4. PICK f : Upto(n, f)
  BY <1>3
<1>5. Iterates(f, n, base, g)
  <2>1. ASSUME NEW i \in 0 .. n PROVE f[i] = IF i = 0 THEN base ELSE g[i][f[i - 1]]
    <3>1. CASE i = 0
      BY <1>4, <3>1
    <3>2. CASE i # 0
      <4>1. i \in 1 .. n
        BY <3>2
      <4>2. f[i] = g[i][f[i - 1]]
        BY <1>4, <4>1
      <4>3. QED
        BY <3>2, <4>2
    <3>3. QED
      BY <3>1, <3>2
  <2>2. f = [i \in 0 .. n |-> f[i]]
    BY <1>4
  <2>3. QED
    BY <2>1, <2>2
<1>6. QED
  BY <1>5

\* Its values are in the sets.
LEMMA IterationStays ==
    ASSUME NEW S, NEW base \in S[0], NEW n \in Nat, NEW g, NEW f,
           Leads(g, n, S), Iterates(f, n, base, g)
    PROVE  \A i \in 0 .. n : f[i] \in S[i]
<1> USE DEF Leads, Iterates
<1> DEFINE T == {i \in 0 .. n : f[i] \in S[i]}
<1>1. 0 \in T
  OBVIOUS
<1>2. ASSUME NEW m \in 1 .. n, m - 1 \in T PROVE m \in T
  <2>1. f[m] = g[m][f[m - 1]]
    OBVIOUS
  <2>2. QED
    BY <1>2, <2>1
<1>3. QED
  <2> HIDE DEF T
  <2>1. 0 .. n \subseteq T
    BY <1>1, <1>2, UpTo
  <2>2. QED
    BY <2>1 DEF T

\* A first element in front of one or two.
LEMMA Joined ==
    ASSUME NEW x, NEW y, NEW z
    PROVE  <<x>> \o <<y>> = <<x, y>> /\ <<x>> \o <<y, z>> = <<x, y, z>>
<1> DEFINE A == {x, y, z}
<1>1. /\ <<x>> \in Seq(A) /\ <<y>> \in Seq(A) /\ <<y, z>> \in Seq(A)
      /\ <<x, y>> \in Seq(A) /\ <<x, y, z>> \in Seq(A)
  OBVIOUS
<1>2. Len(<<x>>) = 1 /\ Len(<<y>>) = 1 /\ Len(<<x, y>>) = 2 /\ Len(<<y, z>>) = 2
      /\ Len(<<x, y, z>>) = 3
  OBVIOUS
<1> HIDE DEF A
<1>3. <<x>> \o <<y>> = <<x, y>>
  <2> DEFINE s == <<x>> \o <<y>>
  <2>1. s \in Seq(A) /\ Len(s) = 2 /\ s[1] = x /\ s[2] = y
    BY <1>1, <1>2, ConcatProperties
  <2>2. \A i \in 1 .. 2 : s[i] = <<x, y>>[i]
    BY <2>1
  <2> HIDE DEF s
  <2>3. s = <<x, y>>
    BY <1>1, <1>2, <2>1, <2>2, SeqEqual
  <2>4. QED
    BY <2>3 DEF s
<1>4. <<x>> \o <<y, z>> = <<x, y, z>>
  <2> DEFINE s == <<x>> \o <<y, z>>
  <2>1. s \in Seq(A) /\ Len(s) = 3 /\ s[1] = x /\ s[2] = y /\ s[3] = z
    BY <1>1, <1>2, ConcatProperties
  <2>2. \A i \in 1 .. 3 : s[i] = <<x, y, z>>[i]
    BY <2>1
  <2> HIDE DEF s
  <2>3. s = <<x, y, z>>
    BY <1>1, <1>2, <2>1, <2>2, SeqEqual
  <2>4. QED
    BY <2>3 DEF s
<1>5. QED
  BY <1>3, <1>4

\* What Walk meets, link by link.
IsWalk(w, D, none, next, bound) ==
    /\ \A x \in D \cup {none} : Walk(x, next, none, bound) = w[bound][x]
    /\ \A n \in 0 .. bound : w[n][none] = <<>>
    /\ \A n \in 1 .. bound : \A x \in D : w[n][x] = <<x>> \o w[n - 1][next[x]]

\* The function that Walk chooses is one that does what its definition says.
LEMMA WalkByLink ==
    ASSUME NEW D, NEW none, none \notin D, NEW next \in [D -> D \cup {none}],
           NEW bound \in Nat
    PROVE  \E w : IsWalk(w, D, none, next, bound)
<1> DEFINE E == D \cup {none}
           S == [E -> Seq(D)]
           base == [x \in E |-> <<>>]
           g == [n \in 1 .. bound |-> [v \in S |->
                   [x \in E |-> IF x = none THEN <<>> ELSE <<x>> \o v[next[x]]]]]
           Eq(w) == w = [n \in 0 .. bound |->
                          [x \in DOMAIN next \cup {none} |->
                              IF n = 0 \/ x = none THEN <<>>
                              ELSE <<x>> \o w[n - 1][next[x]]]]
           W == CHOOSE w : Eq(w)
<1>1. base \in S
  OBVIOUS
<1>2. ASSUME NEW i \in 1 .. bound, NEW v \in S PROVE g[i][v] \in S
  <2>1. \A x \in E : x # none => x \in D /\ next[x] \in E
    OBVIOUS
  <2>2. \A x \in E : (IF x = none THEN <<>> ELSE <<x>> \o v[next[x]]) \in Seq(D)
    BY <2>1
  <2>3. g[i][v] = [x \in E |-> IF x = none THEN <<>> ELSE <<x>> \o v[next[x]]]
    OBVIOUS
  <2>4. QED
    BY <2>2, <2>3
<1> HIDE DEF g, base, S, Eq, W, E
<1> DEFINE SS == [n \in 0 .. bound |-> S]
<1>12. Leads(g, bound, SS) /\ base \in SS[0] /\ \A i \in 0 .. bound : SS[i] = S
  BY <1>1, <1>2 DEF Leads
<1> HIDE DEF SS
<1>3. PICK f : Iterates(f, bound, base, g)
  BY <1>12, IterationExists
<1>4. \A i \in 0 .. bound : f[i] \in S
  BY <1>12, <1>3, IterationStays
<1>5. Eq(f)
  <2> USE DEF E
  <2> DEFINE F(n) == [x \in DOMAIN next \cup {none} |->
                        IF n = 0 \/ x = none THEN <<>> ELSE <<x>> \o f[n - 1][next[x]]]
  <2>1. ASSUME NEW n \in 0 .. bound, n = 0 PROVE f[n] = F(n)
    BY <1>3, <2>1 DEF base, Iterates
  <2>2. ASSUME NEW n \in 0 .. bound, n # 0 PROVE f[n] = F(n)
    <3>1. n \in 1 .. bound /\ n - 1 \in 0 .. bound
      BY <2>2
    <3>2. f[n - 1] \in S
      BY <1>4, <3>1
    <3>3. f[n] = g[n][f[n - 1]]
      BY <1>3, <2>2 DEF Iterates
    <3>4. f[n] = [x \in E |-> IF x = none THEN <<>> ELSE <<x>> \o f[n - 1][next[x]]]
      BY <3>1, <3>2, <3>3 DEF g
    <3>5. QED
      BY <2>2, <3>4
  <2>3. DOMAIN f = 0 .. bound /\ f = [n \in 0 .. bound |-> f[n]]
    BY <1>3 DEF Iterates
  <2> HIDE DEF F
  <2>4. f = [n \in 0 .. bound |-> F(n)]
    BY <2>1, <2>2, <2>3
  <2>5. QED
    BY <2>4 DEF F, Eq
<1>6. Eq(W)
  BY <1>5 DEF W
<1>7. \A x \in D \cup {none} : Walk(x, next, none, bound) = W[bound][x]
  BY DEF Walk, W, Eq
<1>8. ASSUME NEW n \in 0 .. bound, NEW x \in D \cup {none}
      PROVE  W[n][x] = IF n = 0 \/ x = none THEN <<>> ELSE <<x>> \o W[n - 1][next[x]]
  <2>1. W[n] = [y \in DOMAIN next \cup {none} |->
                  IF n = 0 \/ y = none THEN <<>> ELSE <<y>> \o W[n - 1][next[y]]]
    BY <1>6 DEF Eq
  <2>2. QED
    BY <2>1
<1>9. \A n \in 0 .. bound : W[n][none] = <<>>
  BY <1>8
<1>10. ASSUME NEW n \in 1 .. bound, NEW x \in D
       PROVE  W[n][x] = <<x>> \o W[n - 1][next[x]]
  <2>1. n \in 0 .. bound /\ n # 0 /\ x # none
    OBVIOUS
  <2>2. QED
    BY <1>8, <2>1
<1>11. QED
  BY <1>7, <1>9, <1>10, Zenon DEF IsWalk

\* The lists of at most three.
LEMMA WalkOfShort ==
    ASSUME NEW D, NEW none, none \notin D, NEW next \in [D -> D \cup {none}],
           NEW bound \in Nat, bound >= 3
    PROVE  /\ Walk(none, next, none, bound) = <<>>
           /\ \A x \in D : next[x] = none => Walk(x, next, none, bound) = <<x>>
           /\ \A x \in D, y \in D : next[x] = y /\ next[y] = none =>
                 Walk(x, next, none, bound) = <<x, y>>
           /\ \A x \in D, y \in D, z \in D :
                 next[x] = y /\ next[y] = z /\ next[z] = none =>
                     Walk(x, next, none, bound) = <<x, y, z>>
<1>1. PICK w : IsWalk(w, D, none, next, bound)
  BY WalkByLink
<1>2. /\ \A x \in D \cup {none} : Walk(x, next, none, bound) = w[bound][x]
      /\ \A n \in 0 .. bound : w[n][none] = <<>>
      /\ \A n \in 1 .. bound : \A x \in D : w[n][x] = <<x>> \o w[n - 1][next[x]]
  BY <1>1, Zenon DEF IsWalk
<1>3. Walk(none, next, none, bound) = <<>>
  BY <1>2
<1>4. ASSUME NEW n \in 1 .. bound, NEW x \in D, next[x] = none PROVE w[n][x] = <<x>>
  <2>1. w[n - 1][none] = <<>> /\ w[n][x] = <<x>> \o w[n - 1][none]
    BY <1>2, <1>4
  <2>2. QED
    BY <2>1
<1>5. ASSUME NEW n \in 2 .. bound, NEW x \in D, NEW y \in D, next[x] = y, next[y] = none
      PROVE  w[n][x] = <<x, y>>
  <2>1. n - 1 \in 1 .. bound /\ n \in 1 .. bound
    OBVIOUS
  <2>2. w[n - 1][y] = <<y>>
    BY <1>4, <1>5, <2>1
  <2>3. w[n][x] = <<x>> \o w[n - 1][y]
    BY <1>2, <1>5, <2>1
  <2>4. QED
    BY <2>2, <2>3, Joined
<1>6. ASSUME NEW x \in D, NEW y \in D, NEW z \in D, next[x] = y, next[y] = z, next[z] = none
      PROVE  w[bound][x] = <<x, y, z>>
  <2>1. bound \in 1 .. bound /\ bound - 1 \in 2 .. bound
    OBVIOUS
  <2>2. w[bound][x] = <<x>> \o w[bound - 1][y]
    BY <1>2, <1>6, <2>1
  <2>3. w[bound - 1][y] = <<y, z>>
    <3>1. PICK n \in 2 .. bound : n = bound - 1
      BY <2>1
    <3>2. w[n][y] = <<y, z>>
      BY <1>5, <1>6, Zenon
    <3>3. QED
      BY <3>1, <3>2
  <2>4. w[bound][x] = <<x>> \o <<y, z>>
    BY <2>2, <2>3
  <2>5. <<x>> \o <<y, z>> = <<x, y, z>>
    BY Joined
  <2>6. QED
    BY <2>4, <2>5
<1>7. bound \in 1 .. bound /\ bound \in 2 .. bound
  OBVIOUS
<1>8. ASSUME NEW x \in D, next[x] = none PROVE Walk(x, next, none, bound) = <<x>>
  BY <1>2, <1>4, <1>7, <1>8
<1>9. ASSUME NEW x \in D, NEW y \in D, next[x] = y, next[y] = none
      PROVE  Walk(x, next, none, bound) = <<x, y>>
  BY <1>2, <1>5, <1>7, <1>9
<1>10. ASSUME NEW x \in D, NEW y \in D, NEW z \in D,
              next[x] = y, next[y] = z, next[z] = none
       PROVE  Walk(x, next, none, bound) = <<x, y, z>>
  BY <1>2, <1>6, <1>10
<1>11. QED
  BY <1>3, <1>8, <1>9, <1>10, Zenon

\* The smaller of two.
LEMMA MinOfTwo ==
    ASSUME NEW a \in Int, NEW b \in Int
    PROVE  Min({a, b}) = IF a <= b THEN a ELSE b
<1>1. \A c \in {a, b} : (\A y \in {a, b} : c <= y) <=> c = (IF a <= b THEN a ELSE b)
  OBVIOUS
<1>2. QED
  BY <1>1 DEF Min

\* What is left of a text that is cut.
LEMMA CutText ==
    ASSUME NEW S, NEW s \in Seq(S), NEW n \in Nat
    PROVE  /\ Cut(s, n) \in Seq(S)
           /\ Len(Cut(s, n)) = IF Len(s) <= n THEN Len(s) ELSE n
           /\ \A i \in 1 .. Len(Cut(s, n)) : Cut(s, n)[i] = s[i]
           /\ Len(s) <= n => Cut(s, n) = s
<1> DEFINE m == IF Len(s) <= n THEN Len(s) ELSE n
<1>1. Len(s) \in Nat /\ m \in 0 .. Len(s) /\ (m = 0 \/ 1 <= m) /\ m \in Int
  BY LenProperties
<1>2. Cut(s, n) = SubSeq(s, 1, m)
  BY <1>1, MinOfTwo DEF Cut
<1> HIDE DEF m
<1>3. SubSeq(s, 1, m) \in Seq(S) /\ Len(SubSeq(s, 1, m)) = m
      /\ \A i \in 1 .. m : SubSeq(s, 1, m)[i] = s[i]
  BY <1>1
<1>4. Len(s) <= n => SubSeq(s, 1, m) = s
  BY <1>1, SubSeqFull DEF m
<1>5. QED
  BY <1>2, <1>3, <1>4 DEF m

\* Cutting first changes nothing of what is cut after more was appended.
LEMMA CutTwice ==
    ASSUME NEW S, NEW s \in Seq(S), NEW t \in Seq(S), NEW n \in Nat
    PROVE  Cut(Cut(s, n) \o t, n) = Cut(s \o t, n)
<1> DEFINE c == Cut(s, n)
           x == Cut(c \o t, n)
           y == Cut(s \o t, n)
<1>1. c \in Seq(S) /\ Len(c) = (IF Len(s) <= n THEN Len(s) ELSE n)
      /\ \A i \in 1 .. Len(c) : c[i] = s[i]
  BY CutText
<1>2. /\ s \o t \in Seq(S) /\ Len(s \o t) = Len(s) + Len(t)
      /\ \A i \in 1 .. Len(s) + Len(t) :
            (s \o t)[i] = IF i <= Len(s) THEN s[i] ELSE t[i - Len(s)]
  BY ConcatProperties
<1>3. Len(s) \in Nat /\ Len(t) \in Nat
  BY LenProperties
<1> HIDE DEF c
<1>4. /\ c \o t \in Seq(S) /\ Len(c \o t) = Len(c) + Len(t)
      /\ \A i \in 1 .. Len(c) + Len(t) :
            (c \o t)[i] = IF i <= Len(c) THEN c[i] ELSE t[i - Len(c)]
  BY <1>1, ConcatProperties
<1>5. /\ x \in Seq(S) /\ Len(x) = (IF Len(c \o t) <= n THEN Len(c \o t) ELSE n)
      /\ \A i \in 1 .. Len(x) : x[i] = (c \o t)[i]
  BY <1>4, CutText
<1>6. /\ y \in Seq(S) /\ Len(y) = (IF Len(s \o t) <= n THEN Len(s \o t) ELSE n)
      /\ \A i \in 1 .. Len(y) : y[i] = (s \o t)[i]
  BY <1>2, CutText
<1>7. Len(x) = Len(y)
  BY <1>1, <1>2, <1>3, <1>4, <1>5, <1>6
<1>8. ASSUME NEW i \in 1 .. Len(x) PROVE x[i] = y[i]
  <2>1. i \in 1 .. Len(c) + Len(t) /\ i \in 1 .. Len(s) + Len(t) /\ i <= n /\ i \in Nat
    BY <1>1, <1>2, <1>3, <1>4, <1>5, <1>6, <1>7
  <2>2. x[i] = (c \o t)[i] /\ y[i] = (s \o t)[i]
    BY <1>5, <1>6, <1>7
  <2>3. (s \o t)[i] = IF i <= Len(s) THEN s[i] ELSE t[i - Len(s)]
    BY <1>2, <2>1
  <2>4. (c \o t)[i] = IF i <= Len(c) THEN c[i] ELSE t[i - Len(c)]
    BY <1>4, <2>1
  <2>5. CASE Len(s) <= n
    BY <1>1, <1>3, <2>1, <2>2, <2>3, <2>4, <2>5
  <2>6. CASE ~(Len(s) <= n)
    BY <1>1, <1>3, <2>1, <2>2, <2>3, <2>4, <2>6
  <2>7. QED
    BY <2>5, <2>6
<1> HIDE DEF x, y
<1>9. x = y
  BY <1>5, <1>6, <1>7, <1>8, SeqEqual
<1>10. QED
  BY <1>9 DEF x, y, c

\* A text that fills the buffer is all that is seen of what begins with it.
LEMMA CutFull ==
    ASSUME NEW S, NEW s \in Seq(S), NEW t \in Seq(S), NEW n \in Nat, Len(s) = n
    PROVE  Cut(s \o t, n) = s
<1> DEFINE y == Cut(s \o t, n)
<1>1. /\ s \o t \in Seq(S) /\ Len(s \o t) = Len(s) + Len(t)
      /\ \A i \in 1 .. Len(s) + Len(t) :
            (s \o t)[i] = IF i <= Len(s) THEN s[i] ELSE t[i - Len(s)]
  BY ConcatProperties
<1>2. Len(s) \in Nat /\ Len(t) \in Nat
  BY LenProperties
<1>3. /\ y \in Seq(S) /\ Len(y) = (IF Len(s \o t) <= n THEN Len(s \o t) ELSE n)
      /\ \A i \in 1 .. Len(y) : y[i] = (s \o t)[i]
  <2> DEFINE u == s \o t
  <2>1. u \in Seq(S)
    BY <1>1
  <2> HIDE DEF u
  <2>2. /\ Cut(u, n) \in Seq(S) /\ Len(Cut(u, n)) = (IF Len(u) <= n THEN Len(u) ELSE n)
        /\ \A i \in 1 .. Len(Cut(u, n)) : Cut(u, n)[i] = u[i]
    BY <2>1, CutText
  <2>3. QED
    BY <2>2 DEF u
<1>4. Len(y) = Len(s)
  <2>1. Len(s \o t) = Len(s) + Len(t)
    BY <1>1
  <2>2. Len(y) = IF Len(s \o t) <= n THEN Len(s \o t) ELSE n
    BY <1>3
  <2>3. QED
    BY <1>2, <2>1, <2>2
<1>5. ASSUME NEW i \in 1 .. Len(s) PROVE y[i] = s[i]
  <2>1. i \in 1 .. Len(s) + Len(t) /\ i <= Len(s) /\ i \in 1 .. Len(y)
    BY <1>2, <1>4
  <2>2. y[i] = (s \o t)[i]
    BY <1>3, <2>1
  <2>3. (s \o t)[i] = IF i <= Len(s) THEN s[i] ELSE t[i - Len(s)]
    BY <1>1, <2>1
  <2>4. QED
    BY <2>1, <2>2, <2>3
<1> HIDE DEF y
<1>6. y = s
  BY <1>3, <1>4, <1>5, SeqEqual
<1>7. QED
  BY <1>6 DEF y

-----------------------------------------------------------------------------
(***************************************************************************)
(* strsub_parse.                                                           *)
(***************************************************************************)
\* At most one handler for a token.
OneHandler ==
    \A t \in Tokens :
        /\ head[t] = NoHandler => Chain(t) = <<>>
        /\ head[t] # NoHandler => \E h \in Handlers : Chain(t) = <<h>>

\* The handlers answer in texts.
InTexts(answer, line) ==
    \A h \in Handlers : \A w \in Words(line) : answer[h][w] \in Seq(Chars)

\* What Expand makes of a line from a place on, given what it makes of the rest.
ClosingsOf(line, i) ==
    {j \in i + 1 .. Len(line) : \E t \in Opens(line[i]) : line[j] = Closing[t]}
AnswersTo(line, answer, i, j) ==
    {answer[h][SubSeq(line, i + 1, j - 1)] :
        h \in UNION {ToSet(Chain(t)) : t \in Opens(line[i])}} \ {<<>>}
ExpandedWord(line, answer, i, j) ==
    IF AnswersTo(line, answer, i, j) = {} THEN SubSeq(line, i, j)
    ELSE CHOOSE r \in AnswersTo(line, answer, i, j) : TRUE
ExpandedFrom(line, answer, e, i) ==
    IF i > Len(line) THEN <<>>
    ELSE IF line[i] = "esc"
      THEN (IF i < Len(line) THEN <<line[i + 1]>> ELSE <<>>) \o e[i + 2]
    ELSE IF Opens(line[i]) = {} THEN <<line[i]>> \o e[i + 1]
    ELSE IF ClosingsOf(line, i) = {} THEN <<>>
    ELSE ExpandedWord(line, answer, i, Min(ClosingsOf(line, i)))
            \o e[Min(ClosingsOf(line, i)) + 1]
IsExpansion(e, line, answer) ==
    e = [i \in 1 .. Len(line) + 2 |-> ExpandedFrom(line, answer, e, i)]

\* The local definitions of Expand, named.
LEMMA ExpandByPlace ==
    ASSUME NEW line, NEW answer
    PROVE  Expand(line, answer) = (CHOOSE e : IsExpansion(e, line, answer))[1]
BY DEF Expand, IsExpansion, ExpandedFrom, ExpandedWord, ClosingsOf, AnswersTo

\* A character opens one token, and the backslash none.
LEMMA OpensOne ==
    ASSUME NEW c
    PROVE  /\ Opens(c) \subseteq Tokens
           /\ \A t \in Opens(c) : Opens(c) = {t} /\ c = Opening[t] /\ head[t] # NoHandler
           /\ c = "esc" => Opens(c) = {}
<1>1. \A t \in Tokens : Opening[t] # "esc"
  BY DEF Tokens, Opening
<1>2. \A t \in Tokens, u \in Tokens : Opening[t] = Opening[u] => t = u
  BY DEF Tokens, Opening
<1>3. QED
  BY <1>1, <1>2 DEF Opens

\* The word after an opening character, up to the first that closes it.
LEMMA WordAt ==
    ASSUME NEW line \in Seq(Chars), NEW i \in 1 .. Len(line), NEW t \in Opens(line[i]),
           NEW j \in ClosingsOf(line, i)
    PROVE  SubSeq(line, i + 1, j - 1) \in Words(line)
<1>1. t \in Tokens /\ line[i] = Opening[t] /\ Opens(line[i]) = {t}
  BY OpensOne
<1>2. j \in 1 .. Len(line) /\ line[j] = Closing[t]
  BY <1>1, LenProperties DEF ClosingsOf
<1>3. DOMAIN line = 1 .. Len(line)
  BY LenProperties
<1> DEFINE at(c) == {k \in DOMAIN line : line[k] = c}
           G(k, l) == SubSeq(line, k + 1, l - 1)
           W(u) == {G(k, l) : k \in at(Opening[u]), l \in at(Closing[u])}
<1>4. i \in at(Opening[t]) /\ j \in at(Closing[t])
  BY <1>1, <1>2, <1>3
<1>5. Words(line) = UNION {W(u) : u \in Tokens}
  BY DEF Words
<1> HIDE DEF at, G
<1>6. G(i, j) \in W(t)
  BY <1>4
<1> HIDE DEF W
<1>7. QED
  BY <1>1, <1>5, <1>6 DEF G

\* The first character that closes a word.
LEMMA ClosingFirst ==
    ASSUME NEW line \in Seq(Chars), NEW i \in 1 .. Len(line), ClosingsOf(line, i) # {}
    PROVE  /\ Min(ClosingsOf(line, i)) \in ClosingsOf(line, i)
           /\ Min(ClosingsOf(line, i)) \in i + 1 .. Len(line)
           /\ \A j \in ClosingsOf(line, i) : Min(ClosingsOf(line, i)) <= j
<1>1. ClosingsOf(line, i) \in SUBSET (i + 1 .. Len(line)) /\ Len(line) \in Nat
  BY LenProperties DEF ClosingsOf
<1>2. ClosingsOf(line, i) \in SUBSET Nat
  BY <1>1
<1>3. QED
  BY <1>1, <1>2, MinOfNat

\* The first answer is the only one.
LEMMA WordIsText ==
    ASSUME OneHandler, NEW line \in Seq(Chars), NEW answer, InTexts(answer, line),
           NEW i \in 1 .. Len(line), Opens(line[i]) # {}, NEW j \in ClosingsOf(line, i)
    PROVE  ExpandedWord(line, answer, i, j) \in Seq(Chars)
<1>1. PICK t : t \in Opens(line[i])
  OBVIOUS
<1>2. Opens(line[i]) = {t} /\ t \in Tokens /\ head[t] # NoHandler
  BY <1>1, OpensOne
<1>3. PICK h \in Handlers : Chain(t) = <<h>>
  BY <1>2 DEF OneHandler
<1>4. ToSet(Chain(t)) = {h}
  BY <1>3 DEF ToSet
<1> DEFINE w == SubSeq(line, i + 1, j - 1)
<1>5. AnswersTo(line, answer, i, j) \subseteq {answer[h][w]}
  BY <1>2, <1>4 DEF AnswersTo
<1>6. answer[h][w] \in Seq(Chars)
  BY <1>1, WordAt DEF InTexts
<1>7. SubSeq(line, i, j) \in Seq(Chars)
  BY LenProperties DEF ClosingsOf
<1> HIDE DEF w
<1>8. CASE AnswersTo(line, answer, i, j) = {}
  BY <1>7, <1>8 DEF ExpandedWord
<1>9. CASE AnswersTo(line, answer, i, j) # {}
  BY <1>5, <1>6, <1>9 DEF ExpandedWord
<1>10. QED
  BY <1>8, <1>9

\* The three lemmas below: a place is expanded to a text, by what the places after
\* it are expanded to, and so there is an expansion.
\* The cases in which a place of a line is expanded.
ByCases(line, answer, e, i) ==
    /\ i > Len(line) => ExpandedFrom(line, answer, e, i) = <<>>
    /\ i = Len(line) /\ line[i] = "esc" =>
          ExpandedFrom(line, answer, e, i) = <<>> \o e[i + 2]
    /\ i < Len(line) /\ line[i] = "esc" =>
          ExpandedFrom(line, answer, e, i) = <<line[i + 1]>> \o e[i + 2]
    /\ i <= Len(line) /\ Opens(line[i]) # {} /\ ClosingsOf(line, i) = {} =>
          ExpandedFrom(line, answer, e, i) = <<>>
    /\ i <= Len(line) /\ Opens(line[i]) # {} /\ ClosingsOf(line, i) # {} =>
          ExpandedFrom(line, answer, e, i) =
              ExpandedWord(line, answer, i, Min(ClosingsOf(line, i)))
                  \o e[Min(ClosingsOf(line, i)) + 1]
    /\ i <= Len(line) /\ line[i] # "esc" /\ Opens(line[i]) = {} =>
          ExpandedFrom(line, answer, e, i) = <<line[i]>> \o e[i + 1]

\* What stands at a place, in the four cases there are.
LEMMA ExpandedCases ==
    ASSUME NEW line \in Seq(Chars), NEW answer, NEW e, NEW i \in 1 .. Len(line) + 2
    PROVE  ByCases(line, answer, e, i)
<1>1. Len(line) \in Nat /\ i \in Nat
  BY LenProperties
<1>2. i <= Len(line) /\ Opens(line[i]) # {} => line[i] # "esc"
  BY OpensOne
<1>3. (i <= Len(line) \/ i = Len(line) \/ i < Len(line)) => ~(i > Len(line))
  BY <1>1
<1>4. i = Len(line) => ~(i < Len(line))
  BY <1>1
<1>5. i > Len(line) => ExpandedFrom(line, answer, e, i) = <<>>
  BY Zenon DEF ExpandedFrom
<1>6. i = Len(line) /\ line[i] = "esc" =>
         ExpandedFrom(line, answer, e, i) = <<>> \o e[i + 2]
  BY <1>3, <1>4, Zenon DEF ExpandedFrom
<1>7. i < Len(line) /\ line[i] = "esc" =>
         ExpandedFrom(line, answer, e, i) = <<line[i + 1]>> \o e[i + 2]
  BY <1>3, Zenon DEF ExpandedFrom
<1>8. i <= Len(line) /\ Opens(line[i]) # {} /\ ClosingsOf(line, i) = {} =>
         ExpandedFrom(line, answer, e, i) = <<>>
  BY <1>2, <1>3, Zenon DEF ExpandedFrom
<1>9. i <= Len(line) /\ Opens(line[i]) # {} /\ ClosingsOf(line, i) # {} =>
         ExpandedFrom(line, answer, e, i) =
             ExpandedWord(line, answer, i, Min(ClosingsOf(line, i)))
                 \o e[Min(ClosingsOf(line, i)) + 1]
  BY <1>2, <1>3, Zenon DEF ExpandedFrom
<1>10. i <= Len(line) /\ line[i] # "esc" /\ Opens(line[i]) = {} =>
         ExpandedFrom(line, answer, e, i) = <<line[i]>> \o e[i + 1]
  BY <1>3, Zenon DEF ExpandedFrom
<1>11. QED
  BY <1>5, <1>6, <1>7, <1>8, <1>9, <1>10, Zenon DEF ByCases

\* What stands at a place is a text when what follows is.
LEMMA ExpandedIsText ==
    ASSUME OneHandler, NEW line \in Seq(Chars), NEW answer, InTexts(answer, line),
           NEW i \in 1 .. Len(line) + 2, NEW e,
           \A j \in i + 1 .. Len(line) + 2 : e[j] \in Seq(Chars)
    PROVE  ExpandedFrom(line, answer, e, i) \in Seq(Chars)
<1> DEFINE m == Min(ClosingsOf(line, i))
           x == ExpandedFrom(line, answer, e, i)
<1> HIDE DEF x
<1>0. ByCases(line, answer, e, i)
  BY ExpandedCases
<1>1. Len(line) \in Nat /\ i \in Nat
  BY LenProperties
<1>2. CASE i > Len(line)
  <2>1. x = <<>>
    BY <1>0, <1>1, <1>2 DEF x, ByCases
  <2>2. QED
    BY <2>1 DEF x
<1>3. CASE i <= Len(line) /\ line[i] = "esc"
  <2>1. e[i + 2] \in Seq(Chars)
    BY <1>1, <1>3
  <2>2. CASE i < Len(line)
    <3>1. <<line[i + 1]>> \in Seq(Chars)
      BY <1>1, <2>2
    <3>2. x = <<line[i + 1]>> \o e[i + 2]
      BY <1>0, <1>1, <1>3, <2>2 DEF x, ByCases
    <3>3. QED
      BY <2>1, <3>1, <3>2, ConcatProperties DEF x
  <2>3. CASE i = Len(line)
    <3>1. x = <<>> \o e[i + 2]
      BY <1>0, <1>1, <1>3, <2>3 DEF x, ByCases
    <3>2. QED
      BY <2>1, <3>1, ConcatEmptySeq DEF x
  <2>4. QED
    BY <1>1, <1>3, <2>2, <2>3
<1>4. CASE i <= Len(line) /\ Opens(line[i]) # {}
  <2>1. i \in 1 .. Len(line)
    BY <1>1, <1>4
  <2>2. CASE ClosingsOf(line, i) = {}
    <3>1. x = <<>>
      BY <1>0, <1>1, <1>4, <2>2 DEF x, ByCases
    <3>2. QED
      BY <3>1 DEF x
  <2>3. CASE ClosingsOf(line, i) # {}
    <3>1. m \in ClosingsOf(line, i) /\ m \in i + 1 .. Len(line)
      BY <2>1, <2>3, ClosingFirst
    <3>2. ExpandedWord(line, answer, i, m) \in Seq(Chars)
      BY <1>4, <2>1, <3>1, WordIsText
    <3>3. e[m + 1] \in Seq(Chars)
      BY <1>1, <2>1, <3>1
    <3>4. x = ExpandedWord(line, answer, i, m) \o e[m + 1]
      BY <1>0, <1>1, <1>4, <2>3 DEF x, ByCases
    <3>5. QED
      BY <3>2, <3>3, <3>4, ConcatProperties DEF x
  <2>4. QED
    BY <2>2, <2>3
<1>5. CASE i <= Len(line) /\ line[i] # "esc" /\ Opens(line[i]) = {}
  <2>1. e[i + 1] \in Seq(Chars)
    BY <1>1, <1>5
  <2>2. <<line[i]>> \in Seq(Chars)
    BY <1>1, <1>5
  <2>3. x = <<line[i]>> \o e[i + 1]
    BY <1>0, <1>1, <1>5 DEF x, ByCases
  <2>4. QED
    BY <2>1, <2>2, <2>3, ConcatProperties DEF x
<1>6. QED
  BY <1>1, <1>2, <1>3, <1>4, <1>5

\* What stands at a place depends on the places behind it only.
LEMMA ExpandedLooksOn ==
    ASSUME NEW line \in Seq(Chars), NEW answer,
           NEW i \in 1 .. Len(line) + 2, NEW e, NEW h,
           \A j \in i + 1 .. Len(line) + 2 : e[j] = h[j]
    PROVE  ExpandedFrom(line, answer, e, i) = ExpandedFrom(line, answer, h, i)
<1> DEFINE m == Min(ClosingsOf(line, i))
<1>0. ByCases(line, answer, e, i) /\ ByCases(line, answer, h, i)
  BY ExpandedCases
<1>1. Len(line) \in Nat /\ i \in Nat
  BY LenProperties
<1>2. CASE i > Len(line)
  BY <1>0, <1>1, <1>2 DEF ByCases
<1>3. CASE i <= Len(line) /\ line[i] = "esc"
  <2>1. e[i + 2] = h[i + 2] /\ (i < Len(line) \/ i = Len(line))
    BY <1>1, <1>3
  <2>2. QED
    BY <1>0, <1>1, <1>3, <2>1 DEF ByCases
<1>4. CASE i <= Len(line) /\ Opens(line[i]) # {}
  <2>1. i \in 1 .. Len(line)
    BY <1>1, <1>4
  <2>2. CASE ClosingsOf(line, i) = {}
    BY <1>0, <1>1, <1>4, <2>2 DEF ByCases
  <2>3. CASE ClosingsOf(line, i) # {}
    <3>1. m \in i + 1 .. Len(line)
      BY <2>1, <2>3, ClosingFirst
    <3>2. e[m + 1] = h[m + 1]
      BY <1>1, <2>1, <3>1
    <3>3. QED
      BY <1>0, <1>1, <1>4, <2>3, <3>2 DEF ByCases
  <2>4. QED
    BY <2>2, <2>3
<1>5. CASE i <= Len(line) /\ line[i] # "esc" /\ Opens(line[i]) = {}
  <2>1. e[i + 1] = h[i + 1]
    BY <1>1, <1>5
  <2>2. QED
    BY <1>0, <1>1, <1>5, <2>1 DEF ByCases
<1>6. QED
  BY <1>1, <1>2, <1>3, <1>4, <1>5

\* So there is a function that satisfies the definition of Expand, and Expand is its
\* value.
LEMMA ExpansionExists ==
    ASSUME OneHandler, NEW line \in Seq(Chars), NEW answer, InTexts(answer, line)
    PROVE  \E e : IsExpansion(e, line, answer)
<1> DEFINE n == Len(line) + 2
           Done(e, k) == /\ e \in [1 .. n -> Seq(Chars)]
                         /\ \A i \in 1 .. n : i > n - k =>
                                e[i] = ExpandedFrom(line, answer, e, i)
           T == {k \in 0 .. n : \E e : Done(e, k)}
<1>1. Len(line) \in Nat /\ n \in Nat
  BY LenProperties
<1>2. 0 \in T
  <2> DEFINE f == [i \in 1 .. n |-> <<>>]
  <2>1. Done(f, 0)
    BY <1>1
  <2> HIDE DEF Done, f, n
  <2>2. QED
    BY <1>1, <2>1
<1>3. ASSUME NEW k \in 1 .. n, k - 1 \in T PROVE k \in T
  <2>1. PICK e : Done(e, k - 1)
    BY <1>3
  <2> DEFINE p == n - k + 1
             h == [i \in 1 .. n |-> IF i = p THEN ExpandedFrom(line, answer, e, i) ELSE e[i]]
  <2>2. p \in 1 .. n
    BY <1>1
  <2>3. \A i \in 1 .. n : e[i] \in Seq(Chars)
    BY <2>1
  <2>4. ExpandedFrom(line, answer, e, p) \in Seq(Chars)
    BY <1>1, <2>2, <2>3, ExpandedIsText
  <2>5. h \in [1 .. n -> Seq(Chars)]
    BY <2>3, <2>4
  <2>6. ASSUME NEW i \in 1 .. n, i > n - k PROVE h[i] = ExpandedFrom(line, answer, h, i)
    <3>1. \A j \in i + 1 .. Len(line) + 2 : e[j] = h[j]
      BY <1>1, <2>6
    <3> HIDE DEF h
    <3>2. ExpandedFrom(line, answer, e, i) = ExpandedFrom(line, answer, h, i)
      BY <3>1, ExpandedLooksOn
    <3>3. CASE i = p
      BY <3>2, <3>3 DEF h
    <3>4. CASE i # p
      <4>1. i > n - (k - 1)
        BY <1>1, <2>6, <3>4
      <4>2. e[i] = ExpandedFrom(line, answer, e, i)
        BY <2>1, <4>1
      <4>3. QED
        BY <3>2, <3>4, <4>2 DEF h
    <3>5. QED
      BY <3>3, <3>4
  <2>7. Done(h, k)
    BY <2>5, <2>6
  <2> HIDE DEF Done, h, n
  <2>8. QED
    BY <1>1, <2>7
<1>4. n \in T
  <2> HIDE DEF T, n
  <2>1. 0 .. n \subseteq T
    BY <1>1, <1>2, <1>3, UpTo
  <2>2. QED
    BY <1>1, <2>1
<1>5. PICK e : Done(e, n)
  BY <1>4
<1>6. \A i \in 1 .. n : e[i] = ExpandedFrom(line, answer, e, i)
  BY <1>1, <1>5
<1>7. e = [i \in 1 .. n |-> e[i]]
  BY <1>5
<1>8. IsExpansion(e, line, answer)
  BY <1>6, <1>7 DEF IsExpansion
<1>9. QED
  BY <1>8

\* The state of the scanner after the first i characters, in a buffer that takes n.
\* Cut(e[1], n) is what the whole line comes to; so far the buffer holds its
\* beginning, and what follows comes from the place the scanner is at, the
\* backslash before it, or the token it is behind.
ParseStates == [state : Tokens \cup {"dull", "esc"}, word : Seq(Chars),
                text : Seq(Chars), full : BOOLEAN]

LeadsTo(e, n, txt, i) == Cut(e[1], n) = Cut(txt \o e[i], n)

Scanned(line, e, n, i) ==
    {a \in ParseStates :
        /\ Len(a.text) <= n
        /\ a.full => Cut(e[1], n) = a.text
        /\ ~a.full /\ a.state = "dull" => a.word = <<>> /\ LeadsTo(e, n, a.text, i + 1)
        /\ ~a.full /\ a.state = "esc" =>
              /\ i \in 1 .. Len(line) /\ line[i] = "esc"
              /\ a.word = <<>> /\ LeadsTo(e, n, a.text, i)
        /\ ~a.full /\ a.state \in Tokens =>
              \E o \in 1 .. i :
                  /\ a.state \in Opens(line[o])
                  /\ a.word = SubSeq(line, o + 1, i)
                  /\ \A j \in o + 1 .. i : line[j] # Closing[a.state]
                  /\ LeadsTo(e, n, a.text, o)}

\* strsub_cb writes what was to come next.
CopyLeads(a, b, e, n, i) ==
    /\ b.state = a.state /\ b.word = a.word
    /\ b \in ParseStates /\ Len(b.text) <= n
    /\ b.full => Cut(e[1], n) = b.text
    /\ ~b.full => LeadsTo(e, n, b.text, i)

\* A text is cut to what fits.
LEMMA CutFits ==
    ASSUME NEW x \in Seq(Chars), NEW n \in Nat
    PROVE  Cut(x, n) \in Seq(Chars) /\ Len(Cut(x, n)) <= n
<1>1. Cut(x, n) \in Seq(Chars)
  BY CutText
<1>2. Len(Cut(x, n)) = IF Len(x) <= n THEN Len(x) ELSE n
  BY CutText
<1>3. QED
  BY <1>1, <1>2, LenProperties

\* What a buffer of n characters holds of a text when another is written behind it.
Written(txt, str, rest, n) ==
    /\ Cut(txt \o str, n) \in Seq(Chars) /\ Len(Cut(txt \o str, n)) <= n
    /\ Cut(Cut(txt \o str, n) \o rest, n) = Cut(txt \o (str \o rest), n)
    /\ Len(txt) >= n => Cut(txt \o (str \o rest), n) = txt

\* What is written of a text that is cut is what is written of all of it.
LEMMA WrittenCuts ==
    ASSUME NEW txt \in Seq(Chars), NEW str \in Seq(Chars), NEW rest \in Seq(Chars),
           NEW n \in Nat, Len(txt) <= n
    PROVE  Written(txt, str, rest, n)
<1>1. txt \o (str \o rest) = (txt \o str) \o rest
  BY ConcatAssociative
<1>2. txt \o str \in Seq(Chars) /\ str \o rest \in Seq(Chars) /\ Len(txt) \in Nat
  BY ConcatProperties
<1>3. Cut(txt \o str, n) \in Seq(Chars) /\ Len(Cut(txt \o str, n)) <= n
  BY <1>2, CutFits
<1>4. Cut(Cut(txt \o str, n) \o rest, n) = Cut((txt \o str) \o rest, n)
  BY <1>2, CutTwice
<1>5. ASSUME Len(txt) >= n PROVE Cut(txt \o (str \o rest), n) = txt
  <2>1. Len(txt) = n
    BY <1>2, <1>5
  <2>2. QED
    BY <1>2, <2>1, CutFull
<1>6. QED
  BY <1>1, <1>3, <1>4, <1>5 DEF Written

\* strsub_cb: a copy brings the text forward by what it copies, or finds the buffer full.
LEMMA CopiedLeads ==
    ASSUME NEW a \in ParseStates, NEW cap \in Nat \ {0}, Len(a.text) <= cap - 1,
           ~a.full, NEW str \in Seq(Chars), NEW e, NEW o, NEW i, e[i] \in Seq(Chars),
           e[o] = str \o e[i], LeadsTo(e, cap - 1, a.text, o)
    PROVE  CopyLeads(a, Copied(a, str, cap), e, cap - 1, i)
<1> DEFINE n == cap - 1
           b == Copied(a, str, cap)
           txt == a.text
           rest == e[i]
           t == Cut(txt \o str, n)
<1>1. n \in Nat /\ txt \in Seq(Chars) /\ Len(txt) \in Nat /\ rest \in Seq(Chars)
      /\ Len(txt) <= n
  BY LenProperties DEF ParseStates
<1>2. Cut(e[1], n) = Cut(txt \o (str \o rest), n)
  BY DEF LeadsTo
<1>3. b = IF Len(txt) >= n THEN [a EXCEPT !.full = TRUE] ELSE [a EXCEPT !.text = t]
  BY DEF Copied
<1>4. /\ txt = a.text /\ rest = e[i] /\ n = cap - 1
      /\ b = Copied(a, str, cap)
  OBVIOUS
<1> HIDE DEF n, b, txt, rest
<1>5. Written(txt, str, rest, n)
  BY <1>1, WrittenCuts
<1>8. t = Cut(txt \o str, n)
  OBVIOUS
<1> HIDE DEF t
<1>6. CASE Len(txt) >= n
  <2>1. /\ b.text = txt /\ b.state = a.state /\ b.word = a.word /\ b.full
        /\ b \in ParseStates
    BY <1>3, <1>4, <1>6 DEF ParseStates
  <2>2. CopyLeads(a, b, e, n, i)
    BY <1>1, <1>2, <1>5, <1>6, <2>1 DEF CopyLeads, Written
  <2>3. QED
    BY <1>4, <2>2
<1>7. CASE ~(Len(txt) >= n)
  <2>1. /\ b.text = t /\ b.state = a.state /\ b.word = a.word /\ ~b.full
        /\ b \in ParseStates
    BY <1>3, <1>5, <1>7, <1>8 DEF ParseStates, Written
  <2>2. LeadsTo(e, n, b.text, i)
    BY <1>2, <1>4, <1>5, <1>8, <2>1 DEF LeadsTo, Written
  <2>3. CopyLeads(a, b, e, n, i)
    BY <1>5, <1>8, <2>1, <2>2 DEF CopyLeads, Written
  <2>4. QED
    BY <1>4, <2>3
<1>9. QED
  BY <1>6, <1>7

\* An expansion is made of texts.
LEMMA ExpansionIsText ==
    ASSUME OneHandler, NEW line \in Seq(Chars), NEW answer, InTexts(answer, line),
           NEW e, IsExpansion(e, line, answer)
    PROVE  \A i \in 1 .. Len(line) + 2 :
              e[i] \in Seq(Chars) /\ e[i] = ExpandedFrom(line, answer, e, i)
<1> DEFINE n == Len(line) + 2
           T == {k \in 0 .. n : \A i \in 1 .. n : i > n - k => e[i] \in Seq(Chars)}
<1>1. n \in Nat /\ Len(line) \in Nat
  BY LenProperties
<1>2. \A i \in 1 .. n : e[i] = ExpandedFrom(line, answer, e, i)
  BY DEF IsExpansion
<1>3. 0 \in T
  BY <1>1
<1>4. ASSUME NEW k \in 1 .. n, k - 1 \in T PROVE k \in T
  <2>1. \A i \in 1 .. n : i > n - (k - 1) => e[i] \in Seq(Chars)
    BY <1>4
  <2>2. ASSUME NEW i \in 1 .. n, i > n - k PROVE e[i] \in Seq(Chars)
    <3>1. \A j \in i + 1 .. Len(line) + 2 : e[j] \in Seq(Chars)
      BY <1>1, <2>1, <2>2
    <3>2. ExpandedFrom(line, answer, e, i) \in Seq(Chars)
      BY <3>1, ExpandedIsText
    <3>3. QED
      BY <1>2, <3>2
  <2>3. QED
    BY <2>2
<1>5. n \in T
  <2> HIDE DEF T, n
  <2>1. 0 .. n \subseteq T
    BY <1>1, <1>3, <1>4, UpTo
  <2>2. QED
    BY <1>1, <2>1
<1>6. QED
  BY <1>1, <1>2, <1>5

\* A word and the character after it.
LEMMA AppendedLast ==
    ASSUME NEW x \in Seq(Chars), NEW c \in Chars
    PROVE  (x \o <<c>>)[Len(x) + 1] = c
<1> DEFINE u == <<c>>
<1>1. u \in Seq(Chars) /\ Len(u) = 1 /\ u[1] = c
  OBVIOUS
<1> HIDE DEF u
<1>2. Len(x) \in Nat
  BY LenProperties
<1>3. /\ Len(x \o u) = Len(x) + Len(u)
      /\ \A i \in 1 .. Len(x) + Len(u) :
            (x \o u)[i] = IF i <= Len(x) THEN x[i] ELSE u[i - Len(x)]
  BY <1>1, ConcatProperties
<1>4. (Len(x) + 1) - Len(x) = 1 /\ Len(x) + 1 \in 1 .. Len(x) + Len(u)
      /\ ~(Len(x) + 1 <= Len(x))
  BY <1>1, <1>2
<1>5. (x \o u)[Len(x) + 1] = u[1]
  BY <1>3, <1>4
<1>6. QED
  BY <1>1, <1>5 DEF u

\* A word joined with what stands around it.
LEMMA WordInTokens ==
    ASSUME NEW line \in Seq(Chars), NEW o \in 1 .. Len(line), NEW i \in o + 1 .. Len(line)
    PROVE  (<<line[o]>> \o SubSeq(line, o + 1, i - 1)) \o <<line[i]>> = SubSeq(line, o, i)
<1> DEFINE w == SubSeq(line, o + 1, i - 1)
           x == <<line[o]>> \o w
           y == x \o <<line[i]>>
           z == SubSeq(line, o, i)
           m == i - o
<1>1. Len(line) \in Nat /\ m \in Nat /\ m >= 1 /\ o \in Nat /\ i \in Nat
  OBVIOUS
<1>2. /\ w \in Seq(Chars) /\ Len(w) = m - 1
      /\ \A k \in 1 .. m - 1 : w[k] = line[o + k]
  BY <1>1
<1>3. /\ z \in Seq(Chars) /\ Len(z) = m + 1
      /\ \A k \in 1 .. m + 1 : z[k] = line[o + k - 1]
  BY <1>1
<1>4. /\ <<line[o]>> \in Seq(Chars) /\ <<line[i]>> \in Seq(Chars)
      /\ Len(<<line[o]>>) = 1 /\ Len(<<line[i]>>) = 1
      /\ <<line[o]>>[1] = line[o] /\ <<line[i]>>[1] = line[i]
  OBVIOUS
<1> HIDE DEF w, z
<1>5. /\ x \in Seq(Chars) /\ Len(x) = m
      /\ \A k \in 1 .. m : x[k] = line[o + k - 1]
  <2>1. x \in Seq(Chars) /\ Len(x) = m
    BY <1>1, <1>2, <1>4, ConcatProperties
  <2>2. x[1] = line[o]
    BY <1>1, <1>2, <1>4, ConcatProperties
  <2>3. ASSUME NEW k \in 2 .. m PROVE x[k] = line[o + k - 1]
    <3>1. x[k] = w[k - 1]
      BY <1>1, <1>2, <1>4, ConcatProperties
    <3>2. k - 1 \in 1 .. m - 1
      BY <1>1
    <3>3. w[k - 1] = line[o + (k - 1)]
      BY <1>2, <3>2
    <3>4. QED
      BY <1>1, <3>1, <3>3
  <2> HIDE DEF x
  <2>4. QED
    BY <1>1, <2>1, <2>2, <2>3
<1> HIDE DEF x, m
<1>6. /\ y \in Seq(Chars) /\ Len(y) = m + 1
      /\ \A k \in 1 .. m + 1 : y[k] = line[o + k - 1]
  <2>1. y \in Seq(Chars) /\ Len(y) = m + 1
    BY <1>1, <1>4, <1>5, ConcatProperties
  <2>2. y[m + 1] = line[o + (m + 1) - 1]
    <3>1. y[Len(x) + 1] = line[i]
      BY <1>5, line[i] \in Chars, AppendedLast
    <3>2. y[m + 1] = line[i]
      BY <1>5, <3>1
    <3>3. o + (m + 1) - 1 = i
      BY <1>1 DEF m
    <3>4. QED
      BY <3>2, <3>3
  <2>3. ASSUME NEW k \in 1 .. m PROVE y[k] = line[o + k - 1]
    BY <1>1, <1>4, <1>5, ConcatProperties
  <2> HIDE DEF y
  <2>4. ASSUME NEW k \in 1 .. m + 1 PROVE y[k] = line[o + k - 1]
    <3>1. k = m + 1 \/ k \in 1 .. m
      BY <1>1
    <3>2. QED
      BY <2>2, <2>3, <3>1
  <2>5. QED
    BY <2>1, <2>4
<1> HIDE DEF y
<1>7. y = z
  BY <1>1, <1>3, <1>6, SeqEqual
<1>8. QED
  BY <1>7 DEF y, x, w, z

\* What a closed word is replaced with.
Answered(t, w, answer) ==
    LET asked == Chain(t)
        answering == {i \in DOMAIN asked : answer[asked[i]][w] # <<>>}
    IN  IF answering # {} THEN answer[asked[Min(answering)]][w]
        ELSE <<Opening[t]>> \o w \o <<Closing[t]>>

\* A closed word is answered as Expand says.
LEMMA AnsweredIsExpanded ==
    ASSUME OneHandler, NEW line \in Seq(Chars), NEW answer, NEW o \in 1 .. Len(line),
           NEW t \in Opens(line[o]), NEW i \in ClosingsOf(line, o)
    PROVE  Answered(t, SubSeq(line, o + 1, i - 1), answer)
              = ExpandedWord(line, answer, o, i)
<1> DEFINE w == SubSeq(line, o + 1, i - 1)
<1>1. Opens(line[o]) = {t} /\ t \in Tokens /\ head[t] # NoHandler /\ line[o] = Opening[t]
  BY OpensOne
<1>2. PICK h \in Handlers : Chain(t) = <<h>>
  BY <1>1 DEF OneHandler
<1>3. ToSet(Chain(t)) = {h} /\ DOMAIN Chain(t) = {1} /\ Chain(t)[1] = h
  BY <1>2 DEF ToSet
<1>4. AnswersTo(line, answer, o, i) = {answer[h][w]} \ {<<>>}
  BY <1>1, <1>3 DEF AnswersTo
<1>5. i \in o + 1 .. Len(line) /\ line[i] = Closing[t]
  BY <1>1 DEF ClosingsOf
<1> DEFINE x == answer[h][w]
           asked == Chain(t)
           A == {k \in DOMAIN asked : answer[asked[k]][w] # <<>>}
<1>6. Answered(t, w, answer) = IF A # {} THEN answer[asked[Min(A)]][w]
                               ELSE <<Opening[t]>> \o w \o <<Closing[t]>>
  BY DEF Answered
<1>7. CASE x = <<>>
  <2>1. A = {} /\ AnswersTo(line, answer, o, i) = {}
    BY <1>3, <1>4, <1>7
  <2>2. ExpandedWord(line, answer, o, i) = SubSeq(line, o, i)
    BY <2>1 DEF ExpandedWord
  <2>3. (<<Opening[t]>> \o w) \o <<Closing[t]>> = SubSeq(line, o, i)
    BY <1>1, <1>5, WordInTokens
  <2> HIDE DEF A, asked, w
  <2>4. QED
    BY <1>6, <2>1, <2>2, <2>3 DEF w
<1>8. CASE x # <<>>
  <2>1. A = {1} /\ AnswersTo(line, answer, o, i) = {x}
    BY <1>3, <1>4, <1>8
  <2>2. Min({1}) = 1
    <3>1. {1} \in SUBSET Nat /\ {1} # {}
      OBVIOUS
    <3>2. Min({1}) \in {1}
      BY <3>1, MinOfNat
    <3>3. QED
      BY <3>2
  <2>3. answer[asked[Min(A)]][w] = x
    BY <1>3, <2>1, <2>2
  <2>4. ExpandedWord(line, answer, o, i) = x
    BY <2>1 DEF ExpandedWord
  <2> HIDE DEF A, asked, w
  <2>5. QED
    BY <1>6, <2>1, <2>3, <2>4 DEF w
<1>9. QED
  BY <1>7, <1>8

\* The steps of the scanner.
StepCases(a, c, answer, cap) ==
    /\ a.full => ParseStep(a, c, answer, cap) = a
    /\ ~a.full /\ a.state = "dull" /\ c = "esc" =>
          ParseStep(a, c, answer, cap) = [a EXCEPT !.state = "esc"]
    /\ ~a.full /\ a.state = "dull" /\ c # "esc" /\ Opens(c) # {} =>
          ParseStep(a, c, answer, cap) = [a EXCEPT !.state = CHOOSE t \in Opens(c) : TRUE]
    /\ ~a.full /\ a.state = "dull" /\ c # "esc" /\ Opens(c) = {} =>
          ParseStep(a, c, answer, cap) = Copied(a, <<c>>, cap)
    /\ ~a.full /\ a.state = "esc" =>
          ParseStep(a, c, answer, cap) = [Copied(a, <<c>>, cap) EXCEPT !.state = "dull"]
    /\ ~a.full /\ a.state \in Tokens /\ c = Closing[a.state] =>
          ParseStep(a, c, answer, cap) =
             [Copied(a, Answered(a.state, a.word, answer), cap) EXCEPT
                 !.state = "dull", !.word = <<>>]
    /\ ~a.full /\ a.state \in Tokens /\ c # Closing[a.state] =>
          ParseStep(a, c, answer, cap) = [a EXCEPT !.word = Append(a.word, c)]

\* A step of the parser is one of its arms.
LEMMA ParseStepCases ==
    ASSUME NEW a, a.full \in BOOLEAN, NEW c, NEW answer, NEW cap
    PROVE  StepCases(a, c, answer, cap)
<1> DEFINE b == ParseStep(a, c, answer, cap)
<1>1. "dull" # "esc" /\ "dull" \notin Tokens /\ "esc" \notin Tokens
  BY DEF Tokens
<1>2. a.full => b = a
  BY Zenon DEF ParseStep
<1>3. ~a.full /\ a.state = "dull" => b = Dull(a, c, cap)
  BY <1>1, Zenon DEF ParseStep
<1>4. ~a.full /\ a.state = "esc" => b = Escaped(a, c, cap)
  BY <1>1, Zenon DEF ParseStep
<1>5. ~a.full /\ a.state \in Tokens => b = Token(a, c, answer, cap)
  BY <1>1, Zenon DEF ParseStep
<1> HIDE DEF b
<1>6. /\ a.full => b = a
      /\ ~a.full /\ a.state = "dull" /\ c = "esc" => b = [a EXCEPT !.state = "esc"]
      /\ ~a.full /\ a.state = "dull" /\ c # "esc" /\ Opens(c) # {} =>
            b = [a EXCEPT !.state = CHOOSE t \in Opens(c) : TRUE]
  BY <1>2, <1>3, Zenon DEF Dull
<1>7. ~a.full /\ a.state = "dull" /\ c # "esc" /\ Opens(c) = {} => b = Copied(a, <<c>>, cap)
  BY <1>3, Zenon DEF Dull
<1>8. ~a.full /\ a.state = "esc" => b = [Copied(a, <<c>>, cap) EXCEPT !.state = "dull"]
  BY <1>4, Zenon DEF Escaped
<1>9. ~a.full /\ a.state \in Tokens /\ c = Closing[a.state] =>
         b = [Copied(a, Answered(a.state, a.word, answer), cap) EXCEPT
                 !.state = "dull", !.word = <<>>]
  BY <1>5, Zenon DEF Token, Replaced, Answered
<1>10. ~a.full /\ a.state \in Tokens /\ c # Closing[a.state] =>
          b = [a EXCEPT !.word = Append(a.word, c)]
  BY <1>5, Zenon DEF Token
<1>11. QED
  BY <1>6, <1>7, <1>8, <1>9, <1>10, Zenon DEF StepCases, b

ExpandsTo(e, line, answer) ==
    \A i \in 1 .. Len(line) + 2 :
        e[i] \in Seq(Chars) /\ e[i] = ExpandedFrom(line, answer, e, i)

\* Between tokens the scanner is before the next character.
LEMMA ScannedDull ==
    ASSUME NEW line, NEW e, NEW n, NEW i, NEW b \in ParseStates,
           Len(b.text) <= n, b.state = "dull",
           b.full => Cut(e[1], n) = b.text,
           ~b.full => b.word = <<>> /\ LeadsTo(e, n, b.text, i + 1)
    PROVE  b \in Scanned(line, e, n, i)
<1>1. "dull" # "esc" /\ "dull" \notin Tokens
  BY DEF Tokens
<1>2. QED
  BY <1>1 DEF Scanned

\* A character outside of words.
LEMMA ParseStepFromDull ==
    ASSUME OneHandler, NEW line \in Seq(Chars), NEW answer, NEW e,
           ExpandsTo(e, line, answer), NEW cap \in Nat \ {0},
           NEW i \in 1 .. Len(line), NEW a \in Scanned(line, e, cap - 1, i - 1),
           ~a.full, a.state = "dull"
    PROVE  ParseStep(a, line[i], answer, cap) \in Scanned(line, e, cap - 1, i)
<1> DEFINE c == line[i]
           n == cap - 1
           b == ParseStep(a, c, answer, cap)
<1>1. Len(line) \in Nat /\ i \in Nat /\ (i - 1) + 1 = i /\ n \in Nat /\ c \in Chars
  BY LenProperties
<1>2. /\ a \in ParseStates /\ Len(a.text) <= n /\ a.full \in BOOLEAN
      /\ a.word = <<>> /\ LeadsTo(e, n, a.text, (i - 1) + 1)
  BY DEF Scanned, ParseStates
<1>3. LeadsTo(e, n, a.text, i)
  BY <1>1, <1>2
<1>4. StepCases(a, c, answer, cap)
  BY <1>2, ParseStepCases
<1>5. "dull" # "esc" /\ "dull" \notin Tokens /\ "esc" \notin Tokens
  BY DEF Tokens
<1> HIDE DEF n
<1>6. CASE c = "esc"
  <2>1. b = [a EXCEPT !.state = "esc"]
    BY <1>4, <1>6 DEF StepCases
  <2> HIDE DEF b
  <2>2. /\ b \in ParseStates /\ b.state = "esc" /\ b.word = <<>> /\ b.text = a.text
        /\ ~b.full
    BY <1>2, <2>1 DEF ParseStates
  <2>3. b \in Scanned(line, e, n, i)
    BY <1>1, <1>2, <1>3, <1>5, <1>6, <2>2 DEF Scanned
  <2>4. QED
    BY <2>3 DEF b, n
<1>7. CASE c # "esc" /\ Opens(c) # {}
  <2> DEFINE t == CHOOSE u \in Opens(c) : TRUE
  <2>1. t \in Opens(c)
    BY <1>7
  <2>2. b = [a EXCEPT !.state = t]
    BY <1>4, <1>7 DEF StepCases
  <2> HIDE DEF b, t
  <2>3. t \in Tokens
    BY <2>1, OpensOne
  <2>4. /\ b \in ParseStates /\ b.state = t /\ b.word = <<>> /\ b.text = a.text
        /\ ~b.full
    BY <1>2, <2>2, <2>3 DEF ParseStates
  <2>5. SubSeq(line, i + 1, i) = <<>>
    BY <1>1
  <2>6. /\ i \in 1 .. i /\ b.state \in Opens(line[i]) /\ b.word = SubSeq(line, i + 1, i)
        /\ \A j \in i + 1 .. i : line[j] # Closing[b.state]
        /\ LeadsTo(e, n, b.text, i)
    BY <1>1, <1>3, <2>1, <2>4, <2>5
  <2>7. b \in Scanned(line, e, n, i)
    BY <1>2, <1>5, <2>3, <2>4, <2>6 DEF Scanned
  <2>8. QED
    BY <2>7 DEF b, n
<1>8. CASE c # "esc" /\ Opens(c) = {}
  <2>1. b = Copied(a, <<c>>, cap)
    BY <1>4, <1>8 DEF StepCases
  <2>2. ByCases(line, answer, e, i) /\ i <= Len(line)
    BY <1>1, ExpandedCases
  <2>3. e[i] = <<c>> \o e[i + 1]
    <3>1. ExpandedFrom(line, answer, e, i) = <<line[i]>> \o e[i + 1]
      BY <1>8, <2>2 DEF ByCases
    <3>2. e[i] = ExpandedFrom(line, answer, e, i)
      BY <1>1 DEF ExpandsTo
    <3>3. QED
      BY <3>1, <3>2
  <2>4. e[i + 1] \in Seq(Chars) /\ <<c>> \in Seq(Chars)
    BY <1>1 DEF ExpandsTo
  <2>5. CopyLeads(a, Copied(a, <<c>>, cap), e, n, i + 1)
    BY <1>2, <1>3, <2>3, <2>4, CopiedLeads DEF n
  <2> HIDE DEF b
  <2>6. CopyLeads(a, b, e, n, i + 1)
    BY <2>1, <2>5
  <2>7. b \in Scanned(line, e, n, i)
    BY <1>2, <2>6, ScannedDull DEF CopyLeads
  <2>8. QED
    BY <2>7 DEF b, n
<1>9. QED
  BY <1>6, <1>7, <1>8

\* A character behind a backslash.
LEMMA ParseStepFromEsc ==
    ASSUME OneHandler, NEW line \in Seq(Chars), NEW answer, NEW e,
           ExpandsTo(e, line, answer), NEW cap \in Nat \ {0},
           NEW i \in 1 .. Len(line), NEW a \in Scanned(line, e, cap - 1, i - 1),
           ~a.full, a.state = "esc"
    PROVE  ParseStep(a, line[i], answer, cap) \in Scanned(line, e, cap - 1, i)
<1> DEFINE c == line[i]
           n == cap - 1
           b == ParseStep(a, c, answer, cap)
           d == Copied(a, <<c>>, cap)
           k == i - 1
<1>1. Len(line) \in Nat /\ i \in Nat /\ n \in Nat /\ c \in Chars
  BY LenProperties
<1>2. /\ a \in ParseStates /\ Len(a.text) <= n /\ a.full \in BOOLEAN
      /\ a.word = <<>> /\ LeadsTo(e, n, a.text, k)
      /\ k \in 1 .. Len(line) /\ line[k] = "esc"
  BY DEF Scanned, ParseStates
<1>3. StepCases(a, c, answer, cap)
  BY <1>2, ParseStepCases
<1>4. b = [d EXCEPT !.state = "dull"]
  BY <1>3 DEF StepCases
<1>5. ByCases(line, answer, e, k) /\ k < Len(line) /\ k + 1 = i /\ k + 2 = i + 1
  BY <1>1, <1>2, ExpandedCases
<1>6. e[k] = <<c>> \o e[i + 1]
  <2>1. ExpandedFrom(line, answer, e, k) = <<line[k + 1]>> \o e[k + 2]
    BY <1>2, <1>5 DEF ByCases
  <2>2. e[k] = ExpandedFrom(line, answer, e, k)
    BY <1>1, <1>2 DEF ExpandsTo
  <2>3. QED
    BY <1>5, <2>1, <2>2
<1>7. e[i + 1] \in Seq(Chars) /\ <<c>> \in Seq(Chars)
  BY <1>1 DEF ExpandsTo
<1>8. CopyLeads(a, d, e, n, i + 1)
  BY <1>2, <1>6, <1>7, CopiedLeads
<1> HIDE DEF b, d, n
<1>9. /\ b \in ParseStates /\ b.state = "dull" /\ b.word = <<>> /\ b.text = d.text
      /\ b.full = d.full
  BY <1>2, <1>4, <1>8 DEF ParseStates, CopyLeads
<1>10. b \in Scanned(line, e, n, i)
  BY <1>8, <1>9, ScannedDull DEF CopyLeads
<1>11. QED
  BY <1>10 DEF b, n

\* A character of a word, or the one that closes it.
LEMMA ParseStepFromToken ==
    ASSUME OneHandler, NEW line \in Seq(Chars), NEW answer, InTexts(answer, line), NEW e,
           ExpandsTo(e, line, answer), NEW cap \in Nat \ {0},
           NEW i \in 1 .. Len(line), NEW a \in Scanned(line, e, cap - 1, i - 1),
           ~a.full, a.state \in Tokens
    PROVE  ParseStep(a, line[i], answer, cap) \in Scanned(line, e, cap - 1, i)
<1> DEFINE c == line[i]
           n == cap - 1
           b == ParseStep(a, c, answer, cap)
           t == a.state
<1>1. Len(line) \in Nat /\ i \in Nat /\ n \in Nat /\ c \in Chars
  BY LenProperties
<1>2. a \in ParseStates /\ Len(a.text) <= n /\ a.full \in BOOLEAN
  BY DEF Scanned, ParseStates
<1>3. PICK o \in 1 .. i - 1 :
        /\ t \in Opens(line[o])
        /\ a.word = SubSeq(line, o + 1, i - 1)
        /\ \A j \in o + 1 .. i - 1 : line[j] # Closing[t]
        /\ LeadsTo(e, n, a.text, o)
  BY DEF Scanned
<1>4. StepCases(a, c, answer, cap)
  BY <1>2, ParseStepCases
<1>5. "dull" # "esc" /\ "dull" \notin Tokens /\ "esc" \notin Tokens
  BY DEF Tokens
<1>6. o \in 1 .. Len(line) /\ Opens(line[o]) = {t} /\ i \in o + 1 .. Len(line)
  BY <1>1, <1>3, OpensOne
<1>7. CASE c # Closing[t]
  <2>1. b = [a EXCEPT !.word = Append(a.word, c)]
    BY <1>4, <1>7 DEF StepCases
  <2>2. Append(SubSeq(line, o + 1, i - 1), line[i]) = SubSeq(line, o + 1, i)
    BY <1>1, <1>6
  <2>3. SubSeq(line, o + 1, i) \in Seq(Chars)
    BY <1>1, <1>6
  <2> HIDE DEF b, n
  <2>4. /\ b \in ParseStates /\ b.state = t /\ b.word = SubSeq(line, o + 1, i)
        /\ b.text = a.text /\ ~b.full
    BY <1>2, <1>3, <2>1, <2>2, <2>3 DEF ParseStates
  <2>5. \A j \in o + 1 .. i : line[j] # Closing[t]
    BY <1>1, <1>3, <1>7
  <2>6. o \in 1 .. i
    BY <1>1, <1>3
  <2>7. b \in Scanned(line, e, n, i)
    BY <1>2, <1>3, <1>5, <2>4, <2>5, <2>6 DEF Scanned
  <2>8. QED
    BY <2>7 DEF b, n
<1>8. CASE c = Closing[t]
  <2> DEFINE str == Answered(t, a.word, answer)
             d == Copied(a, str, cap)
             C == ClosingsOf(line, o)
  <2>1. b = [d EXCEPT !.state = "dull", !.word = <<>>]
    BY <1>4, <1>8 DEF StepCases
  <2>2. i \in C /\ \A j \in C : i <= j
    <3>1. C = {j \in o + 1 .. Len(line) : line[j] = Closing[t]}
      BY <1>6 DEF ClosingsOf
    <3>2. QED
      BY <1>1, <1>3, <1>6, <1>8, <3>1
  <2>3. Min(C) = i
    <3>1. Min(C) \in C /\ Min(C) \in o + 1 .. Len(line) /\ \A j \in C : Min(C) <= j
      BY <1>6, <2>2, ClosingFirst
    <3>2. QED
      BY <1>1, <1>6, <2>2, <3>1
  <2>4. str = ExpandedWord(line, answer, o, i)
    <3>1. t \in Opens(line[o]) /\ o \in 1 .. Len(line) /\ i \in ClosingsOf(line, o)
      BY <1>3, <1>6, <2>2
    <3>2. Answered(t, SubSeq(line, o + 1, i - 1), answer) = ExpandedWord(line, answer, o, i)
      BY <3>1, AnsweredIsExpanded
    <3>3. QED
      BY <1>3, <3>2
  <2>5. str \in Seq(Chars)
    <3>1. Opens(line[o]) # {} /\ o \in 1 .. Len(line) /\ i \in ClosingsOf(line, o)
      BY <1>6, <2>2
    <3>2. ExpandedWord(line, answer, o, i) \in Seq(Chars)
      BY <3>1, WordIsText
    <3>3. QED
      BY <2>4, <3>2
  <2>6. e[o] = str \o e[i + 1]
    <3>1. ByCases(line, answer, e, o) /\ o <= Len(line) /\ Opens(line[o]) # {}
      BY <1>1, <1>6, ExpandedCases
    <3>2. ExpandedFrom(line, answer, e, o) = ExpandedWord(line, answer, o, Min(C)) \o e[Min(C) + 1]
      BY <2>2, <3>1 DEF ByCases
    <3>3. e[o] = ExpandedFrom(line, answer, e, o)
      BY <1>1, <1>6 DEF ExpandsTo
    <3>4. QED
      BY <2>3, <2>4, <3>2, <3>3
  <2>7. e[i + 1] \in Seq(Chars)
    BY <1>1 DEF ExpandsTo
  <2> HIDE DEF str
  <2>8. CopyLeads(a, d, e, n, i + 1)
    BY <1>2, <1>3, <2>5, <2>6, <2>7, CopiedLeads
  <2> HIDE DEF b, d, n
  <2>9. /\ b \in ParseStates /\ b.state = "dull" /\ b.word = <<>> /\ b.text = d.text
        /\ b.full = d.full
    <3>1. d \in ParseStates
      BY <2>8 DEF CopyLeads
    <3> DEFINE f == [d EXCEPT !.state = "dull"]
    <3>2. /\ f \in ParseStates /\ f.state = "dull" /\ f.text = d.text
          /\ f.full = d.full
      BY <3>1 DEF ParseStates
    <3>3. b = [f EXCEPT !.word = <<>>]
      BY <2>1
    <3> HIDE DEF f
    <3>4. <<>> \in Seq(Chars)
      OBVIOUS
    <3>5. b \in ParseStates /\ b.word = <<>> /\ b.state = f.state /\ b.text = f.text
      BY <3>2, <3>3, <3>4 DEF ParseStates
    <3>6. b.full = f.full
      BY <3>2, <3>3 DEF ParseStates
    <3>7. QED
      BY <3>2, <3>5, <3>6
  <2>10. b \in Scanned(line, e, n, i)
    BY <2>8, <2>9, ScannedDull DEF CopyLeads
  <2>11. QED
    BY <2>10 DEF b, n
<1>9. QED
  BY <1>7, <1>8

\* Where the scanner stands after the last character tells what was written.
LEMMA ScannedToEnd ==
    ASSUME OneHandler, NEW line \in Seq(Chars), NEW answer, NEW e,
           ExpandsTo(e, line, answer), NEW n \in Nat,
           NEW a \in Scanned(line, e, n, Len(line))
    PROVE  a.text \in Seq(Chars) /\ a.text = Cut(e[1], n)
<1> DEFINE m == Len(line)
           txt == a.text
<1>1. m \in Nat /\ a \in ParseStates /\ txt \in Seq(Chars) /\ Len(txt) <= n
  BY LenProperties DEF Scanned, ParseStates
<1>2. ASSUME NEW o, e[o] = <<>>, LeadsTo(e, n, txt, o) PROVE txt = Cut(e[1], n)
  <2>1. Cut(e[1], n) = Cut(txt \o <<>>, n)
    BY <1>2 DEF LeadsTo
  <2>2. txt \o <<>> = txt
    BY <1>1, ConcatEmptySeq
  <2>3. Cut(txt, n) = txt
    BY <1>1, CutText
  <2>4. QED
    BY <2>1, <2>2, <2>3
<1>3. CASE a.full
  BY <1>1, <1>3 DEF Scanned
<1>4. CASE ~a.full /\ a.state = "dull"
  <2>1. LeadsTo(e, n, txt, m + 1)
    BY <1>4 DEF Scanned
  <2>2. ByCases(line, answer, e, m + 1)
    BY <1>1, ExpandedCases
  <2>3. ExpandedFrom(line, answer, e, m + 1) = <<>>
    BY <1>1, <2>2 DEF ByCases
  <2>4. e[m + 1] = <<>>
    BY <1>1, <2>3 DEF ExpandsTo
  <2>5. QED
    BY <1>1, <1>2, <2>1, <2>4
<1>5. CASE ~a.full /\ a.state = "esc"
  <2>1. LeadsTo(e, n, txt, m) /\ m \in 1 .. m /\ line[m] = "esc"
    BY <1>5 DEF Scanned
  <2>2. ByCases(line, answer, e, m)
    BY <1>1, <2>1, ExpandedCases
  <2>3. ExpandedFrom(line, answer, e, m) = <<>> \o e[m + 2]
    BY <2>1, <2>2 DEF ByCases
  <2>4. ByCases(line, answer, e, m + 2)
    BY <1>1, ExpandedCases
  <2>5. ExpandedFrom(line, answer, e, m + 2) = <<>>
    BY <1>1, <2>4 DEF ByCases
  <2>6. e[m + 2] = <<>> /\ e[m] = <<>> \o e[m + 2]
    BY <1>1, <2>1, <2>3, <2>5 DEF ExpandsTo
  <2>7. <<>> \o <<>> = <<>>
    OBVIOUS
  <2>8. e[m] = <<>>
    BY <2>6, <2>7
  <2>9. QED
    BY <1>1, <1>2, <2>1, <2>8
<1>6. CASE ~a.full /\ a.state \in Tokens
  <2>1. PICK o \in 1 .. m :
            /\ a.state \in Opens(line[o])
            /\ \A j \in o + 1 .. m : line[j] # Closing[a.state]
            /\ LeadsTo(e, n, txt, o)
    BY <1>6 DEF Scanned
  <2>2. Opens(line[o]) = {a.state}
    BY <2>1, OpensOne
  <2>3. ClosingsOf(line, o) = {}
    BY <2>1, <2>2 DEF ClosingsOf
  <2>4. ByCases(line, answer, e, o) /\ o <= Len(line)
    BY <1>1, ExpandedCases
  <2>5. ExpandedFrom(line, answer, e, o) = <<>>
    BY <2>2, <2>3, <2>4 DEF ByCases
  <2>6. e[o] = <<>>
    BY <1>1, <2>5 DEF ExpandsTo
  <2>7. QED
    BY <1>1, <1>2, <2>1, <2>6
<1>7. QED
  BY <1>1, <1>3, <1>4, <1>5, <1>6 DEF ParseStates

\* Every step.
LEMMA ParseStepScans ==
    ASSUME OneHandler, NEW line \in Seq(Chars), NEW answer, InTexts(answer, line), NEW e,
           ExpandsTo(e, line, answer), NEW cap \in Nat \ {0},
           NEW i \in 1 .. Len(line), NEW a \in Scanned(line, e, cap - 1, i - 1)
    PROVE  ParseStep(a, line[i], answer, cap) \in Scanned(line, e, cap - 1, i)
<1>1. a \in ParseStates
  BY DEF Scanned
<1>2. CASE a.full
  <2>1. ParseStep(a, line[i], answer, cap) = a
    <3>1. a.full \in BOOLEAN
      BY <1>1 DEF ParseStates
    <3>2. StepCases(a, line[i], answer, cap)
      BY <3>1, ParseStepCases
    <3>3. QED
      BY <1>2, <3>2, Zenon DEF StepCases
  <2>2. QED
    BY <1>2, <2>1 DEF Scanned
<1>3. CASE ~a.full
  <2>1. a.state \in Tokens \cup {"dull", "esc"}
    BY <1>1 DEF ParseStates
  <2>2. QED
    BY <1>3, <2>1, ParseStepFromDull, ParseStepFromEsc, ParseStepFromToken
<1>4. QED
  BY <1>2, <1>3

\* strsub_parse writes what the line expands to, as far as the buffer goes.
THEOREM ParseExpands ==
    ASSUME OneHandler, NEW line \in Seq(Chars), NEW answer, InTexts(answer, line),
           NEW cap \in Nat \ {0}
    PROVE  /\ Parse(line, answer, cap).text = Cut(Expand(line, answer), cap - 1)
           /\ Parse(line, answer, cap).text \in Seq(Chars)
           /\ Len(Parse(line, answer, cap).text) < cap
<1> DEFINE n == Len(line)
           e == CHOOSE x : IsExpansion(x, line, answer)
           S == [i \in 0 .. n |-> Scanned(line, e, cap - 1, i)]
           g == [i \in 1 .. n |->
                    [x \in S[i - 1] |-> ParseStep(x, line[i], answer, cap)]]
           Eq(f) == f = [i \in 0 .. n |->
                            IF i = 0 THEN ParseStart
                            ELSE CHOOSE r \in {ParseStep(a, line[i], answer, cap) :
                                                  a \in {f[i - 1]}} : TRUE]
           F == CHOOSE f : Eq(f)
<1>1. n \in Nat /\ cap - 1 \in Nat
  BY LenProperties
<1>2. IsExpansion(e, line, answer)
  BY ExpansionExists
<1>3. Expand(line, answer) = e[1]
  BY ExpandByPlace
<1>4. Parse(line, answer, cap) = F[n]
  BY DEF Parse, Steps
<1> HIDE DEF e
<1>5. ExpandsTo(e, line, answer)
  BY <1>2, ExpansionIsText DEF ExpandsTo
<1>6. ParseStart \in S[0]
  <2>1. /\ ParseStart \in ParseStates /\ Len(ParseStart.text) = 0
        /\ ParseStart.state = "dull" /\ ~ParseStart.full /\ ParseStart.word = <<>>
        /\ ParseStart.text = <<>>
    BY DEF ParseStart, ParseStates
  <2>2. e[1] \in Seq(Chars)
    BY <1>1, <1>5 DEF ExpandsTo
  <2>3. <<>> \o e[1] = e[1]
    BY <2>2, ConcatEmptySeq
  <2>4. LeadsTo(e, cap - 1, <<>>, 0 + 1)
    BY <2>3 DEF LeadsTo
  <2>5. ParseStart \in Scanned(line, e, cap - 1, 0)
    BY <1>1, <2>1, <2>4, ScannedDull
  <2>6. QED
    BY <1>1, <2>5
<1>7. \A i \in 1 .. n : \A x \in S[i - 1] : ParseStep(x, line[i], answer, cap) \in S[i]
  BY <1>1, <1>5, ParseStepScans
<1>8. \A i \in 1 .. n : \A x \in S[i - 1] : g[i][x] = ParseStep(x, line[i], answer, cap)
  OBVIOUS
<1>9. \A x, i : (CHOOSE r \in {ParseStep(a, line[i], answer, cap) : a \in {x}} : TRUE)
                   = ParseStep(x, line[i], answer, cap)
  OBVIOUS
<1>10. \E f : Eq(f)
  <2> HIDE DEF S, g, n
  <2>1. Leads(g, n, S)
    BY <1>7, <1>8 DEF Leads
  <2>2. PICK f : Iterates(f, n, ParseStart, g)
    BY <1>1, <1>6, <2>1, IterationExists
  <2>3. \A i \in 0 .. n : f[i] \in S[i]
    BY <1>1, <1>6, <2>1, <2>2, IterationStays
  <2>4. f = [i \in 0 .. n |-> f[i]]
    BY <2>2 DEF Iterates
  <2>5. ASSUME NEW i \in 0 .. n
        PROVE  f[i] = IF i = 0 THEN ParseStart
                      ELSE CHOOSE r \in {ParseStep(a, line[i], answer, cap) :
                                            a \in {f[i - 1]}} : TRUE
    <3>1. f[i] = IF i = 0 THEN ParseStart ELSE g[i][f[i - 1]]
      BY <2>2 DEF Iterates
    <3>2. CASE i = 0
      BY <3>1, <3>2
    <3>3. CASE i # 0
      <4>1. i \in 1 .. n /\ i - 1 \in 0 .. n
        BY <1>1, <3>3
      <4>2. f[i] = ParseStep(f[i - 1], line[i], answer, cap)
        BY <1>8, <2>3, <3>1, <3>3, <4>1
      <4>3. QED
        BY <1>9, <3>3, <4>2
    <3>4. QED
      BY <3>2, <3>3
  <2>6. Eq(f)
    BY <2>4, <2>5, Zenon
  <2> HIDE DEF Eq
  <2>7. QED
    BY <2>6
<1>11. Eq(F)
  <2> HIDE DEF Eq
  <2>1. QED
    BY <1>10
<1> HIDE DEF F, S, g
<1>12. F[0] = ParseStart
  BY <1>1, <1>11
<1>13. ASSUME NEW i \in 1 .. n PROVE F[i] = ParseStep(F[i - 1], line[i], answer, cap)
  <2>1. i \in 0 .. n /\ i # 0
    BY <1>1
  <2>2. F[i] = CHOOSE r \in {ParseStep(a, line[i], answer, cap) : a \in {F[i - 1]}} : TRUE
    BY <1>11, <2>1
  <2>3. QED
    BY <1>9, <2>2
<1>14. F[n] \in S[n]
  <2> DEFINE T == {i \in 0 .. n : F[i] \in S[i]}
  <2>1. 0 \in T
    BY <1>1, <1>6, <1>12
  <2>2. ASSUME NEW i \in 1 .. n, i - 1 \in T PROVE i \in T
    BY <1>1, <1>7, <1>13, <2>2
  <2> HIDE DEF T, Eq, n
  <2>3. 0 .. n \subseteq T
    BY <1>1, <2>1, <2>2, UpTo
  <2>4. n \in T
    BY <1>1, <2>3
  <2>5. QED
    BY <2>4 DEF T
<1>15. F[n] \in Scanned(line, e, cap - 1, Len(line))
  BY <1>1, <1>14 DEF S
<1>16. F[n].text \in Seq(Chars) /\ F[n].text = Cut(e[1], cap - 1)
  BY <1>1, <1>5, <1>15, ScannedToEnd
<1>17. Len(F[n].text) <= cap - 1
  BY <1>15 DEF Scanned
<1>18. QED
  BY <1>3, <1>4, <1>16, <1>17, LenProperties
=============================================================================
