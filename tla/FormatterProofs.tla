--------------------------- MODULE FormatterProofs ---------------------------
(* Theorems about module Formatter, for any formats, texts and times.      *)
EXTENDS Formatter, WellFoundedInduction, SequenceTheorems, TLAPS

-----------------------------------------------------------------------------
(* Induction on natural numbers, for a set of them.                        *)

LEMMA LeastExists ==
    ASSUME NEW S \in SUBSET Nat, S # {}
    PROVE  \E n \in S : \A m \in S : n <= m
<1>1. PICK n \in S : \A m \in S : ~(<<m, n>> \in OpToRel(<, Nat))
  BY NatLessThanWellFounded, WFMin
<1>2. \A m \in S : ~ (m < n)
  BY <1>1 DEF OpToRel
<1> QED BY <1>2

LEMMA InductionUpTo ==
    ASSUME NEW len \in Nat, NEW S \in SUBSET Nat, 0 \in S, \A n \in S : n < len => n + 1 \in S
    PROVE  0 .. len \subseteq S
<1> SUFFICES ASSUME (0 .. len) \ S # {} PROVE FALSE
  OBVIOUS
<1> DEFINE rest == (0 .. len) \ S
<1>0. rest \in SUBSET Nat /\ rest # {}
  OBVIOUS
<1>1. PICK n \in rest : \A m \in rest : n <= m
  <2> HIDE DEF rest
  <2> QED BY <1>0, LeastExists
<1>2. n # 0 /\ n - 1 \in 0 .. len /\ n - 1 \notin (0 .. len) \ S
  BY <1>1
<1> QED BY <1>1, <1>2

-----------------------------------------------------------------------------
(* The parts of a text, put one behind the other.                          *)

(* Concatenation, for the provers to take as it is.                        *)
Cat(s, t) == s \o t

LEMMA CatType == ASSUME NEW U, NEW s \in Seq(U), NEW t \in Seq(U) PROVE Cat(s, t) \in Seq(U)
BY ConcatProperties DEF Cat

LEMMA CatAssociative ==
    ASSUME NEW U, NEW s \in Seq(U), NEW t \in Seq(U), NEW u \in Seq(U)
    PROVE  Cat(Cat(s, t), u) = Cat(s, Cat(t, u))
BY ConcatAssociative DEF Cat

LEMMA CatEmpty == ASSUME NEW U, NEW s \in Seq(U) PROVE Cat(s, <<>>) = s /\ Cat(<<>>, s) = s
BY ConcatEmptySeq DEF Cat

(* The elements of a concatenation.                                        *)
Joins(c, s, t) ==
    /\ DOMAIN c = 1 .. (Len(s) + Len(t)) /\ Len(c) = Len(s) + Len(t)
    /\ \A i \in 1 .. Len(s) : c[i] = s[i]
    /\ \A i \in 1 .. Len(t) : c[i + Len(s)] = t[i]

LEMMA CatJoins ==
    ASSUME NEW U, NEW s \in Seq(U), NEW t \in Seq(U)
    PROVE  Joins(Cat(s, t), s, t)
<1>1. /\ s \o t \in Seq(U) /\ Len(s \o t) = Len(s) + Len(t)
      /\ \A i \in 1 .. Len(s) + Len(t) : (s \o t)[i] = IF i <= Len(s) THEN s[i] ELSE t[i - Len(s)]
  BY ConcatProperties
<1>2. Len(s) \in Nat /\ Len(t) \in Nat /\ DOMAIN (s \o t) = 1 .. (Len(s) + Len(t))
  BY <1>1, LenProperties
<1>3. ASSUME NEW i \in 1 .. Len(t) PROVE (s \o t)[i + Len(s)] = t[i]
  <2>1. i + Len(s) \in 1 .. (Len(s) + Len(t)) /\ ~(i + Len(s) <= Len(s)) /\ (i + Len(s)) - Len(s) = i
    BY <1>2
  <2> QED BY <1>1, <2>1
<1>4. ASSUME NEW i \in 1 .. Len(s) PROVE (s \o t)[i] = s[i]
  <2>1. i \in 1 .. (Len(s) + Len(t)) /\ i <= Len(s)
    BY <1>2
  <2> QED BY <1>1, <2>1
<1> QED BY <1>1, <1>2, <1>3, <1>4 DEF Cat, Joins

(* What the first n parts are together.                                    *)
StepsOf(upto, parts) ==
    /\ FlattenSeq(parts) = upto[Len(parts)]
    /\ upto[0] = <<>>
    /\ \A n \in 0 .. Len(parts) : n + 1 \in 0 .. Len(parts) => upto[n + 1] = Cat(upto[n], parts[n + 1])

LEMMA FlattenSteps ==
    ASSUME NEW U, NEW parts \in Seq(Seq(U))
    PROVE  \E upto : StepsOf(upto, parts)
<1> DEFINE Steps(f, n) == f = [m \in 1 .. n |-> IF m = 1 THEN parts[m] ELSE f[m - 1] \o parts[m]]
           defined == {n \in Nat : \E f : Steps(f, n)}
           len == Len(parts)
<1>0. len \in Nat /\ DOMAIN parts = 1 .. len
  OBVIOUS
<1>1. 0 \in defined
  <2>1. Steps([m \in 1 .. 0 |-> <<>>], 0)
    OBVIOUS
  <2> QED BY <2>1
<1>2. ASSUME NEW n \in defined PROVE n + 1 \in defined
  <2>1. PICK f : Steps(f, n)
    OBVIOUS
  <2> DEFINE g == [m \in 1 .. (n + 1) |->
                      IF m = n + 1 THEN (IF m = 1 THEN parts[m] ELSE f[n] \o parts[m]) ELSE f[m]]
  <2>2. n \in Nat
    OBVIOUS
  <2>3. ASSUME NEW m \in 1 .. (n + 1)
        PROVE  g[m] = IF m = 1 THEN parts[m] ELSE g[m - 1] \o parts[m]
    <3>1. CASE m = n + 1 /\ m = 1
      BY <2>2, <3>1
    <3>2. CASE m = n + 1 /\ m # 1
      <4>1. m - 1 = n /\ n \in 1 .. (n + 1) /\ n # n + 1
        BY <2>2, <3>2
      <4>2. g[n] = f[n]
        BY <4>1
      <4> QED BY <3>2, <4>1, <4>2
    <3>3. CASE m # n + 1
      <4>1. m \in 1 .. n /\ m - 1 # n + 1 /\ (m # 1 => m - 1 \in 1 .. (n + 1))
        BY <2>2, <3>3
      <4>2. f[m] = IF m = 1 THEN parts[m] ELSE f[m - 1] \o parts[m]
        BY <2>1, <4>1
      <4>3. g[m] = f[m] /\ (m # 1 => g[m - 1] = f[m - 1])
        BY <3>3, <4>1
      <4> QED BY <4>2, <4>3
    <3> QED BY <3>1, <3>2, <3>3
  <2>4. g = [m \in 1 .. (n + 1) |-> g[m]] /\ n + 1 \in Nat
    BY <2>2
  <2>5. Steps(g, n + 1)
    <3> HIDE DEF g
    <3> QED BY <2>3, <2>4
  <2> HIDE DEF g, Steps
  <2> QED BY <2>4, <2>5, Zenon
<1>3. len \in defined
  <2>1. defined \in SUBSET Nat /\ len \in 0 .. len
    <3> HIDE DEF Steps
    <3> QED BY <1>0
  <2> HIDE DEF defined, len
  <2> QED BY <1>0, <1>1, <1>2, <2>1, InductionUpTo
<1> DEFINE flatten == CHOOSE f : Steps(f, len)
           upto == [n \in 0 .. len |-> IF n = 0 THEN <<>> ELSE flatten[n]]
<1>4. \A m \in 1 .. len : flatten[m] = IF m = 1 THEN parts[m] ELSE flatten[m - 1] \o parts[m]
  <2>1. Steps(flatten, len)
    BY <1>3
  <2> HIDE DEF flatten
  <2> QED BY <2>1
<1>5. FlattenSeq(parts) = IF len = 0 THEN parts ELSE flatten[len]
  BY DEF FlattenSeq
<1>6. \A n \in 0 .. len : upto[n] = IF n = 0 THEN <<>> ELSE flatten[n]
  OBVIOUS
<1> HIDE DEF flatten, upto
<1>7. FlattenSeq(parts) = upto[len] /\ upto[0] = <<>>
  <2>1. len = 0 => parts = <<>>
    OBVIOUS
  <2> QED BY <1>0, <1>5, <1>6, <2>1
<1>8. ASSUME NEW n \in 0 .. len, n + 1 \in 0 .. len
      PROVE  upto[n + 1] = upto[n] \o parts[n + 1]
  <2>1. n + 1 \in 1 .. len /\ n + 1 # 0 /\ (n + 1) - 1 = n
    BY <1>0, <1>8
  <2>2. upto[n + 1] = IF n + 1 = 1 THEN parts[n + 1] ELSE flatten[n] \o parts[n + 1]
    BY <1>4, <1>6, <1>8, <2>1
  <2>3. parts[n + 1] \in Seq(U)
    BY <1>0, <2>1
  <2>4. <<>> \o parts[n + 1] = parts[n + 1]
    BY <2>3, ConcatEmptySeq
  <2>5. CASE n = 0
    <3>1. upto[n] = <<>> /\ n + 1 = 1
      BY <1>6, <2>5
    <3> QED BY <2>2, <2>4, <3>1
  <2>6. CASE n # 0
    <3>1. upto[n] = flatten[n] /\ n + 1 # 1
      BY <1>6, <1>8, <2>6
    <3> QED BY <2>2, <3>1
  <2> QED BY <2>5, <2>6
<1> QED BY <1>7, <1>8 DEF StepsOf, Cat

(* The parts are sequences, and so is what they are together.              *)
LEMMA StepsType ==
    ASSUME NEW U, NEW parts \in Seq(Seq(U)), NEW upto, StepsOf(upto, parts)
    PROVE  \A n \in 0 .. Len(parts) : upto[n] \in Seq(U)
<1> DEFINE S == {n \in 0 .. Len(parts) : upto[n] \in Seq(U)}
<1>0. Len(parts) \in Nat /\ DOMAIN parts = 1 .. Len(parts)
  OBVIOUS
<1>1. 0 \in S /\ S \in SUBSET Nat
  <2>1. upto[0] \in Seq(U) /\ 0 \in 0 .. Len(parts)
    BY <1>0, EmptySeq DEF StepsOf
  <2>2. 0 \in S
    BY <2>1, Zenon
  <2> QED BY <1>0, <2>2
<1>2. ASSUME NEW n \in S, n < Len(parts) PROVE n + 1 \in S
  <2>1. n \in 0 .. Len(parts) /\ n + 1 \in 0 .. Len(parts) /\ n + 1 \in 1 .. Len(parts)
    BY <1>0, <1>2
  <2>2. upto[n + 1] = Cat(upto[n], parts[n + 1])
    BY <2>1 DEF StepsOf
  <2>3. parts[n + 1] \in Seq(U) /\ upto[n] \in Seq(U)
    BY <1>0, <2>1
  <2>4. Cat(upto[n], parts[n + 1]) \in Seq(U)
    BY <2>3, CatType
  <2> QED BY <2>1, <2>2, <2>4
<1>3. 0 .. Len(parts) \subseteq S
  <2> HIDE DEF S
  <2> QED BY <1>0, <1>1, <1>2, InductionUpTo
<1> QED BY <1>3

(* A symbol of a concatenation is a symbol of one of its parts.            *)
LEMMA SymbolsOfCat ==
    ASSUME NEW U, NEW s \in Seq(U), NEW t \in Seq(U)
    PROVE  Range(Cat(s, t)) = Range(s) \cup Range(t)
<1>1. /\ DOMAIN Cat(s, t) = 1 .. (Len(s) + Len(t))
      /\ \A i \in 1 .. Len(s) : Cat(s, t)[i] = s[i]
      /\ \A i \in 1 .. Len(t) : Cat(s, t)[i + Len(s)] = t[i]
  <2>1. Joins(Cat(s, t), s, t)
    BY CatJoins
  <2> QED BY <2>1 DEF Joins
<1>2. DOMAIN s = 1 .. Len(s) /\ DOMAIN t = 1 .. Len(t) /\ Len(s) \in Nat /\ Len(t) \in Nat
  BY LenProperties
<1>3. ASSUME NEW i \in DOMAIN Cat(s, t) PROVE Cat(s, t)[i] \in Range(s) \cup Range(t)
  <2>1. CASE i <= Len(s)
    BY <1>1, <1>2, <2>1 DEF Range
  <2>2. CASE i > Len(s)
    <3>1. i - Len(s) \in DOMAIN t /\ (i - Len(s)) + Len(s) = i
      BY <1>1, <1>2, <2>2
    <3>2. Cat(s, t)[i] = t[i - Len(s)]
      BY <1>1, <1>2, <3>1
    <3> QED BY <3>1, <3>2 DEF Range
  <2> QED BY <1>1, <1>2, <2>1, <2>2
<1>4. ASSUME NEW i \in DOMAIN s PROVE s[i] \in Range(Cat(s, t))
  <2>1. i \in DOMAIN Cat(s, t) /\ Cat(s, t)[i] = s[i]
    BY <1>1, <1>2
  <2> QED BY <2>1 DEF Range
<1>5. ASSUME NEW i \in DOMAIN t PROVE t[i] \in Range(Cat(s, t))
  <2>1. i + Len(s) \in DOMAIN Cat(s, t) /\ Cat(s, t)[i + Len(s)] = t[i]
    BY <1>1, <1>2
  <2> QED BY <2>1 DEF Range
<1> QED BY <1>3, <1>4, <1>5 DEF Range

(* The symbols of the first n parts; those of the text.                    *)
SymbolsOf(parts, n) == UNION {Range(parts[i]) : i \in 1 .. n}

LEMMA SymbolsUpTo ==
    ASSUME NEW U, NEW parts \in Seq(Seq(U)), NEW upto, StepsOf(upto, parts)
    PROVE  \A n \in 0 .. Len(parts) : Range(upto[n]) = SymbolsOf(parts, n)
<1> DEFINE Upto(n) == SymbolsOf(parts, n)
           S == {n \in 0 .. Len(parts) : Range(upto[n]) = Upto(n)}
<1>0. Len(parts) \in Nat /\ DOMAIN parts = 1 .. Len(parts)
  OBVIOUS
<1>1. 0 \in S /\ S \in SUBSET Nat
  <2>1. Range(<<>>) = {} /\ Upto(0) = {}
    BY DEF Range, SymbolsOf
  <2>2. upto[0] = <<>>
    BY DEF StepsOf
  <2> HIDE DEF Upto
  <2>3. 0 \in 0 .. Len(parts)
    BY <1>0
  <2>4. 0 \in S
    BY <2>1, <2>2, <2>3, Zenon
  <2> QED BY <1>0, <2>4
<1>2. ASSUME NEW n \in S, n < Len(parts) PROVE n + 1 \in S
  <2>1. n \in 0 .. Len(parts) /\ n + 1 \in 0 .. Len(parts) /\ n + 1 \in 1 .. Len(parts)
    BY <1>0, <1>2
  <2>2. upto[n + 1] = Cat(upto[n], parts[n + 1])
    BY <2>1 DEF StepsOf
  <2>3. parts[n + 1] \in Seq(U) /\ upto[n] \in Seq(U)
    BY <1>0, <2>1, StepsType
  <2>4. Range(Cat(upto[n], parts[n + 1])) = Range(upto[n]) \cup Range(parts[n + 1])
    BY <2>3, SymbolsOfCat
  <2>5. Upto(n + 1) = Upto(n) \cup Range(parts[n + 1])
    <3>1. 1 .. (n + 1) = (1 .. n) \cup {n + 1}
      BY <2>1
    <3> QED BY <3>1 DEF SymbolsOf
  <2> HIDE DEF Upto
  <2> QED BY <2>1, <2>2, <2>4, <2>5
<1>3. 0 .. Len(parts) \subseteq S
  <2> HIDE DEF S
  <2> QED BY <1>0, <1>1, <1>2, InductionUpTo
<1> QED BY <1>3

(* Two texts with the same parts in front of one.                          *)
Agree(P, Q, k) == Len(P) = Len(Q) /\ k \in 0 .. Len(P) /\ \A j \in 1 .. k : P[j] = Q[j]

LEMMA AgreeUpTo ==
    ASSUME NEW P, NEW Q, NEW k, Len(P) \in Nat, Agree(P, Q, k), NEW f, StepsOf(f, P), NEW g, StepsOf(g, Q)
    PROVE  f[k] = g[k]
<1> DEFINE S == {n \in 0 .. k : f[n] = g[n]}
<1>0. k \in Nat /\ k <= Len(P) /\ Len(P) = Len(Q) /\ \A j \in 1 .. k : P[j] = Q[j]
  BY DEF Agree
<1>1. 0 \in S /\ S \in SUBSET Nat
  <2>1. f[0] = <<>> /\ g[0] = <<>>
    BY DEF StepsOf
  <2> QED BY <1>0, <2>1
<1>2. ASSUME NEW n \in S, n < k PROVE n + 1 \in S
  <2>1. /\ n \in 0 .. Len(P) /\ n + 1 \in 0 .. Len(P) /\ n + 1 \in 1 .. k /\ n + 1 \in 0 .. k
        /\ n \in 0 .. Len(Q) /\ n + 1 \in 0 .. Len(Q) /\ f[n] = g[n]
    BY <1>0, <1>2
  <2>2. f[n + 1] = Cat(f[n], P[n + 1])
    BY <2>1 DEF StepsOf
  <2>3. g[n + 1] = Cat(g[n], Q[n + 1])
    BY <2>1 DEF StepsOf
  <2>4. P[n + 1] = Q[n + 1]
    BY <1>0, <2>1
  <2>5. f[n + 1] = g[n + 1]
    BY <2>1, <2>2, <2>3, <2>4
  <2> QED BY <2>1, <2>5, Zenon
<1>3. 0 .. k \subseteq S
  <2> HIDE DEF S
  <2> QED BY <1>0, <1>1, <1>2, InductionUpTo
<1> QED BY <1>0, <1>3

LEMMA CatBehind ==
    ASSUME NEW U, NEW a \in Seq(U), NEW p \in Seq(U), NEW b \in Seq(U), NEW q \in Seq(U)
    PROVE  Cat(Cat(a, Cat(p, b)), q) = Cat(a, Cat(p, Cat(b, q))) /\ Cat(b, q) \in Seq(U)
<1>1. Cat(p, b) \in Seq(U) /\ Cat(b, q) \in Seq(U)
  BY CatType
<1>2. Cat(Cat(a, Cat(p, b)), q) = Cat(a, Cat(Cat(p, b), q))
  BY <1>1, CatAssociative
<1>3. Cat(Cat(p, b), q) = Cat(p, Cat(b, q))
  BY CatAssociative
<1> QED BY <1>1, <1>2, <1>3

(* Two texts with the same parts in front of one: that part stands behind  *)
(* the same text in both.                                                  *)
Aligned(P, Q, i, a, b, c) ==
    /\ FlattenSeq(P) = Cat(a, Cat(P[i], b))
    /\ FlattenSeq(Q) = Cat(a, Cat(Q[i], c))
    /\ Range(a) = SymbolsOf(P, i - 1)
    /\ (\A j \in (i + 1) .. Len(P) : P[j] = Q[j]) => b = c

LEMMA FlattenTwo ==
    ASSUME NEW U, NEW P \in Seq(Seq(U)), NEW Q \in Seq(Seq(U)), NEW i \in 1 .. Len(P), Agree(P, Q, i - 1)
    PROVE  \E a, b, c \in Seq(U) : Aligned(P, Q, i, a, b, c)
<1>0. /\ Len(P) \in Nat /\ DOMAIN P = 1 .. Len(P) /\ DOMAIN Q = 1 .. Len(P) /\ i \in Nat /\ Len(Q) = Len(P)
      /\ i - 1 \in 0 .. Len(P) /\ (i - 1) + 1 = i
  BY LenProperties DEF Agree
<1>1. PICK f : StepsOf(f, P)
  BY FlattenSteps
<1>2. PICK g : StepsOf(g, Q)
  BY FlattenSteps
<1>a. PICK a, x, y : a = f[i - 1] /\ x = P[i] /\ y = Q[i]
  OBVIOUS
<1> DEFINE After(n, b, c) == /\ f[i + n] = Cat(a, Cat(x, b))
                             /\ g[i + n] = Cat(a, Cat(y, c))
                             /\ (\A j \in (i + 1) .. Len(P) : P[j] = Q[j]) => b = c
           S == {n \in 0 .. (Len(P) - i) : \E b, c \in Seq(U) : After(n, b, c)}
<1>3. a = g[i - 1]
  <2>1. f[i - 1] = g[i - 1]
    BY <1>0, <1>1, <1>2, AgreeUpTo
  <2> QED BY <1>a, <2>1
<1>4. a \in Seq(U) /\ x \in Seq(U) /\ y \in Seq(U)
  <2>1. \A n \in 0 .. Len(P) : f[n] \in Seq(U)
    BY <1>1, StepsType
  <2> QED BY <1>0, <1>a, <2>1
<1>5. 0 \in S /\ S \in SUBSET Nat
  <2>1. f[i] = Cat(a, x) /\ g[i] = Cat(a, y)
    <3>1. i - 1 \in 0 .. Len(Q) /\ (i - 1) + 1 \in 0 .. Len(P) /\ (i - 1) + 1 \in 0 .. Len(Q)
      BY <1>0
    <3>2. f[(i - 1) + 1] = Cat(f[i - 1], P[(i - 1) + 1])
      BY <1>0, <1>1, <3>1 DEF StepsOf
    <3>3. g[(i - 1) + 1] = Cat(g[i - 1], Q[(i - 1) + 1])
      BY <1>2, <3>1 DEF StepsOf
    <3> QED BY <1>0, <1>a, <1>3, <3>2, <3>3
  <2>2. Cat(x, <<>>) = x /\ Cat(y, <<>>) = y /\ <<>> \in Seq(U)
    BY <1>4, CatEmpty, EmptySeq
  <2>3. i + 0 = i /\ 0 \in 0 .. (Len(P) - i)
    BY <1>0
  <2>4. After(0, <<>>, <<>>)
    BY <2>1, <2>2, <2>3
  <2> HIDE DEF After
  <2>5. 0 \in S
    BY <2>2, <2>3, <2>4
  <2> QED BY <1>0, <2>5
<1>6. ASSUME NEW n \in S, n < Len(P) - i PROVE n + 1 \in S
  <2>1. PICK b \in Seq(U), c \in Seq(U) : After(n, b, c)
    <3> HIDE DEF After
    <3> QED OBVIOUS
  <2>2. /\ n \in Nat /\ i + n \in 0 .. Len(P) /\ (i + n) + 1 \in 0 .. Len(P) /\ (i + n) + 1 \in 1 .. Len(P)
        /\ i + (n + 1) = (i + n) + 1 /\ n + 1 \in 0 .. (Len(P) - i) /\ (i + n) + 1 \in (i + 1) .. Len(P)
    <3>1. n \in 0 .. (Len(P) - i)
      <4> HIDE DEF After
      <4> QED OBVIOUS
    <3> HIDE DEF S
    <3>2. n \in Nat /\ n + 1 <= Len(P) - i /\ i \in Nat /\ Len(P) \in Nat
      BY <1>0, <1>6, <3>1
    <3>3. (i + n) + 1 <= Len(P) /\ i + (n + 1) = (i + n) + 1
      BY <3>2
    <3> QED BY <3>2, <3>3
  <2>a. PICK p, q : p = P[(i + n) + 1] /\ q = Q[(i + n) + 1]
    OBVIOUS
  <2>b. b \in Seq(U) /\ c \in Seq(U)
    OBVIOUS
  <2>3. p \in Seq(U) /\ q \in Seq(U)
    BY <1>0, <2>a, <2>2
  <2>4. f[i + (n + 1)] = Cat(f[i + n], p) /\ g[i + (n + 1)] = Cat(g[i + n], q)
    <3> HIDE DEF S, After
    <3>1. PICK m : m = i + n /\ m + 1 = i + (n + 1)
      BY <2>2
    <3>2. m \in 0 .. Len(P) /\ m + 1 \in 0 .. Len(P) /\ m \in 0 .. Len(Q) /\ m + 1 \in 0 .. Len(Q)
      BY <1>0, <2>2, <3>1
    <3>3. f[m + 1] = Cat(f[m], P[m + 1])
      BY <1>1, <3>2 DEF StepsOf
    <3>4. g[m + 1] = Cat(g[m], Q[m + 1])
      BY <1>2, <3>2 DEF StepsOf
    <3> QED BY <2>a, <3>1, <3>3, <3>4
  <2>5. (\A j \in (i + 1) .. Len(P) : P[j] = Q[j]) => p = q
    BY <2>a, <2>2
  <2>6. Cat(Cat(a, Cat(x, b)), p) = Cat(a, Cat(x, Cat(b, p))) /\ Cat(b, p) \in Seq(U)
    <3> HIDE DEF S
    <3> QED BY <1>4, <2>b, <2>3, CatBehind
  <2>8. Cat(Cat(a, Cat(y, c)), q) = Cat(a, Cat(y, Cat(c, q))) /\ Cat(c, q) \in Seq(U)
    <3> HIDE DEF S
    <3> QED BY <1>4, <2>b, <2>3, CatBehind
  <2>7. After(n + 1, Cat(b, p), Cat(c, q))
    BY <2>1, <2>4, <2>5, <2>6, <2>8
  <2> HIDE DEF After
  <2> QED BY <2>2, <2>6, <2>7, <2>8
<1>7. Len(P) - i \in S
  <2> DEFINE len == Len(P) - i
  <2>1. len \in Nat /\ len \in 0 .. len
    BY <1>0
  <2>2. \A n \in S : n < len => n + 1 \in S
    BY <1>6
  <2> HIDE DEF S, len
  <2>3. 0 .. len \subseteq S
    BY <1>5, <2>1, <2>2, InductionUpTo
  <2>4. len \in S
    BY <2>1, <2>3
  <2> QED BY <2>4 DEF len
<1>8. PICK b \in Seq(U), c \in Seq(U) : After(Len(P) - i, b, c)
  <2> HIDE DEF After
  <2> QED BY <1>7
<1>9. i + (Len(P) - i) = Len(P) /\ FlattenSeq(P) = f[Len(P)] /\ FlattenSeq(Q) = g[Len(P)]
  BY <1>0, <1>1, <1>2 DEF StepsOf
<1>10. Range(a) = SymbolsOf(P, i - 1)
  <2>1. \A n \in 0 .. Len(P) : Range(f[n]) = SymbolsOf(P, n)
    BY <1>1, SymbolsUpTo
  <2> QED BY <1>0, <1>a, <2>1
<1>11. Aligned(P, Q, i, a, b, c)
  BY <1>a, <1>8, <1>9, <1>10 DEF Aligned
<1> QED BY <1>4, <1>11

-----------------------------------------------------------------------------
(* Replacement.                                                            *)

LEMMA ReplacedNone ==
    ASSUME NEW t, NEW key, key \notin Range(t), NEW value
    PROVE  Replaced(t, key, value) = t
BY DEF Replaced, Range

LEMMA ReplacedAt ==
    ASSUME NEW U, NEW a \in Seq(U), NEW b \in Seq(U), NEW v \in Seq(U), NEW key \in U, key \notin Range(a)
    PROVE  Replaced(Cat(a, Cat(<<key>>, b)), key, v) = Cat(a, Cat(v, b))
<1>1. PICK t : t = Cat(a, Cat(<<key>>, b))
  OBVIOUS
<1>2. PICK n : n = Len(a)
  OBVIOUS
<1>3. <<key>> \in Seq(U) /\ Len(<<key>>) = 1 /\ <<key>>[1] = key
  OBVIOUS
<1>4. n \in Nat /\ Len(b) \in Nat /\ DOMAIN a = 1 .. n /\ DOMAIN b = 1 .. Len(b)
  BY <1>2, LenProperties
<1>5. PICK c, k : c = Cat(<<key>>, b) /\ k = <<key>>
  OBVIOUS
<1>6. c \in Seq(U) /\ Len(c) = 1 + Len(b) /\ c[1] = key /\ \A i \in 1 .. Len(b) : c[i + 1] = b[i]
  <2>1. k \in Seq(U) /\ c = Cat(k, b) /\ Len(k) = 1 /\ k[1] = key /\ 1 \in 1 .. 1
    BY <1>3, <1>5
  <2>2. /\ Len(c) = Len(k) + Len(b)
        /\ \A i \in 1 .. Len(k) : c[i] = k[i]
        /\ \A i \in 1 .. Len(b) : c[i + Len(k)] = b[i]
    <3>1. Joins(c, k, b)
      BY <2>1, CatJoins
    <3> QED BY <3>1 DEF Joins
  <2>3. c \in Seq(U)
    BY <2>1, CatType
  <2>4. Len(c) = 1 + Len(b) /\ c[1] = key
    BY <2>1, <2>2
  <2> QED BY <2>1, <2>2, <2>3, <2>4
<1>7. t \in Seq(U) /\ t = Cat(a, c)
  BY <1>1, <1>5, <1>6, CatType
<1>8. /\ Len(t) = n + (1 + Len(b)) /\ DOMAIN t = 1 .. (n + (1 + Len(b)))
      /\ \A i \in 1 .. n : t[i] = a[i]
      /\ \A i \in 1 .. (1 + Len(b)) : t[i + n] = c[i]
  <2>1. /\ DOMAIN t = 1 .. (Len(a) + Len(c)) /\ Len(t) = Len(a) + Len(c)
        /\ \A i \in 1 .. Len(a) : t[i] = a[i]
        /\ \A i \in 1 .. Len(c) : t[i + Len(a)] = c[i]
    <3>1. Joins(t, a, c)
      BY <1>6, <1>7, CatJoins
    <3> QED BY <3>1 DEF Joins
  <2> QED BY <1>2, <1>6, <2>1
<1>9. t[n + 1] = key /\ n + 1 \in DOMAIN t
  <2>1. 1 \in 1 .. (1 + Len(b)) /\ 1 + n = n + 1
    BY <1>4
  <2> QED BY <1>4, <1>6, <1>8, <2>1
<1>10. \A i \in 1 .. n : t[i] # key
  BY <1>4, <1>8 DEF Range
<1>11. FirstIn(t, n + 1)
  <2>1. (n + 1) - 1 = n
    BY <1>4
  <2> QED BY <1>9, <1>10, <2>1 DEF FirstIn
<1>12. ASSUME NEW i \in DOMAIN t, t[i] = key, FirstIn(t, i) PROVE i = n + 1
  <2>1. ~(i <= n)
    BY <1>4, <1>8, <1>10, <1>12
  <2>2. ~(n + 1 < i)
    <3> SUFFICES ASSUME n + 1 < i PROVE FALSE
      OBVIOUS
    <3>1. n + 1 \in 1 .. (i - 1)
      BY <1>4, <1>8
    <3> QED BY <1>9, <1>12, <3>1 DEF FirstIn
  <2> QED BY <1>4, <1>8, <2>1, <2>2
<1>13. (CHOOSE i \in DOMAIN t : t[i] = key /\ FirstIn(t, i)) = n + 1
  <2> HIDE DEF FirstIn
  <2> QED BY <1>9, <1>11, <1>12
<1>14. Replaced(t, key, v) = SubSeq(t, 1, n) \o v \o SubSeq(t, n + 2, Len(t))
  <2>1. (n + 1) - 1 = n /\ (n + 1) + 1 = n + 2
    BY <1>4
  <2> QED BY <1>9, <1>13, <2>1 DEF Replaced
<1>15. SubSeq(t, 1, n) = a
  <2>1. \A i \in 1 .. n : t[i] \in U
    BY <1>4, <1>7, <1>8
  <2>2. /\ SubSeq(t, 1, n) \in Seq(U) /\ Len(SubSeq(t, 1, n)) = IF 1 <= n THEN n - 1 + 1 ELSE 0
        /\ \A i \in 1 .. (n - 1 + 1) : SubSeq(t, 1, n)[i] = t[1 + i - 1]
    BY <1>4, <2>1, SubSeqProperties
  <2>3. Len(SubSeq(t, 1, n)) = n
    BY <1>4, <2>2
  <2>4. \A i \in 1 .. n : SubSeq(t, 1, n)[i] = a[i]
    <3> TAKE i \in 1 .. n
    <3>1. i \in 1 .. (n - 1 + 1) /\ 1 + i - 1 = i
      BY <1>4
    <3>2. SubSeq(t, 1, n)[i] = t[i]
      BY <2>2, <3>1
    <3> QED BY <1>8, <3>2
  <2> QED BY <1>2, <2>2, <2>3, <2>4, SeqEqual
<1>16. SubSeq(t, n + 2, Len(t)) = b
  <2>0. n + 2 \in Int /\ Len(t) \in Int /\ Len(t) - (n + 2) + 1 = Len(b)
    BY <1>4, <1>8
  <2>1. \A i \in (n + 2) .. Len(t) : t[i] \in U
    BY <1>4, <1>7, <1>8
  <2>2. /\ SubSeq(t, n + 2, Len(t)) \in Seq(U)
        /\ Len(SubSeq(t, n + 2, Len(t))) = IF n + 2 <= Len(t) THEN Len(t) - (n + 2) + 1 ELSE 0
        /\ \A i \in 1 .. (Len(t) - (n + 2) + 1) : SubSeq(t, n + 2, Len(t))[i] = t[(n + 2) + i - 1]
    BY <2>0, <2>1, SubSeqProperties
  <2>3. Len(SubSeq(t, n + 2, Len(t))) = Len(b)
    BY <1>4, <1>8, <2>0, <2>2
  <2>4. \A i \in 1 .. Len(b) : SubSeq(t, n + 2, Len(t))[i] = b[i]
    <3> TAKE i \in 1 .. Len(b)
    <3>1. i + 1 \in 1 .. (1 + Len(b)) /\ (n + 2) + i - 1 = (i + 1) + n
      BY <1>4
    <3>2. SubSeq(t, n + 2, Len(t))[i] = t[(i + 1) + n]
      BY <2>0, <2>2, <3>1
    <3>3. t[(i + 1) + n] = c[i + 1]
      BY <1>8, <3>1
    <3> QED BY <1>6, <3>2, <3>3
  <2> QED BY <2>2, <2>3, <2>4, SeqEqual
<1>17. Replaced(t, key, v) = Cat(Cat(a, v), b)
  BY <1>14, <1>15, <1>16 DEF Cat
<1>18. Cat(Cat(a, v), b) = Cat(a, Cat(v, b))
  BY CatAssociative
<1> QED BY <1>1, <1>17, <1>18

(* The parts of a text that is made of a format: some tokens are replaced, *)
(* the first of each; every other symbol stays, or becomes what it is      *)
(* embedded as.                                                            *)
Parts(format, done, value, embed) ==
    [i \in DOMAIN format |->
        IF format[i] \in done /\ FirstIn(format, i) THEN value[format[i]] ELSE <<embed[format[i]]>>]

Injective(embed, S) == \A s, t \in S : embed[s] = embed[t] => s = t

Valued(value, done, format, U) == \A s \in done \cap Range(format) : value[s] \in Seq(U)

(* A token that another one brings along stands in the format before it.   *)
Clear(format, done, value, key, k) ==
    \A i \in DOMAIN format :
        format[i] \in done /\ key \in Range(value[format[i]]) => \E j \in 1 .. (i - 1) : format[j] = k

(* A sequence of texts, one for each symbol of the format.                 *)
PartsOf(parts, format, U) == parts \in Seq(Seq(U)) /\ Len(parts) = Len(format)

LEMMA PartsType ==
    ASSUME NEW S, NEW U, NEW format \in Seq(S), NEW embed \in [S -> U], NEW done, NEW value,
           Valued(value, done, format, U)
    PROVE  PartsOf(Parts(format, done, value, embed), format, U)
<1> DEFINE P == Parts(format, done, value, embed)
<1>1. Len(format) \in Nat /\ DOMAIN format = 1 .. Len(format) /\ \A i \in DOMAIN format : format[i] \in S
  BY LenProperties, ElementOfSeq
<1>2. ASSUME NEW i \in DOMAIN format PROVE P[i] \in Seq(U)
  <2>1. format[i] \in S /\ embed[format[i]] \in U /\ format[i] \in Range(format)
    BY <1>1 DEF Range
  <2>2. <<embed[format[i]]>> \in Seq(U)
    BY <2>1
  <2>3. format[i] \in done => value[format[i]] \in Seq(U)
    BY <2>1 DEF Valued
  <2>4. P[i] = IF format[i] \in done /\ FirstIn(format, i) THEN value[format[i]] ELSE <<embed[format[i]]>>
    BY DEF Parts
  <2> QED BY <2>2, <2>3, <2>4
<1>3. P = [i \in 1 .. Len(format) |-> P[i]] /\ DOMAIN P = 1 .. Len(format)
  BY <1>1 DEF Parts
<1> HIDE DEF P
<1>4. P \in [1 .. Len(format) -> Seq(U)]
  BY <1>1, <1>2, <1>3
<1>5. P \in Seq(Seq(U))
  BY <1>1, <1>4, SeqDef
<1>6. Len(P) = Len(format)
  BY <1>1, <1>3, <1>5, LenProperties
<1> QED BY <1>5, <1>6 DEF P, PartsOf

(* A symbol is not among the first n.                                      *)
Absent(format, n, k) == n \in 0 .. Len(format) /\ \A j \in 1 .. n : format[j] # k

(* No part but a token's own has it, in front of it.                       *)
LEMMA KeyNotBefore ==
    ASSUME NEW S, NEW U, NEW format \in Seq(S), NEW embed \in [S -> U], Injective(embed, S), NEW done, NEW value,
           NEW k \in S, Clear(format, done, value, embed[k], k),
           NEW n, Absent(format, n, k)
    PROVE  embed[k] \notin SymbolsOf(Parts(format, done, value, embed), n)
<1>0. n \in 0 .. Len(format) /\ \A j \in 1 .. n : format[j] # k
  BY DEF Absent
<1> SUFFICES ASSUME NEW j \in 1 .. n PROVE embed[k] \notin Range(Parts(format, done, value, embed)[j])
  BY DEF SymbolsOf
<1>1. Len(format) \in Nat /\ DOMAIN format = 1 .. Len(format) /\ \A i \in DOMAIN format : format[i] \in S
  BY LenProperties, ElementOfSeq
<1>2. j \in DOMAIN format /\ format[j] # k /\ format[j] \in S /\ j \in Nat /\ n \in Nat /\ j <= n
  BY <1>0, <1>1
<1>3. CASE format[j] \in done /\ FirstIn(format, j)
  <2>1. Parts(format, done, value, embed)[j] = value[format[j]]
    BY <1>2, <1>3 DEF Parts
  <2>2. ASSUME embed[k] \in Range(value[format[j]]) PROVE FALSE
    <3>1. PICK l \in 1 .. (j - 1) : format[l] = k
      BY <1>2, <1>3, <2>2 DEF Clear
    <3>2. l \in 1 .. n
      BY <1>2
    <3> QED BY <1>0, <3>1, <3>2
  <2> QED BY <2>1, <2>2
<1>4. CASE ~(format[j] \in done /\ FirstIn(format, j))
  <2>1. Parts(format, done, value, embed)[j] = <<embed[format[j]]>>
    BY <1>2, <1>4 DEF Parts
  <2>2. Range(<<embed[format[j]]>>) = {embed[format[j]]}
    BY DEF Range
  <2>3. embed[format[j]] # embed[k]
    BY <1>2 DEF Injective
  <2> QED BY <2>1, <2>2, <2>3
<1> QED BY <1>3, <1>4

(* An iteration replaces one token more.                                   *)
LEMMA PartsReplaced ==
    ASSUME NEW S, NEW U, NEW format \in Seq(S), NEW embed \in [S -> U], Injective(embed, S), NEW done, NEW value,
           NEW k \in S, k \notin done, Valued(value, done \cup {k}, format, U),
           Clear(format, done, value, embed[k], k)
    PROVE  Replaced(FlattenSeq(Parts(format, done, value, embed)), embed[k], value[k])
               = FlattenSeq(Parts(format, done \cup {k}, value, embed))
<1>0. PICK P, Q : P = Parts(format, done, value, embed) /\ Q = Parts(format, done \cup {k}, value, embed)
  OBVIOUS
<1>1. Len(format) \in Nat /\ DOMAIN format = 1 .. Len(format) /\ \A i \in DOMAIN format : format[i] \in S
  BY LenProperties, ElementOfSeq
<1>2. Valued(value, done, format, U)
  BY DEF Valued
<1>3. P \in Seq(Seq(U)) /\ Len(P) = Len(format)
  <2>1. PartsOf(Parts(format, done, value, embed), format, U)
    BY <1>2, PartsType
  <2> QED BY <1>0, <2>1 DEF PartsOf
<1>4. Q \in Seq(Seq(U)) /\ Len(Q) = Len(format)
  <2>1. PartsOf(Parts(format, done \cup {k}, value, embed), format, U)
    BY PartsType
  <2> QED BY <1>0, <2>1 DEF PartsOf
<1>5. embed[k] \in U
  OBVIOUS
<1>6. CASE k \in Range(format)
  <2> DEFINE places == {i \in DOMAIN format : format[i] = k}
  <2>1. PICK i \in places : \A j \in places : i <= j
    <3>1. places \in SUBSET Nat /\ places # {}
      BY <1>1, <1>6 DEF Range
    <3> HIDE DEF places
    <3> QED BY <3>1, LeastExists
  <2>2. i \in DOMAIN format /\ format[i] = k /\ i \in Nat /\ i - 1 \in 0 .. Len(format)
    BY <1>1
  <2>3. \A j \in 1 .. (i - 1) : format[j] # k
    BY <1>1, <2>1, <2>2
  <2>4. FirstIn(format, i)
    BY <2>2, <2>3 DEF FirstIn
  <2>5. P[i] = <<embed[k]>> /\ Q[i] = value[k]
    BY <1>0, <2>2, <2>4 DEF Parts
  <2>6. ASSUME NEW j \in DOMAIN format, j # i PROVE P[j] = Q[j]
    <3>1. format[j] = k => ~FirstIn(format, j)
      <4> SUFFICES ASSUME format[j] = k, FirstIn(format, j) PROVE FALSE
        OBVIOUS
      <4>1. i <= j /\ j \in Nat
        BY <1>1, <2>1
      <4>2. i \in 1 .. (j - 1)
        BY <1>1, <2>2, <2>6, <4>1
      <4> QED BY <2>2, <4>2 DEF FirstIn
    <3> QED BY <1>0, <3>1 DEF Parts
  <2>7. /\ i \in 1 .. Len(P) /\ Len(Q) = Len(P) /\ \A j \in 1 .. (i - 1) : P[j] = Q[j]
        /\ \A j \in (i + 1) .. Len(P) : P[j] = Q[j]
    <3>1. \A j \in 1 .. (i - 1) : j \in DOMAIN format /\ j # i
      BY <1>1, <2>2
    <3>2. \A j \in (i + 1) .. Len(P) : j \in DOMAIN format /\ j # i
      BY <1>1, <1>3, <2>2
    <3> QED BY <1>1, <1>3, <1>4, <2>2, <2>6, <3>1, <3>2
  <2>8. PICK a \in Seq(U), b \in Seq(U), c \in Seq(U) : Aligned(P, Q, i, a, b, c)
    <3>1. Agree(P, Q, i - 1)
      BY <1>3, <2>2, <2>7 DEF Agree
    <3> QED BY <1>3, <1>4, <2>7, <3>1, FlattenTwo
  <2>9. embed[k] \notin Range(a)
    <3>1. Absent(format, i - 1, k)
      BY <2>2, <2>3 DEF Absent
    <3>2. embed[k] \notin SymbolsOf(P, i - 1)
      BY <1>0, <3>1, KeyNotBefore
    <3> QED BY <2>8, <3>2 DEF Aligned
  <2>10. value[k] \in Seq(U)
    BY <1>6 DEF Valued
  <2>11. Replaced(Cat(a, Cat(<<embed[k]>>, b)), embed[k], value[k]) = Cat(a, Cat(value[k], b))
    BY <1>5, <2>9, <2>10, ReplacedAt
  <2>12. b = c
    BY <2>7, <2>8 DEF Aligned
  <2> QED BY <1>0, <2>5, <2>8, <2>11, <2>12 DEF Aligned
<1>7. CASE k \notin Range(format)
  <2>1. \A j \in DOMAIN format : format[j] # k
    BY <1>7 DEF Range
  <2>2. P = Q
    BY <1>0, <2>1 DEF Parts
  <2>3. PICK upto : StepsOf(upto, P)
    BY <1>3, FlattenSteps
  <2>4. embed[k] \notin SymbolsOf(P, Len(P))
    <3>1. Absent(format, Len(format), k)
      <4>1. Len(format) \in 0 .. Len(format) /\ \A j \in 1 .. Len(format) : format[j] # k
        BY <1>1, <2>1
      <4> QED BY <4>1 DEF Absent
    <3>2. embed[k] \notin SymbolsOf(P, Len(format))
      BY <1>0, <3>1, KeyNotBefore
    <3> QED BY <1>3, <3>2
  <2>5. Range(upto[Len(P)]) = SymbolsOf(P, Len(P)) /\ FlattenSeq(P) = upto[Len(P)]
    <3>1. \A n \in 0 .. Len(P) : Range(upto[n]) = SymbolsOf(P, n)
      BY <1>3, <2>3, SymbolsUpTo
    <3>2. Len(P) \in 0 .. Len(P)
      BY <1>1, <1>3
    <3> QED BY <2>3, <3>1, <3>2 DEF StepsOf
  <2>6. Replaced(FlattenSeq(P), embed[k], value[k]) = FlattenSeq(P)
    BY <2>4, <2>5, ReplacedNone
  <2> QED BY <1>0, <2>2, <2>6
<1> QED BY <1>6, <1>7

(* Parts of one symbol each.                                               *)
Singles(parts, s) == Len(parts) = Len(s) /\ \A i \in 1 .. Len(s) : parts[i] = <<s[i]>>

LEMMA FlattenSingles ==
    ASSUME NEW U, NEW parts \in Seq(Seq(U)), NEW s \in Seq(U), Singles(parts, s)
    PROVE  FlattenSeq(parts) = s
<1>1. PICK f : StepsOf(f, parts)
  BY FlattenSteps
<1>2. PICK len : len = Len(s) /\ len = Len(parts) /\ len \in Nat
  BY LenProperties DEF Singles
<1>3. \A n \in 0 .. len : f[n] \in Seq(U)
  BY <1>1, <1>2, StepsType
<1> DEFINE Prefix(t, n) == Len(t) = n /\ \A i \in 1 .. n : t[i] = s[i]
           S == {n \in 0 .. len : Prefix(f[n], n)}
<1>4. 0 \in S /\ S \in SUBSET Nat
  <2>1. f[0] = <<>> /\ Len(<<>>) = 0
    BY <1>1 DEF StepsOf
  <2>2. Prefix(f[0], 0) /\ 0 \in 0 .. len
    BY <1>2, <2>1
  <2> HIDE DEF Prefix
  <2> QED BY <1>2, <2>2
<1>5. ASSUME NEW n \in S, n < len PROVE n + 1 \in S
  <2>1. n \in 0 .. len /\ n \in Nat /\ n + 1 \in 0 .. len /\ n + 1 \in 1 .. len /\ Prefix(f[n], n)
    <3>1. n \in 0 .. len /\ Prefix(f[n], n)
      OBVIOUS
    <3> HIDE DEF S, Prefix
    <3> QED BY <1>2, <1>5, <3>1
  <2> PICK t, u : t = f[n] /\ u = f[n + 1]
    OBVIOUS
  <2>2. u = Cat(t, <<s[n + 1]>>)
    <3>1. parts[n + 1] = <<s[n + 1]>>
      BY <1>2, <2>1 DEF Singles
    <3>2. f[n + 1] = Cat(f[n], parts[n + 1])
      BY <1>1, <1>2, <2>1 DEF StepsOf
    <3> QED BY <3>1, <3>2
  <2>3. t \in Seq(U)
    BY <1>3, <2>1
  <2>4. PICK e : e = s[n + 1] /\ e \in U
    BY <1>2, <2>1, ElementOfSeq
  <2>5. <<e>> \in Seq(U) /\ Len(<<e>>) = 1 /\ <<e>>[1] = e
    BY <2>4
  <2>6. Joins(u, t, <<e>>)
    BY <2>2, <2>3, <2>4, <2>5, CatJoins
  <2>7. Len(t) = n /\ \A i \in 1 .. n : t[i] = s[i]
    BY <2>1
  <2> HIDE DEF S, Prefix
  <2>8. Len(u) = n + 1 /\ (\A i \in 1 .. n : u[i] = s[i]) /\ u[1 + n] = s[n + 1]
    BY <2>4, <2>5, <2>6, <2>7 DEF Joins
  <2>9. \A i \in 1 .. (n + 1) : u[i] = s[i]
    <3> TAKE i \in 1 .. (n + 1)
    <3>1. CASE i = n + 1
      <4>1. 1 + n = n + 1
        BY <2>1
      <4> QED BY <2>8, <3>1, <4>1
    <3>2. CASE i # n + 1
      <4>1. i \in 1 .. n
        BY <2>1, <3>2
      <4> QED BY <2>8, <4>1
    <3> QED BY <3>1, <3>2
  <2>10. Prefix(f[n + 1], n + 1)
    BY <2>8, <2>9 DEF Prefix
  <2> QED BY <2>1, <2>10 DEF S
<1>6. 0 .. len \subseteq S
  <2> HIDE DEF S
  <2> QED BY <1>2, <1>4, <1>5, InductionUpTo
<1>7. Prefix(f[len], len) /\ f[len] \in Seq(U) /\ FlattenSeq(parts) = f[len]
  <2>1. len \in S /\ len \in 0 .. len
    BY <1>2, <1>6
  <2> QED BY <1>1, <1>2, <1>3, <2>1 DEF StepsOf
<1> QED BY <1>2, <1>7, SeqEqual

Embedded(format, embed) == [i \in DOMAIN format |-> embed[format[i]]]

(* No token is done that the format has.                                   *)
Untouched(format, done) == done \cap Range(format) = {}

Embeds(embed, S, U) == embed \in [S -> U]

LEMMA PartsNone ==
    ASSUME NEW S, NEW U, NEW format \in Seq(S), NEW embed, Embeds(embed, S, U), NEW done, NEW value,
           Untouched(format, done)
    PROVE  FlattenSeq(Parts(format, done, value, embed)) = Embedded(format, embed)
<1>0. embed \in [S -> U]
  BY DEF Embeds
<1>1. PICK P, e : P = Parts(format, done, value, embed) /\ e = Embedded(format, embed)
  OBVIOUS
<1>2. Len(format) \in Nat /\ DOMAIN format = 1 .. Len(format) /\ \A i \in DOMAIN format : format[i] \in S
  BY LenProperties, ElementOfSeq
<1>3. e \in Seq(U) /\ Len(e) = Len(format)
  <2>1. e \in [1 .. Len(format) -> U]
    BY <1>0, <1>1, <1>2 DEF Embedded
  <2>2. e \in Seq(U)
    BY <1>2, <2>1, SeqDef
  <2> QED BY <1>2, <2>1, <2>2, LenProperties
<1>4. PartsOf(P, format, U)
  <2>1. Valued(value, done, format, U)
    BY DEF Valued, Untouched
  <2> QED BY <1>0, <1>1, <2>1, PartsType
<1>5. Singles(P, e)
  <2>1. \A i \in DOMAIN format : format[i] \notin done
    BY DEF Range, Untouched
  <2>2. \A i \in DOMAIN format : P[i] = <<e[i]>>
    BY <1>1, <2>1 DEF Parts, Embedded
  <2> QED BY <1>2, <1>3, <1>4, <2>2 DEF Singles, PartsOf
<1> QED BY <1>1, <1>3, <1>4, <1>5, FlattenSingles DEF PartsOf

Itself(S) == [s \in S |-> s]

LEMMA RenderedParts ==
    ASSUME NEW S, NEW format \in Seq(S), NEW tokens, NEW value
    PROVE  Rendered(format, tokens, value) = FlattenSeq(Parts(format, tokens, value, Itself(S)))
<1>1. \A i \in DOMAIN format : Itself(S)[format[i]] = format[i]
  BY ElementOfSeq, LenProperties DEF Itself
<1>2. Parts(format, tokens, value, Itself(S))
          = [i \in DOMAIN format |->
                IF format[i] \in tokens /\ FirstIn(format, i) THEN value[format[i]] ELSE <<format[i]>>]
  BY <1>1 DEF Parts
<1> QED BY <1>2 DEF Rendered

LEMMA RenderedReplaced ==
    ASSUME NEW S, NEW format \in Seq(S), NEW done, NEW value, NEW k \in S, k \notin done,
           Valued(value, done \cup {k}, format, S), Clear(format, done, value, k, k)
    PROVE  Replaced(Rendered(format, done, value), k, value[k]) = Rendered(format, done \cup {k}, value)
<1>1. PICK embed : embed = Itself(S)
  OBVIOUS
<1>2. embed \in [S -> S] /\ Injective(embed, S) /\ embed[k] = k
  BY <1>1 DEF Itself, Injective
<1>3. Clear(format, done, value, embed[k], k)
  BY <1>2
<1>4. Replaced(FlattenSeq(Parts(format, done, value, embed)), embed[k], value[k])
          = FlattenSeq(Parts(format, done \cup {k}, value, embed))
  BY <1>2, <1>3, PartsReplaced
<1>5. Rendered(format, done, value) = FlattenSeq(Parts(format, done, value, embed))
  BY <1>1, RenderedParts
<1>6. Rendered(format, done \cup {k}, value) = FlattenSeq(Parts(format, done \cup {k}, value, embed))
  BY <1>1, RenderedParts
<1> QED BY <1>2, <1>4, <1>5, <1>6

LEMMA RenderedNone ==
    ASSUME NEW S, NEW format \in Seq(S), NEW done, NEW value, Untouched(format, done)
    PROVE  Rendered(format, done, value) = format
<1>0. PICK embed : embed = Itself(S)
  OBVIOUS
<1>1. Embeds(embed, S, S)
  BY <1>0 DEF Itself, Embeds
<1>2. FlattenSeq(Parts(format, done, value, embed)) = Embedded(format, embed)
  BY <1>1, PartsNone
<1>3. PICK n \in Nat : format \in [1 .. n -> S]
  BY LenProperties
<1>4. format = [i \in DOMAIN format |-> format[i]] /\ \A i \in DOMAIN format : format[i] \in S
  BY <1>3
<1>5. Embedded(format, embed) = format
  BY <1>0, <1>4 DEF Itself, Embedded
<1>6. Rendered(format, done, value) = FlattenSeq(Parts(format, done, value, embed))
  BY <1>0, RenderedParts
<1> QED BY <1>2, <1>5, <1>6

(* What is done with a token that the format does not have is of no        *)
(* importance.                                                             *)
LEMMA RenderedSame ==
    ASSUME NEW format, NEW done, NEW more, NEW value, NEW other,
           \A s \in Range(format) : (s \in done <=> s \in more) /\ (s \in done => value[s] = other[s])
    PROVE  Rendered(format, done, value) = Rendered(format, more, other)
<1>1. \A i \in DOMAIN format : /\ format[i] \in done <=> format[i] \in more
                               /\ format[i] \in done => value[format[i]] = other[format[i]]
  BY DEF Range
<1> QED BY <1>1 DEF Rendered

-----------------------------------------------------------------------------
(* The texts of a time.                                                    *)

LEMMA DigitGlyph == ASSUME NEW n \in Nat PROVE LastDigit(n) \in Range(Digit)
<1>1. n % 10 \in 0 .. 9
  OBVIOUS
<1>2. (n % 10) + 1 \in 1 .. 10
  BY <1>1
<1>3. DOMAIN Digit = 1 .. 10
  BY DEF Digit
<1> QED BY <1>2, <1>3 DEF LastDigit, Range

LEMMA PaddedType ==
    ASSUME NEW n \in Nat, NEW width \in 1 .. 4
    PROVE  Padded(n, width) \in Seq(Range(Digit)) /\ Len(Padded(n, width)) = width
<1>1. ASSUME NEW i \in 1 .. width PROVE LastDigit(n \div Place[width + 1 - i]) \in Range(Digit)
  <2>1. width + 1 - i \in 1 .. 4
    OBVIOUS
  <2>2. PICK p : p = Place[width + 1 - i] /\ p \in {1, 10, 100, 1000}
    BY <2>1 DEF Place
  <2>3. n \div p \in Nat
    BY <2>2
  <2> QED BY <2>2, <2>3, DigitGlyph
<1>2. Padded(n, width) \in [1 .. width -> Range(Digit)]
  BY <1>1 DEF Padded
<1>3. Padded(n, width) \in Seq(Range(Digit))
  BY <1>2, SeqDef
<1> QED BY <1>2, <1>3, LenProperties

(* What a field of digits is, in the texts of a time.                      *)
LEMMA FieldType == ASSUME NEW n \in Nat, NEW width \in 1 .. 4 PROVE Padded(n, width) \in Seq(Glyphs)
<1>1. Range(Digit) \subseteq Glyphs /\ Padded(n, width) \in Seq(Range(Digit))
  BY PaddedType DEF Glyphs
<1> QED BY <1>1, SeqMonotonic

(* The numbers of a time.                                                  *)
Numbers(t, y, mo, d, h, mi, s, m) ==
    /\ y = t.year /\ mo = t.month /\ d = t.day
    /\ h = t.ms \div Hour /\ mi = (t.ms \div Minute) % 60 /\ s = (t.ms \div 1000) % 60 /\ m = t.ms % 1000

LEMMA TimeNumbers ==
    ASSUME NEW t \in Times
    PROVE  \E y \in Nat, mo \in 1 .. 12, d \in Nat, h \in Nat, mi \in Nat, s \in Nat, m \in Nat :
               Numbers(t, y, mo, d, h, mi, s, m)
<1>1. PICK y, mo, d, z : y = t.year /\ mo = t.month /\ d = t.day /\ z = t.ms
  OBVIOUS
<1>2. y \in Years /\ mo \in 1 .. 12 /\ d \in 1 .. 31 /\ z \in 0 .. Day - 1
  BY <1>1, TimesAssumption
<1>3. y \in Nat
  BY <1>2, SMT DEF Years
<1>4. z \in Nat /\ d \in Nat
  BY <1>2, SMT
<1>5. PICK h, mi, s, m : h = z \div Hour /\ mi = (z \div Minute) % 60 /\ s = (z \div 1000) % 60 /\ m = z % 1000
  OBVIOUS
<1>6. h \in Nat /\ mi \in Nat /\ s \in Nat /\ m \in Nat
  BY <1>4, <1>5, SMT DEF Hour, Minute
<1>7. Numbers(t, y, mo, d, h, mi, s, m)
  BY <1>1, <1>5 DEF Numbers
<1> QED BY <1>2, <1>3, <1>4, <1>6, <1>7

LEMMA TimeTextType ==
    ASSUME NEW t \in Times, NEW k \in TimeTokens
    PROVE  TimeTexts(t)[k] \in Seq(Glyphs)
<1>0. PICK y \in Nat, mo \in 1 .. 12, d \in Nat, h \in Nat, mi \in Nat, s \in Nat, m \in Nat :
               Numbers(t, y, mo, d, h, mi, s, m)
  BY TimeNumbers
<1> DEFINE year == Padded(t.year, 4)
           month == Padded(t.month, 2)
           day == Padded(t.day, 2)
           hour == Padded(t.ms \div Hour, 2)
           min == Padded((t.ms \div Minute) % 60, 2)
           sec == Padded((t.ms \div 1000) % 60, 2)
           ms == Padded(t.ms % 1000, 3)
           date == year \o <<"-">> \o month \o <<"-">> \o day
           clock == hour \o <<":">> \o min \o <<":">> \o sec
<1>1. /\ year \in Seq(Glyphs) /\ month \in Seq(Glyphs) /\ day \in Seq(Glyphs) /\ hour \in Seq(Glyphs)
      /\ min \in Seq(Glyphs) /\ sec \in Seq(Glyphs) /\ ms \in Seq(Glyphs)
  <2>1. 4 \in 1 .. 4 /\ 3 \in 1 .. 4 /\ 2 \in 1 .. 4
    OBVIOUS
  <2>2. \A n \in Nat : \A w \in 1 .. 4 : Padded(n, w) \in Seq(Glyphs)
    BY FieldType
  <2>3. mo \in Nat
    OBVIOUS
  <2>4. /\ Padded(y, 4) \in Seq(Glyphs) /\ Padded(mo, 2) \in Seq(Glyphs) /\ Padded(d, 2) \in Seq(Glyphs)
        /\ Padded(h, 2) \in Seq(Glyphs) /\ Padded(mi, 2) \in Seq(Glyphs) /\ Padded(s, 2) \in Seq(Glyphs)
        /\ Padded(m, 3) \in Seq(Glyphs)
    BY <2>1, <2>2, <2>3
  <2> QED BY <1>0, <2>4, Zenon DEF Numbers
<1>m. PICK mon : mon = Months[t.month] /\ mon = Months[mo]
  BY <1>0, Zenon DEF Numbers
<1> HIDE DEF year, month, day, hour, min, sec, ms, date, clock
<1>2. /\ <<"-">> \in Seq(Glyphs) /\ <<":">> \in Seq(Glyphs) /\ <<" ">> \in Seq(Glyphs) /\ <<".">> \in Seq(Glyphs)
      /\ <<"0", "0", "0", "0">> \in Seq(Glyphs) /\ <<mon>> \in Seq(Glyphs)
  <2>1. "0" \in Range(Digit)
    <3>1. Digit[1] = "0" /\ 1 \in DOMAIN Digit
      BY DEF Digit
    <3> QED BY <3>1 DEF Range
  <2>2. mon \in Range(Months)
    <3>1. DOMAIN Months = 1 .. 12
      BY DEF Months
    <3> QED BY <1>m, <3>1 DEF Range
  <2>3. "0" \in Glyphs /\ mon \in Glyphs
    BY <2>1, <2>2 DEF Glyphs
  <2>4. "-" \in Glyphs /\ ":" \in Glyphs /\ " " \in Glyphs /\ "." \in Glyphs
    BY DEF Glyphs
  <2>5. <<"0", "0", "0", "0">> \in Seq(Glyphs)
    BY <2>3
  <2>6. \A c \in Glyphs : <<c>> \in Seq(Glyphs)
    OBVIOUS
  <2> QED BY <2>3, <2>4, <2>5, <2>6
<1>3. \A u, v \in Seq(Glyphs) : u \o v \in Seq(Glyphs)
  BY ConcatProperties
<1>4. date \in Seq(Glyphs)
  BY <1>1, <1>2, <1>3 DEF date
<1>5. clock \in Seq(Glyphs)
  BY <1>1, <1>2, <1>3 DEF clock
<1>6. date \o <<" ">> \o clock \in Seq(Glyphs)
  BY <1>2, <1>3, <1>4, <1>5
<1>7. clock \o <<".">> \o ms \o <<"0", "0", "0", "0">> \in Seq(Glyphs)
  BY <1>1, <1>2, <1>3, <1>5
<1>8. SubSeq(year, 3, 4) \in Seq(Glyphs)
  <2>1. Len(year) = 4
    <3>1. 4 \in 1 .. 4
      OBVIOUS
    <3>2. Len(Padded(y, 4)) = 4
      BY <3>1, PaddedType
    <3> QED BY <1>0, <3>2, Zenon DEF year, Numbers
  <2>2. \A i \in 3 .. 4 : year[i] \in Glyphs
    <3>1. \A i \in 1 .. 4 : year[i] \in Glyphs
      BY <1>1, <2>1, ElementOfSeq
    <3> QED BY <3>1
  <2> QED BY <2>2, SubSeqProperties
<1>9. TimeTexts(t)[k] =
            CASE k = "%%datatime" -> date \o <<" ">> \o clock
              [] k = "%%date" -> date     [] k = "%%year" -> year    [] k = "%%yr" -> SubSeq(year, 3, 4)
              [] k = "%%month" -> month   [] k = "%%monstr" -> <<mon>>
              [] k = "%%day" -> day       [] k = "%%time" -> clock \o <<".">> \o ms \o <<"0", "0", "0", "0">>
              [] k = "%%hour" -> hour     [] k = "%%min" -> min      [] k = "%%sec" -> sec
              [] k = "%%ms" -> ms
  BY <1>m, Zenon DEF TimeTexts, year, month, day, hour, min, sec, ms, date, clock
<1> PICK dt, yr, monstr, tm : dt = date \o <<" ">> \o clock /\ yr = SubSeq(year, 3, 4) /\ monstr = <<mon>>
                     /\ tm = clock \o <<".">> \o ms \o <<"0", "0", "0", "0">>
  OBVIOUS
<1> QED BY <1>1, <1>2, <1>4, <1>5, <1>6, <1>7, <1>8, <1>9 DEF TimeTokens

LEMMA GlyphsApart == Glyphs \cap Tokens = {}
BY CharactersAssumption

-----------------------------------------------------------------------------
(* What does not change while a text is made.                              *)

LEMMA FlattenType == ASSUME NEW U, NEW parts \in Seq(Seq(U)) PROVE FlattenSeq(parts) \in Seq(U)
<1>1. PICK upto : StepsOf(upto, parts)
  BY FlattenSteps
<1>2. \A n \in 0 .. Len(parts) : upto[n] \in Seq(U)
  BY <1>1, StepsType
<1>3. Len(parts) \in 0 .. Len(parts)
  BY LenProperties
<1> QED BY <1>1, <1>2, <1>3 DEF StepsOf

LEMMA ReplacedAllType ==
    ASSUME NEW U, NEW s \in Seq(U), NEW key, NEW value \in Seq(U)
    PROVE  ReplacedAll(s, key, value) \in Seq(U)
<1>1. PICK n \in Nat : n = Len(s) /\ DOMAIN s = 1 .. n /\ \A i \in 1 .. n : s[i] \in U
  BY LenProperties, ElementOfSeq
<1>2. PICK parts : parts = [i \in DOMAIN s |-> IF s[i] = key THEN value ELSE <<s[i]>>]
  OBVIOUS
<1>3. \A i \in 1 .. n : parts[i] \in Seq(U)
  BY <1>1, <1>2
<1>4. parts \in [1 .. n -> Seq(U)]
  BY <1>1, <1>2, <1>3
<1>5. parts \in Seq(Seq(U))
  BY <1>4, SeqDef
<1> QED BY <1>2, <1>5, FlattenType DEF ReplacedAll

LEMMA ModifiedType ==
    ASSUME NEW f \in Formats, NEW r \in Records
    PROVE  Modify_format_on_the_fly(f, r) \in Seq(Symbols)
<1>1. f \in Seq(Symbols)
  BY RecordsAssumption
<1>2. ASSUME NEW level \in DOMAIN Colour PROVE <<Colour[level], "%%level", "reset">> \in Seq(Symbols)
  <2>1. PICK c : c = Colour[level] /\ c \in Symbols
    <3>1. Colour[level] \in Range(Colour)
      BY DEF Range
    <3> QED BY <3>1 DEF Symbols
  <2>2. PICK d, e : d = "%%level" /\ e = "reset" /\ d \in Symbols /\ e \in Symbols
    BY DEF Symbols, Tokens, RecordTokens
  <2>3. <<c, d, e>> \in Seq(Symbols)
    BY <2>1, <2>2
  <2> QED BY <2>1, <2>2, <2>3
<1>3. \A level \in DOMAIN Colour :
          ReplacedAll(f, "%%level", <<Colour[level], "%%level", "reset">>) \in Seq(Symbols)
  BY <1>1, <1>2, ReplacedAllType
<1> QED BY <1>1, <1>3, Zenon DEF Modify_format_on_the_fly

(* The types of everything but the texts that are made.                    *)
Inputs ==
    /\ job \in Jobs \cup {"idle"}
    /\ pending \subseteq KeysOf(job)
    /\ input.format \in Seq(Symbols) /\ input.record \in [RecordTokens -> Seq(Symbols)]
    /\ config \in Configs
    /\ now \in Times

LEMMA KeysOfJob == ASSUME NEW j PROVE Keys(j) \subseteq KeysOf(j) /\ Keys(j)' \subseteq KeysOf(j)
BY DEF Keys, KeysOf

LEMMA InputsInvariant == Spec => []Inputs
<1>1. Init => Inputs
  <2> SUFFICES ASSUME Init PROVE Inputs
    OBVIOUS
  <2>1. input.format = <<>> /\ input.record \in Records
    BY DEF Init
  <2>2. input.format \in Seq(Symbols) /\ input.record \in [RecordTokens -> Seq(Symbols)]
    BY <2>1, RecordsAssumption, EmptySeq
  <2> QED BY <2>2 DEF Init, Inputs
<1>2. ASSUME Inputs, [Next]_vars PROVE Inputs'
  <2>0. \A j \in Jobs \cup {"idle"} : Loop(j) => job' \in Jobs \cup {"idle"} /\ (pending \subseteq KeysOf(job))'
    BY KeysOfJob DEF Loop
  <2>a. "idle" \in Jobs \cup {"idle"} /\ \A j \in {"record", "record time", "file", "file time", "fixed", "volatile"} : j \in Jobs
    BY DEF Jobs
  <2>1. CASE Format_log_message
    <3>1. PICK f \in Formats, r \in Records : \E format \in {f, Modify_format_on_the_fly(f, r)} :
              input' = [format |-> format, record |-> r]
      BY <2>1 DEF Format_log_message
    <3>2. PICK format \in {f, Modify_format_on_the_fly(f, r)} : input' = [format |-> format, record |-> r]
      BY <3>1
    <3>3. format \in Seq(Symbols) /\ r \in [RecordTokens -> Seq(Symbols)]
      BY ModifiedType, RecordsAssumption
    <3> QED BY <1>2, <2>0, <2>1, <2>a, <3>2, <3>3 DEF Format_log_message, Inputs
  <2>2. CASE Formatted \/ Format_time \/ Get_regex_pattern \/ Escape \/ Assign \/ Throw
    BY <1>2, <2>0, <2>2, <2>a DEF Formatted, Format_time, Get_regex_pattern, Escape, Assign, Throw, Inputs
  <2>3. CASE Update_filename
    BY <1>2, <2>0, <2>3, <2>a DEF Update_filename, Inputs
  <2>4. CASE Replace
    <3>1. pending' \subseteq pending /\ UNCHANGED <<job, input, config, now>>
      BY <2>4 DEF Replace
    <3> QED BY <1>2, <3>1 DEF Inputs, KeysOf
  <2>5. CASE UNCHANGED vars
    BY <1>2, <2>5 DEF vars, Inputs, KeysOf
  <2> QED BY <1>2, <2>1, <2>2, <2>3, <2>4, <2>5 DEF Next
<1> QED BY <1>1, <1>2, PTL DEF Spec

-----------------------------------------------------------------------------
(* A record.                                                               *)

(* What stands for the tokens of a record.                                 *)
Message == [k \in RecordTokens \cup TimeTokens |->
                IF k \in RecordTokens THEN input.record[k] ELSE TimeTexts(now)[k]]

(* The tokens that are replaced already, or are in none of the texts.      *)
Done == IF job = "record" THEN RecordTokens \ pending ELSE RecordTokens \cup (TimeTokens \ pending)

(* In the loops over the keys the text is the format with the first of     *)
(* each of those tokens replaced, whatever their order was.                *)
RecordInv ==
    Undisturbed /\ job \in {"record", "record time"} => text = Rendered(input.format, Done, Message)

LEMMA MessageTyped == ASSUME Inputs, NEW k \in RecordTokens \cup TimeTokens PROVE Message[k] \in Seq(Symbols)
<1>1. CASE k \in RecordTokens
  BY <1>1 DEF Inputs, Message
<1>2. CASE k \notin RecordTokens
  <2>1. TimeTexts(now)[k] \in Seq(Glyphs)
    BY <1>2, TimeTextType DEF Inputs
  <2>2. Glyphs \subseteq Symbols
    BY CharactersAssumption DEF Symbols
  <2>3. TimeTexts(now)[k] \in Seq(Symbols)
    BY <2>1, <2>2, SeqMonotonic
  <2> QED BY <1>2, <2>3 DEF Message
<1> QED BY <1>1, <1>2

(* An iteration over the keys of a record or of its time.                  *)
LEMMA MessageReplaced ==
    ASSUME Inputs, Undisturbed, NEW done \in SUBSET (RecordTokens \cup TimeTokens),
           NEW k \in (RecordTokens \cup TimeTokens) \ done
    PROVE  Replaced(Rendered(input.format, done, Message), k, Message[k]) = Rendered(input.format, done \cup {k}, Message)
<1>0. PICK format, value : format = input.format /\ value = Message
  OBVIOUS
<1>1. format \in Seq(Symbols) /\ k \in Symbols /\ k \notin done
  BY <1>0 DEF Inputs, Symbols, Tokens
<1>2. Valued(value, done \cup {k}, format, Symbols)
  BY <1>0, MessageTyped DEF Valued
<1>3. Clear(format, done, value, k, k)
  <2> SUFFICES ASSUME NEW i \in DOMAIN format, format[i] \in done, k \in Range(value[format[i]])
               PROVE  \E j \in 1 .. (i - 1) : format[j] = k
    BY DEF Clear
  <2>1. PICK s : s = format[i] /\ s \in done /\ s # k /\ s \in RecordTokens \cup TimeTokens
    OBVIOUS
  <2>2. s \in RecordTokens
    <3> SUFFICES ASSUME s \notin RecordTokens PROVE FALSE
      OBVIOUS
    <3>1. value[s] = TimeTexts(now)[s] /\ TimeTexts(now)[s] \in Seq(Glyphs)
      BY <1>0, <2>1, TimeTextType DEF Inputs, Message
    <3>2. k \in Glyphs
      BY <2>1, <3>1, RangeOfSeq
    <3> QED BY <3>2, GlyphsApart DEF Tokens
  <2>3. value[s] = input.record[s]
    BY <1>0, <2>2 DEF Message
  <2>4. k \in (Range(input.record[s]) \cap (RecordTokens \cup TimeTokens)) \ {s}
    BY <2>1, <2>3
  <2>5. k \in {format[j] : j \in 1 .. (i - 1)}
    BY <1>0, <2>1, <2>2, <2>4 DEF Undisturbed
  <2> QED BY <2>5
<1> QED BY <1>0, <1>1, <1>2, <1>3, RenderedReplaced

LEMMA RecordInvInit == Init => RecordInv
BY DEF Init, RecordInv

LEMMA RecordStarted == ASSUME Inputs', Format_log_message PROVE RecordInv'
<1>1. text' = input'.format /\ job' = "record" /\ pending' = Keys("record")'
  BY DEF Format_log_message, Loop
<1>2. input'.format \in Seq(Symbols)
  BY DEF Inputs
<1>3. Done' = RecordTokens \ Keys("record")'
  BY <1>1 DEF Done
<1>4. RecordTokens \cap Range(input'.format) \subseteq Keys("record")'
  BY DEF Keys, KeysOf
<1>5. Untouched(input'.format, Done')
  BY <1>3, <1>4 DEF Untouched
<1>6. Rendered(input'.format, Done', Message') = input'.format
  BY <1>2, <1>5, RenderedNone
<1> QED BY <1>1, <1>6 DEF RecordInv

LEMMA RecordReplaced == ASSUME Inputs, RecordInv, Replace PROVE RecordInv'
<1>0. UNCHANGED <<job, input, now>>
  BY DEF Replace
<1>1. Undisturbed' = Undisturbed /\ Message' = Message
  BY <1>0 DEF Undisturbed, Message, TimeTexts
<1> SUFFICES ASSUME Undisturbed, job \in {"record", "record time"} PROVE text' = Rendered(input.format, Done', Message)
  BY <1>0, <1>1 DEF RecordInv
<1>2. PICK key \in pending : /\ text' = Replaced(text, IF job = "volatile" THEN Literal(key) ELSE key, Values[key])
                             /\ pending' = pending \ {key}
  BY DEF Replace
<1>3. text' = Replaced(text, key, Values[key]) /\ text = Rendered(input.format, Done, Message)
  BY <1>2 DEF RecordInv
<1>4. Values[key] = Message[key] /\ key \in RecordTokens \cup TimeTokens /\ key \notin Done /\ Done' = Done \cup {key}
  <2>1. CASE job = "record"
    <3>1. key \in RecordTokens /\ Values = input.record /\ Message[key] = input.record[key]
      BY <2>1 DEF Inputs, KeysOf, Values, Message
    <3>2. Done = RecordTokens \ pending /\ Done' = RecordTokens \ pending'
      BY <1>0, <2>1 DEF Done
    <3> QED BY <1>2, <3>1, <3>2
  <2>2. CASE job = "record time"
    <3>1. key \in TimeTokens /\ Values = TimeTexts(now)
      BY <2>2 DEF Inputs, KeysOf, Values
    <3>2. key \notin RecordTokens
      BY <3>1 DEF RecordTokens, TimeTokens
    <3>3. Message[key] = TimeTexts(now)[key]
      BY <3>1, <3>2 DEF Message
    <3>4. Done = RecordTokens \cup (TimeTokens \ pending) /\ Done' = RecordTokens \cup (TimeTokens \ pending')
      BY <1>0, <2>2 DEF Done
    <3> QED BY <1>2, <3>1, <3>2, <3>3, <3>4
  <2> QED BY <2>1, <2>2
<1>5. Done \subseteq RecordTokens \cup TimeTokens
  BY DEF Done
<1>6. Replaced(Rendered(input.format, Done, Message), key, Message[key]) = Rendered(input.format, Done \cup {key}, Message)
  BY <1>4, <1>5, MessageReplaced
<1> QED BY <1>3, <1>4, <1>6

LEMMA RecordTimeStarted == ASSUME Inputs, RecordInv, Format_time PROVE RecordInv'
<1>0. UNCHANGED <<text, input, config, now>> /\ pending = {}
  BY DEF Format_time
<1>1. Undisturbed' = Undisturbed /\ Message' = Message
  BY <1>0 DEF Undisturbed, Message, TimeTexts
<1>2. CASE job = "record"
  <2> SUFFICES ASSUME Undisturbed PROVE text = Rendered(input.format, Done', Message)
    BY <1>0, <1>1 DEF RecordInv
  <2>1. job' = "record time" /\ pending' = Keys("record time")'
    BY <1>2 DEF Format_time, Loop
  <2>2. Done = RecordTokens /\ Done' = RecordTokens \cup (TimeTokens \ Keys("record time")')
    BY <1>0, <1>2, <2>1 DEF Done
  <2>3. TimeTokens \cap Range(input.format) \subseteq Keys("record time")'
    BY <1>0 DEF Keys, KeysOf
  <2>4. \A s \in Range(input.format) : s \in Done <=> s \in Done'
    BY <2>2, <2>3
  <2>5. Rendered(input.format, Done, Message) = Rendered(input.format, Done', Message)
    BY <2>4, RenderedSame
  <2> QED BY <1>2, <2>5 DEF RecordInv
<1>3. CASE job # "record"
  BY <1>3 DEF Format_time, Loop, RecordInv
<1> QED BY <1>2, <1>3

LEMMA RecordInvNext == ASSUME Inputs, Inputs', RecordInv, [Next]_vars PROVE RecordInv'
<1>1. CASE Format_log_message
  BY <1>1, RecordStarted
<1>2. CASE Replace
  BY <1>2, RecordReplaced
<1>3. CASE Format_time
  BY <1>3, RecordTimeStarted
<1>4. CASE Formatted \/ Update_filename \/ Get_regex_pattern \/ Escape \/ Assign \/ Throw
  <2>1. job' \notin {"record", "record time"}
    BY <1>4 DEF Formatted, Update_filename, Get_regex_pattern, Escape, Assign, Throw, Loop
  <2> QED BY <2>1 DEF RecordInv
<1>5. CASE UNCHANGED vars
  <2>1. UNCHANGED <<job, text, pending, input, now>>
    BY <1>5 DEF vars
  <2>2. Undisturbed' = Undisturbed /\ Message' = Message /\ Done' = Done
    BY <2>1 DEF Undisturbed, Message, Done, TimeTexts
  <2> QED BY <2>1, <2>2 DEF RecordInv
<1> QED BY <1>1, <1>2, <1>3, <1>4, <1>5 DEF Next

(* Whatever the order of the keys, a record is written as its format with  *)
(* the first of each token replaced at once (Target::Format_log_message    *)
(* and Target::Format_time, with their loops over unordered_map).          *)
THEOREM MessageWritten == Spec => []MessageAsFormatted
<1>1. RecordInv => MessageAsFormatted
  BY DEF RecordInv, MessageAsFormatted, Done, Message
<1>2. Spec => []RecordInv
  <2>1. Inputs /\ Inputs' /\ RecordInv /\ [Next]_vars => RecordInv'
    BY RecordInvNext
  <2> QED BY <2>1, RecordInvInit, InputsInvariant, PTL DEF Spec
<1> QED BY <1>1, <1>2, PTL

-----------------------------------------------------------------------------
(* A name, which is made in two loops.                                     *)

LEMMA RenderedType ==
    ASSUME NEW S, NEW format \in Seq(S), NEW done, NEW value, Valued(value, done, format, S)
    PROVE  Rendered(format, done, value) \in Seq(S)
<1>1. PICK embed : embed = Itself(S)
  OBVIOUS
<1>2. embed \in [S -> S]
  BY <1>1 DEF Itself
<1>3. PartsOf(Parts(format, done, value, embed), format, S)
  BY <1>2, PartsType
<1>4. FlattenSeq(Parts(format, done, value, embed)) \in Seq(S)
  BY <1>3, FlattenType DEF PartsOf
<1> QED BY <1>1, <1>4, RenderedParts

(* The texts of some tokens, with none of some tokens in them.             *)
Without(value, done, B, S) == \A s \in done : value[s] \in Seq(S) /\ Range(value[s]) \cap B = {}

(* Tokens that no text brings along may be replaced afterwards.            *)
LEMMA RenderedTwice ==
    ASSUME NEW S, NEW format \in Seq(S), NEW A, NEW value, NEW K \in Seq(S), A \cap Range(K) = {},
           Without(value, A \cup Range(K), Range(K), S)
    PROVE  Rendered(Rendered(format, A, value), Range(K), value) = Rendered(format, A \cup Range(K), value)
<1> DEFINE First(n) == {K[i] : i \in 1 .. n}
           good == {n \in 0 .. Len(K) :
                       Rendered(Rendered(format, A, value), First(n), value) = Rendered(format, A \cup First(n), value)}
<1>0. Len(K) \in Nat /\ DOMAIN K = 1 .. Len(K) /\ \A i \in 1 .. Len(K) : K[i] \in S /\ K[i] \in Range(K)
  BY LenProperties, ElementOfSeq DEF Range
<1>1. PICK half : half = Rendered(format, A, value)
  OBVIOUS
<1>2. half \in Seq(S)
  <2>1. Valued(value, A, format, S)
    BY DEF Valued, Without
  <2> QED BY <1>1, <2>1, RenderedType
<1>3. 0 \in good /\ good \in SUBSET Nat
  <2>1. First(0) = {} /\ A \cup First(0) = A /\ 0 \in 0 .. Len(K)
    BY <1>0
  <2>2. Untouched(half, First(0))
    BY <2>1 DEF Untouched
  <2>3. Rendered(half, First(0), value) = half
    BY <1>2, <2>2, RenderedNone
  <2> HIDE DEF First
  <2>4. 0 \in good
    BY <1>1, <2>1, <2>3
  <2> QED BY <1>0, <2>4
<1>4. ASSUME NEW n \in good, n < Len(K) PROVE n + 1 \in good
  <2>1. n \in 0 .. Len(K) /\ n + 1 \in 0 .. Len(K) /\ n + 1 \in 1 .. Len(K)
    <3>1. n \in 0 .. Len(K)
      OBVIOUS
    <3> HIDE DEF good
    <3> QED BY <1>0, <1>4, <3>1
  <2>2. Rendered(half, First(n), value) = Rendered(format, A \cup First(n), value)
    BY <1>1
  <2>3. First(n + 1) = First(n) \cup {K[n + 1]}
    <3>1. 1 .. (n + 1) = (1 .. n) \cup {n + 1}
      BY <2>1
    <3> QED BY <3>1
  <2>4. First(n) \subseteq Range(K)
    <3>1. 1 .. n \subseteq 1 .. Len(K)
      BY <1>0, <2>1
    <3> QED BY <1>0, <3>1
  <2> HIDE DEF First, good
  <2>5. PICK k, before : k = K[n + 1] /\ before = First(n) /\ k \in Range(K) /\ k \in S
    BY <1>0, <2>1
  <2>6. CASE k \in before
    <3>1. First(n + 1) = First(n)
      BY <2>3, <2>5, <2>6
    <3> QED BY <1>1, <2>1, <2>2, <3>1 DEF good
  <2>7. CASE k \notin before
    <3>1. Valued(value, before \cup {k}, half, S) /\ Valued(value, (A \cup before) \cup {k}, format, S)
      BY <2>4, <2>5 DEF Valued, Without
    <3>2. Clear(half, before, value, k, k) /\ Clear(format, A \cup before, value, k, k)
      BY <2>4, <2>5 DEF Clear, Without
    <3>3. Replaced(Rendered(half, before, value), k, value[k]) = Rendered(half, before \cup {k}, value)
      BY <1>2, <2>5, <2>7, <3>1, <3>2, RenderedReplaced
    <3>4. Replaced(Rendered(format, A \cup before, value), k, value[k]) = Rendered(format, (A \cup before) \cup {k}, value)
      <4>1. k \notin A \cup before
        BY <2>5, <2>7
      <4> QED BY <2>5, <3>1, <3>2, <4>1, RenderedReplaced
    <3>5. (A \cup before) \cup {k} = A \cup First(n + 1) /\ before \cup {k} = First(n + 1)
      BY <2>3, <2>5
    <3>6. Rendered(half, First(n + 1), value) = Rendered(format, A \cup First(n + 1), value)
      BY <2>2, <2>5, <3>3, <3>4, <3>5
    <3> QED BY <1>1, <2>1, <3>6 DEF good
  <2> QED BY <2>6, <2>7
<1>5. Len(K) \in good
  <2> HIDE DEF good
  <2>1. 0 .. Len(K) \subseteq good
    BY <1>0, <1>3, <1>4, InductionUpTo
  <2> QED BY <1>0, <2>1
<1>6. First(Len(K)) = Range(K)
  BY <1>0 DEF Range
<1> QED BY <1>5, <1>6

(* What a token of a file's name stands for.                               *)
NameTokens == FixedTokens \cup ProcessTokens \cup TimeTokens
Told(t) == [k \in NameTokens |-> IF k \in FixedTokens THEN config[k]
                                 ELSE IF k \in ProcessTokens THEN Process[k] ELSE TimeTexts(t)[k]]

(* The name before what is different for each process and file.            *)
Fixed == Rendered(config["format"], FixedTokens, config)

NameAt(t) == Rendered(Fixed, ProcessTokens \cup TimeTokens, Told(t))

LEMMA TokensApart ==
    /\ FixedTokens \cap (ProcessTokens \cup TimeTokens) = {}
    /\ ProcessTokens \cap TimeTokens = {}
    /\ NameTokens \subseteq Symbols
BY DEF FixedTokens, ProcessTokens, TimeTokens, NameTokens, Symbols, Tokens

LEMMA ToldTyped ==
    ASSUME Inputs, NEW t \in Times
    PROVE  /\ \A k \in NameTokens : Told(t)[k] \in Seq(Symbols)
           /\ \A k \in FixedTokens : Told(t)[k] = config[k]
           /\ \A k \in ProcessTokens : Told(t)[k] = Process[k]
           /\ \A k \in TimeTokens : Told(t)[k] = TimeTexts(t)[k]
<1>1. \A k \in FixedTokens : Told(t)[k] = config[k] /\ config[k] \in Seq(Symbols)
  BY ConfigsAssumption DEF Told, NameTokens, Inputs
<1>2. \A k \in ProcessTokens : Told(t)[k] = Process[k] /\ Process[k] \in Seq(Symbols)
  BY TokensApart, ProcessAssumption DEF Told, NameTokens
<1>3. \A k \in TimeTokens : Told(t)[k] = TimeTexts(t)[k]
  BY TokensApart DEF Told, NameTokens
<1>4. \A k \in TimeTokens : TimeTexts(t)[k] \in Seq(Symbols)
  <2>1. Glyphs \subseteq Symbols
    BY CharactersAssumption DEF Symbols
  <2>2. \A k \in TimeTokens : TimeTexts(t)[k] \in Seq(Glyphs)
    BY TimeTextType
  <2> QED BY <2>1, <2>2, SeqMonotonic
<1> QED BY <1>1, <1>2, <1>3, <1>4 DEF NameTokens

(* No text brings along a token of the process or the time, but a          *)
(* configured one, which may have those of the time.                       *)
LEMMA ToldSettled ==
    ASSUME Inputs, Settled, NEW t \in Times
    PROVE  /\ \A k \in FixedTokens : Range(Told(t)[k]) \cap (FixedTokens \cup ProcessTokens) = {}
           /\ \A k \in ProcessTokens \cup TimeTokens : Range(Told(t)[k]) \cap NameTokens = {}
<1>1. \A k \in FixedTokens : Range(Told(t)[k]) \cap (FixedTokens \cup ProcessTokens) = {}
  BY ToldTyped DEF Settled
<1>2. ASSUME NEW k \in ProcessTokens PROVE Range(Told(t)[k]) \subseteq Characters
  <2>1. Range(Process["%%pid"]) \subseteq Characters
    BY ProcessAssumption, CharactersAssumption DEF Glyphs
  <2>2. Range(Process["%%procname"]) \subseteq Characters
    BY DEF Settled
  <2> QED BY <2>1, <2>2, ToldTyped DEF ProcessTokens
<1>3. ASSUME NEW k \in TimeTokens PROVE Range(Told(t)[k]) \subseteq Characters
  <2>1. TimeTexts(t)[k] \in Seq(Glyphs)
    BY TimeTextType
  <2>2. Range(TimeTexts(t)[k]) \subseteq Glyphs
    BY <2>1, RangeOfSeq
  <2> QED BY <2>2, ToldTyped, CharactersAssumption
<1>4. Characters \cap NameTokens = {}
  BY CharactersAssumption DEF NameTokens, Tokens
<1> QED BY <1>1, <1>2, <1>3, <1>4

LEMMA FixedTyped == ASSUME Inputs PROVE config["format"] \in Seq(Symbols) /\ Fixed \in Seq(Symbols)
<1>1. config["format"] \in Seq(Symbols) /\ \A k \in FixedTokens : config[k] \in Seq(Symbols)
  BY ConfigsAssumption DEF Inputs
<1>2. Valued(config, FixedTokens, config["format"], Symbols)
  BY <1>1 DEF Valued
<1> QED BY <1>1, <1>2, RenderedType DEF Fixed

LEMMA FixedAsTold ==
    ASSUME Inputs, NEW t \in Times
    PROVE  Rendered(config["format"], FixedTokens, Told(t)) = Fixed
<1>1. \A s \in FixedTokens : Told(t)[s] = config[s]
  BY ToldTyped
<1> QED BY <1>1, RenderedSame DEF Fixed

(* The texts that a name is made of are those of its parts.                *)
LEMMA FixedSymbols ==
    ASSUME Inputs
    PROVE  Range(Fixed) \subseteq UNION {Range(t) : t \in Range(config)}
<1>1. PICK embed, format : embed = Itself(Symbols) /\ format = config["format"] /\ format \in Seq(Symbols)
  BY FixedTyped
<1>2. embed \in [Symbols -> Symbols] /\ \A s \in Symbols : embed[s] = s
  BY <1>1 DEF Itself
<1>3. DOMAIN config = FixedTokens \cup {"format"} /\ \A k \in FixedTokens : config[k] \in Seq(Symbols)
  BY ConfigsAssumption DEF Inputs
<1>4. PICK parts : parts = Parts(format, FixedTokens, config, embed)
  OBVIOUS
<1>5. parts \in Seq(Seq(Symbols)) /\ Len(parts) = Len(format)
  <2>1. Valued(config, FixedTokens, format, Symbols)
    BY <1>3 DEF Valued
  <2>2. PartsOf(parts, format, Symbols)
    BY <1>1, <1>2, <1>4, <2>1, PartsType
  <2> QED BY <2>2 DEF PartsOf
<1>6. Fixed = FlattenSeq(parts)
  BY <1>1, <1>4, RenderedParts DEF Fixed
<1>7. Range(Fixed) = SymbolsOf(parts, Len(parts))
  <2>1. PICK upto : StepsOf(upto, parts)
    BY <1>5, FlattenSteps
  <2>2. \A n \in 0 .. Len(parts) : Range(upto[n]) = SymbolsOf(parts, n)
    BY <1>5, <2>1, SymbolsUpTo
  <2>3. Len(parts) \in 0 .. Len(parts) /\ FlattenSeq(parts) = upto[Len(parts)]
    BY <1>5, <2>1, LenProperties DEF StepsOf
  <2> QED BY <1>6, <2>2, <2>3
<1>8. ASSUME NEW i \in 1 .. Len(parts) PROVE \E t \in Range(config) : Range(parts[i]) \subseteq Range(t)
  <2>1. i \in DOMAIN format /\ format[i] \in Symbols /\ format[i] \in Range(format)
    BY <1>1, <1>5, LenProperties, ElementOfSeq DEF Range
  <2>2. CASE format[i] \in FixedTokens /\ FirstIn(format, i)
    <3>1. parts[i] = config[format[i]] /\ config[format[i]] \in Range(config)
      BY <1>3, <1>4, <2>1, <2>2 DEF Parts, Range
    <3> QED BY <3>1
  <2>3. CASE ~(format[i] \in FixedTokens /\ FirstIn(format, i))
    <3>1. parts[i] = <<format[i]>>
      BY <1>2, <1>4, <2>1, <2>3 DEF Parts
    <3>2. format \in Range(config)
      BY <1>1, <1>3 DEF Range
    <3>3. Range(<<format[i]>>) = {format[i]}
      BY DEF Range
    <3> QED BY <2>1, <3>1, <3>2, <3>3
  <2> QED BY <2>2, <2>3
<1> QED BY <1>7, <1>8 DEF SymbolsOf

(* The tokens of the process may be replaced after the others.             *)
LEMMA ProcessLater ==
    ASSUME Inputs, Settled, NEW t \in Times
    PROVE  Rendered(config["format"], FixedTokens \cup ProcessTokens, Told(t)) = Rendered(Fixed, ProcessTokens, Told(t))
<1>1. PICK K : K = <<"%%pid", "%%procname">>
  OBVIOUS
<1>2. Range(K) = ProcessTokens
  BY <1>1 DEF Range, ProcessTokens
<1>3. K \in Seq(Symbols)
  <2>1. PICK c, d : c = "%%pid" /\ d = "%%procname"
    OBVIOUS
  <2>2. c \in Symbols /\ d \in Symbols
    BY <2>1 DEF Symbols, Tokens, ProcessTokens
  <2>3. <<c, d>> \in Seq(Symbols)
    BY <2>2
  <2> QED BY <1>1, <2>1, <2>3
<1>4. PICK format, value : format = config["format"] /\ value = Told(t) /\ format \in Seq(Symbols)
  BY FixedTyped
<1>5. Without(value, FixedTokens \cup Range(K), Range(K), Symbols)
  <2>1. \A k \in FixedTokens \cup ProcessTokens : value[k] \in Seq(Symbols)
    BY <1>4, ToldTyped DEF NameTokens
  <2>2. \A k \in FixedTokens \cup ProcessTokens : Range(value[k]) \cap ProcessTokens = {}
    BY <1>4, ToldSettled DEF NameTokens
  <2> QED BY <1>2, <2>1, <2>2 DEF Without
<1>6. FixedTokens \cap Range(K) = {}
  BY <1>2, TokensApart
<1>7. Rendered(Rendered(format, FixedTokens, value), Range(K), value) = Rendered(format, FixedTokens \cup Range(K), value)
  BY <1>3, <1>4, <1>5, <1>6, RenderedTwice
<1> QED BY <1>2, <1>4, <1>7, FixedAsTold

(* An iteration over the keys of the configuration and the process.        *)
LEMMA FormatReplaced ==
    ASSUME Inputs, Settled, NEW t \in Times, NEW done \in SUBSET (FixedTokens \cup ProcessTokens),
           NEW k \in (FixedTokens \cup ProcessTokens) \ done
    PROVE  Replaced(Rendered(config["format"], done, Told(t)), k, Told(t)[k])
               = Rendered(config["format"], done \cup {k}, Told(t))
<1>1. PICK format, value : format = config["format"] /\ value = Told(t) /\ format \in Seq(Symbols)
  BY FixedTyped
<1>2. Valued(value, done \cup {k}, format, Symbols)
  BY <1>1, ToldTyped DEF Valued, NameTokens
<1>3. Clear(format, done, value, k, k)
  <2>1. \A s \in done : k \notin Range(value[s])
    BY <1>1, ToldSettled DEF NameTokens
  <2> QED BY <2>1 DEF Clear
<1>4. k \in Symbols /\ k \notin done
  BY TokensApart DEF NameTokens
<1> QED BY <1>1, <1>2, <1>3, <1>4, RenderedReplaced

(* An iteration over the keys of the time.                                 *)
LEMMA FixedReplaced ==
    ASSUME Inputs, Settled, NEW t \in Times, NEW done \in SUBSET (ProcessTokens \cup TimeTokens),
           NEW k \in (ProcessTokens \cup TimeTokens) \ done
    PROVE  Replaced(Rendered(Fixed, done, Told(t)), k, Told(t)[k]) = Rendered(Fixed, done \cup {k}, Told(t))
<1>1. PICK format, value : format = Fixed /\ value = Told(t) /\ format \in Seq(Symbols)
  BY FixedTyped
<1>2. Valued(value, done \cup {k}, format, Symbols)
  BY <1>1, ToldTyped DEF Valued, NameTokens
<1>3. Clear(format, done, value, k, k)
  <2>1. \A s \in done : k \notin Range(value[s])
    BY <1>1, ToldSettled DEF NameTokens
  <2> QED BY <2>1 DEF Clear
<1>4. k \in Symbols /\ k \notin done
  BY TokensApart DEF NameTokens
<1> QED BY <1>1, <1>2, <1>3, <1>4, RenderedReplaced

-----------------------------------------------------------------------------
(* The name that is made, in the loops over its keys.                      *)

MadeInv ==
    Settled =>
        /\ job = "file" => text = Rendered(config["format"], (FixedTokens \cup ProcessTokens) \ pending, Told(now))
        /\ job = "file time" => text = Rendered(Fixed, ProcessTokens \cup (TimeTokens \ pending), Told(now))
        /\ job = "fixed" => text = Rendered(config["format"], FixedTokens \ pending, Told(now))
        /\ job \in {"fixed", "volatile"} => name = NameAt(now)

LEMMA SameConfig ==
    ASSUME config' = config
    PROVE  Settled' = Settled /\ Fixed' = Fixed /\ (now' = now => Told(now)' = Told(now) /\ NameAt(now)' = NameAt(now))
<1>1. Settled' = Settled /\ Fixed' = Fixed
  BY DEF Settled, Fixed
<1>2. ASSUME now' = now PROVE Told(now)' = Told(now)
  BY <1>2 DEF Told, TimeTexts
<1>3. ASSUME now' = now PROVE NameAt(now)' = NameAt(now)
  BY <1>1, <1>2, <1>3 DEF NameAt
<1> QED BY <1>1, <1>2, <1>3

(* The loop over the configuration begins with the format.                 *)
LEMMA FormatStarted ==
    ASSUME Inputs', config' = config, NEW j, NEW done \in SUBSET KeysOf(j), NEW value,
           KeysOf(j) \cap Keys(j)' \cap done = {}, j \in {"file", "fixed"}
    PROVE  Rendered(config["format"], done, value) = config["format"]
<1>1. config["format"] \in Seq(Symbols) /\ config["format"] \in Range(config)
  <2>1. config \in Configs
    BY DEF Inputs
  <2> QED BY <2>1, ConfigsAssumption DEF Range
<1>2. KeysOf(j) \cap Range(config["format"]) \subseteq Keys(j)'
  BY <1>1 DEF Keys, KeysOf
<1>3. Untouched(config["format"], done)
  BY <1>2 DEF Untouched
<1> QED BY <1>1, <1>3, RenderedNone

LEMMA MadeReplaced == ASSUME Inputs, MadeInv, Replace PROVE MadeInv'
<1>0. UNCHANGED <<job, config, now, name>>
  BY DEF Replace
<1>1. Settled' = Settled /\ Fixed' = Fixed /\ Told(now)' = Told(now) /\ NameAt(now)' = NameAt(now)
  BY <1>0, SameConfig
<1> SUFFICES ASSUME Settled
             PROVE  /\ job = "file" => text' = Rendered(config["format"], (FixedTokens \cup ProcessTokens) \ pending', Told(now))
                    /\ job = "file time" => text' = Rendered(Fixed, ProcessTokens \cup (TimeTokens \ pending'), Told(now))
                    /\ job = "fixed" => text' = Rendered(config["format"], FixedTokens \ pending', Told(now))
                    /\ job \in {"fixed", "volatile"} => name = NameAt(now)
  BY <1>0, <1>1 DEF MadeInv
<1>2. PICK key \in pending : /\ text' = Replaced(text, IF job = "volatile" THEN Literal(key) ELSE key, Values[key])
                             /\ pending' = pending \ {key}
  BY DEF Replace
<1>3. PICK value : value = Told(now)
  OBVIOUS
<1>4. now \in Times /\ pending \subseteq KeysOf(job)
  BY DEF Inputs
<1>5. CASE job = "file"
  <2>1. text' = Replaced(text, key, Values[key]) /\ key \in FixedTokens \cup ProcessTokens
    BY <1>2, <1>4, <1>5 DEF KeysOf
  <2>2. Values[key] = value[key]
    BY <1>3, <1>4, <1>5, <2>1, ToldTyped DEF Values
  <2>3. PICK done : done = (FixedTokens \cup ProcessTokens) \ pending
    OBVIOUS
  <2>4. text = Rendered(config["format"], done, value)
    BY <1>3, <1>5, <2>3 DEF MadeInv
  <2>5. Replaced(Rendered(config["format"], done, value), key, value[key]) = Rendered(config["format"], done \cup {key}, value)
    BY <1>2, <1>3, <1>4, <2>1, <2>3, FormatReplaced
  <2>6. done \cup {key} = (FixedTokens \cup ProcessTokens) \ pending'
    BY <1>2, <2>1, <2>3
  <2> QED BY <1>3, <1>5, <2>1, <2>2, <2>4, <2>5, <2>6
<1>6. CASE job = "file time"
  <2>1. text' = Replaced(text, key, Values[key]) /\ key \in TimeTokens
    BY <1>2, <1>4, <1>6 DEF KeysOf
  <2>2. Values[key] = value[key]
    BY <1>3, <1>4, <1>6, <2>1, ToldTyped DEF Values
  <2>3. PICK done : done = ProcessTokens \cup (TimeTokens \ pending)
    OBVIOUS
  <2>4. text = Rendered(Fixed, done, value)
    BY <1>3, <1>6, <2>3 DEF MadeInv
  <2>5. Replaced(Rendered(Fixed, done, value), key, value[key]) = Rendered(Fixed, done \cup {key}, value)
    BY <1>2, <1>3, <1>4, <2>1, <2>3, FixedReplaced, TokensApart
  <2>6. done \cup {key} = ProcessTokens \cup (TimeTokens \ pending')
    BY <1>2, <2>1, <2>3
  <2> QED BY <1>3, <1>6, <2>1, <2>2, <2>4, <2>5, <2>6
<1>7. CASE job = "fixed"
  <2>1. text' = Replaced(text, key, Values[key]) /\ key \in FixedTokens
    BY <1>2, <1>4, <1>7 DEF KeysOf
  <2>2. Values[key] = value[key]
    BY <1>3, <1>4, <1>7, <2>1, ToldTyped DEF Values
  <2>3. PICK done : done = FixedTokens \ pending
    OBVIOUS
  <2>4. text = Rendered(config["format"], done, value)
    BY <1>3, <1>7, <2>3 DEF MadeInv
  <2>5. Replaced(Rendered(config["format"], done, value), key, value[key]) = Rendered(config["format"], done \cup {key}, value)
    BY <1>2, <1>3, <1>4, <2>1, <2>3, FormatReplaced
  <2>6. done \cup {key} = FixedTokens \ pending'
    BY <1>2, <2>1, <2>3
  <2>7. name = NameAt(now)
    BY <1>7 DEF MadeInv
  <2> QED BY <1>3, <1>7, <2>1, <2>2, <2>4, <2>5, <2>6, <2>7
<1>8. CASE job \notin {"file", "file time", "fixed"}
  BY <1>8 DEF MadeInv
<1> QED BY <1>5, <1>6, <1>7, <1>8

LEMMA MadeStarted == ASSUME Inputs, Inputs', MadeInv, Update_filename \/ Get_regex_pattern PROVE MadeInv'
<1>0. config' = config
  BY DEF Update_filename, Get_regex_pattern
<1>1. Settled' = Settled /\ Fixed' = Fixed
  BY <1>0, SameConfig
<1>2. CASE Update_filename
  <2>1. job' = "file" /\ pending' = Keys("file")' /\ text' = config["format"]
    BY <1>2 DEF Update_filename, Loop
  <2>2. PICK value, done : value = Told(now)' /\ done = (FixedTokens \cup ProcessTokens) \ pending'
    OBVIOUS
  <2>3. done \in SUBSET KeysOf("file") /\ KeysOf("file") \cap Keys("file")' \cap done = {}
    BY <2>1, <2>2 DEF KeysOf
  <2>4. Rendered(config["format"], done, value) = config["format"]
    BY <1>0, <2>3, FormatStarted
  <2>5. text' = Rendered(config'["format"], (FixedTokens \cup ProcessTokens) \ pending', Told(now)')
    BY <1>0, <2>1, <2>2, <2>4
  <2> QED BY <2>1, <2>5 DEF MadeInv
<1>3. CASE Get_regex_pattern
  <2>1. /\ job' = "fixed" /\ pending' = Keys("fixed")' /\ text' = config["format"] /\ name' = text
        /\ job = "file time" /\ pending = {} /\ now' = now
    BY <1>3 DEF Get_regex_pattern, Loop
  <2>2. PICK value, done : value = Told(now)' /\ done = FixedTokens \ pending'
    OBVIOUS
  <2>3. done \in SUBSET KeysOf("fixed") /\ KeysOf("fixed") \cap Keys("fixed")' \cap done = {}
    BY <2>1, <2>2 DEF KeysOf
  <2>4. Rendered(config["format"], done, value) = config["format"]
    BY <1>0, <2>3, FormatStarted
  <2>5. text' = Rendered(config'["format"], FixedTokens \ pending', Told(now)')
    BY <1>0, <2>1, <2>2, <2>4
  <2>6. Settled => name' = NameAt(now)'
    <3>1. NameAt(now)' = NameAt(now)
      BY <1>0, <2>1, SameConfig
    <3>2. ASSUME Settled PROVE text = NameAt(now)
      <4>1. text = Rendered(Fixed, ProcessTokens \cup (TimeTokens \ pending), Told(now))
        BY <2>1, <3>2 DEF MadeInv
      <4>2. TimeTokens \ pending = TimeTokens
        BY <2>1
      <4> QED BY <4>1, <4>2 DEF NameAt
    <3> QED BY <2>1, <3>1, <3>2
  <2> QED BY <1>1, <2>1, <2>5, <2>6 DEF MadeInv
<1> QED BY <1>2, <1>3

(* The loop over the keys of the time goes on where the other ended.       *)
LEMMA MadeTimeStarted == ASSUME Inputs, MadeInv, Format_time PROVE MadeInv'
<1>0. UNCHANGED <<text, config, now, name>> /\ pending = {}
  BY DEF Format_time
<1>1. Settled' = Settled /\ Fixed' = Fixed /\ Told(now)' = Told(now)
  BY <1>0, SameConfig
<1>2. CASE job = "file"
  <2> SUFFICES ASSUME Settled PROVE text = Rendered(Fixed, ProcessTokens \cup (TimeTokens \ pending'), Told(now))
    <3>1. job' = "file time"
      BY <1>2 DEF Format_time, Loop
    <3> QED BY <1>0, <1>1, <3>1 DEF MadeInv
  <2>1. pending' = Keys("file time")'
    BY <1>2 DEF Format_time, Loop
  <2>2. text = Rendered(config["format"], FixedTokens \cup ProcessTokens, Told(now))
    <3>1. (FixedTokens \cup ProcessTokens) \ pending = FixedTokens \cup ProcessTokens
      BY <1>0
    <3> QED BY <1>2, <3>1 DEF MadeInv
  <2>3. text = Rendered(Fixed, ProcessTokens, Told(now))
    BY <2>2, ProcessLater DEF Inputs
  <2>4. TimeTokens \cap Range(Fixed) \subseteq pending'
    <3>1. Range(Fixed) \subseteq UNION {Range(t) : t \in Range(config)}
      BY FixedSymbols
    <3>2. Keys("file time")' = TimeTokens \cap UNION {Range(t) : t \in Range(config) \cup Range(Process)}
      BY <1>0 DEF Keys, KeysOf
    <3> QED BY <2>1, <3>1, <3>2
  <2>5. PICK A, B : A = ProcessTokens /\ B = ProcessTokens \cup (TimeTokens \ pending')
    OBVIOUS
  <2>6. \A s \in Range(Fixed) : s \in A <=> s \in B
    BY <2>4, <2>5
  <2>7. Rendered(Fixed, A, Told(now)) = Rendered(Fixed, B, Told(now))
    BY <2>6, RenderedSame
  <2> QED BY <2>3, <2>5, <2>7
<1>3. CASE job # "file"
  <2>1. job' = "record time"
    BY <1>3 DEF Format_time, Loop
  <2> QED BY <2>1 DEF MadeInv
<1> QED BY <1>2, <1>3

LEMMA MadeInvNext == ASSUME Inputs, Inputs', MadeInv, [Next]_vars PROVE MadeInv'
<1>1. CASE Update_filename \/ Get_regex_pattern
  BY <1>1, MadeStarted
<1>2. CASE Replace
  BY <1>2, MadeReplaced
<1>3. CASE Format_time
  BY <1>3, MadeTimeStarted
<1>4. CASE Format_log_message \/ Formatted \/ Assign \/ Throw
  <2>1. job' \notin {"file", "file time", "fixed", "volatile"}
    BY <1>4 DEF Format_log_message, Formatted, Assign, Throw, Loop
  <2> QED BY <2>1 DEF MadeInv
<1>5. CASE Escape
  <2>1. job = "fixed" /\ job' = "volatile" /\ UNCHANGED <<config, now, name>>
    BY <1>5 DEF Escape, Loop
  <2>2. Settled' = Settled /\ NameAt(now)' = NameAt(now)
    BY <2>1, SameConfig
  <2> QED BY <2>1, <2>2 DEF MadeInv
<1>6. CASE UNCHANGED vars
  <2>1. UNCHANGED <<job, text, pending, config, now, name>>
    BY <1>6 DEF vars
  <2>2. Settled' = Settled /\ Fixed' = Fixed /\ Told(now)' = Told(now) /\ NameAt(now)' = NameAt(now)
    BY <2>1, SameConfig
  <2> QED BY <2>1, <2>2 DEF MadeInv
<1> QED BY <1>1, <1>2, <1>3, <1>4, <1>5, <1>6 DEF Next

LEMMA MadeInvariant == Spec => []MadeInv
<1>1. Init => MadeInv
  BY DEF Init, MadeInv
<1>2. Inputs /\ Inputs' /\ MadeInv /\ [Next]_vars => MadeInv'
  BY MadeInvNext
<1> QED BY <1>1, <1>2, InputsInvariant, PTL DEF Spec

-----------------------------------------------------------------------------
(* The names so far, which are those of times that follow each other.      *)

Making == job \in {"file", "file time", "fixed", "volatile"}

(* The last file's time is before the one of the name that is made.        *)
LastTime(t) == IF Making THEN Before(t, now) ELSE t = now \/ Before(t, now)

Dated(times) ==
    /\ times \in Seq(Times) /\ Len(times) = Len(names)
    /\ \A i \in 1 .. Len(names) : names[i] = NameAt(times[i])
    /\ \A i \in 1 .. (Len(names) - 1) : Before(times[i], times[i + 1])
    /\ names # <<>> => LastTime(times[Len(times)])

NamesInv == Settled => names \in Seq(Seq(Symbols)) /\ \E times : Dated(times)

LEMMA NameType == ASSUME Inputs, Settled, NEW t \in Times PROVE NameAt(t) \in Seq(Symbols)
<1>1. Valued(Told(t), ProcessTokens \cup TimeTokens, Fixed, Symbols)
  BY ToldTyped DEF Valued, NameTokens
<1> QED BY <1>1, FixedTyped, RenderedType DEF NameAt

LEMMA BeforeTransitive ==
    ASSUME NEW t \in Times, NEW u \in Times, NEW v \in Times, Before(t, u), Before(u, v) PROVE Before(t, v)
<1>1. PICK dt, du, dv : /\ dt = (t.year * 12 + t.month) * 31 + t.day
                        /\ du = (u.year * 12 + u.month) * 31 + u.day
                        /\ dv = (v.year * 12 + v.month) * 31 + v.day
  OBVIOUS
<1>2. t.ms \in Int /\ u.ms \in Int /\ v.ms \in Int
  BY TimesAssumption
<1>3. \A w \in Times : w.year \in Years /\ w.month \in Int /\ w.day \in Int
  BY TimesAssumption
<1>4. \A y \in Years : y \in Int
  BY SMT DEF Years
<1>5. dt \in Int /\ du \in Int /\ dv \in Int
  <2>1. \A w \in Times : (w.year * 12 + w.month) * 31 + w.day \in Int
    BY <1>3, <1>4
  <2> QED BY <1>1, <2>1
<1>6. (dt < du \/ (dt = du /\ t.ms < u.ms)) /\ (du < dv \/ (du = dv /\ u.ms < v.ms))
  BY <1>1 DEF Before
<1>7. dt < dv \/ (dt = dv /\ t.ms < v.ms)
  BY <1>2, <1>5, <1>6
<1> QED BY <1>1, <1>7 DEF Before

(* Dated does not depend on the format of the parts: the names of the same *)
(* times stay what they were.                                              *)
LEMMA DatedKept ==
    ASSUME config' = config, names' = names, NEW times, Dated(times),
           names # <<>> => LastTime(times[Len(times)])'
    PROVE  Dated(times)'
<1>1. Fixed' = Fixed
  BY SameConfig
<1>2. ASSUME NEW i \in 1 .. Len(names) PROVE (names[i] = NameAt(times[i]))'
  <2>1. names[i] = NameAt(times[i])
    BY DEF Dated
  <2>2. PICK t : t = times[i]
    OBVIOUS
  <2>3. Told(t)' = Told(t)
    BY DEF Told, TimeTexts
  <2>4. NameAt(t)' = NameAt(t)
    BY <1>1, <2>3 DEF NameAt
  <2> QED BY <2>1, <2>2, <2>4
<1> QED BY <1>2 DEF Dated

LEMMA NamesKept ==
    ASSUME NamesInv, config' = config, names' = names,
           \A t : LastTime(t) /\ names # <<>> /\ t \in Times => LastTime(t)'
    PROVE  NamesInv'
<1> SUFFICES ASSUME Settled' PROVE names' \in Seq(Seq(Symbols)) /\ \E times : Dated(times)'
  BY DEF NamesInv
<1>1. Settled /\ names \in Seq(Seq(Symbols))
  BY SameConfig DEF NamesInv
<1>2. PICK times : Dated(times)
  BY <1>1 DEF NamesInv
<1>3. names # <<>> => LastTime(times[Len(times)])'
  <2> SUFFICES ASSUME names # <<>> PROVE LastTime(times[Len(times)])'
    OBVIOUS
  <2>1. PICK t : t = times[Len(times)]
    OBVIOUS
  <2>2. LastTime(t) /\ times \in Seq(Times) /\ Len(times) = Len(names)
    BY <1>2, <2>1 DEF Dated
  <2>3. t \in Times
    <3>1. Len(times) \in 1 .. Len(times)
      BY <1>1, <2>2, LenProperties, EmptySeq
    <3> QED BY <2>1, <2>2, <3>1, ElementOfSeq
  <2>4. LastTime(t)'
    BY <2>2, <2>3
  <2> QED BY <2>1, <2>4
<1>4. Dated(times)'
  BY <1>2, <1>3, DatedKept
<1> QED BY <1>1, <1>4

LEMMA NamesAssigned == ASSUME Inputs, MadeInv, NamesInv, Assign PROVE NamesInv'
<1>0. /\ job = "volatile" /\ job' = "idle" /\ names' = Append(names, name) /\ UNCHANGED <<config, now>>
  BY DEF Assign, Loop
<1> SUFFICES ASSUME Settled' PROVE names' \in Seq(Seq(Symbols)) /\ \E times : Dated(times)'
  BY DEF NamesInv
<1>1. Settled /\ Fixed' = Fixed
  BY <1>0, SameConfig
<1>2. names \in Seq(Seq(Symbols)) /\ \E times : Dated(times)
  BY <1>1 DEF NamesInv
<1>3. PICK times : Dated(times)
  BY <1>2
<1>4. PICK n \in Nat : n = Len(names) /\ n = Len(times) /\ times \in Seq(Times)
  BY <1>2, <1>3, LenProperties DEF Dated
<1>5. name = NameAt(now) /\ name \in Seq(Symbols) /\ now \in Times
  <2>1. name = NameAt(now)
    BY <1>0, <1>1 DEF MadeInv
  <2>2. now \in Times
    BY DEF Inputs
  <2> QED BY <1>1, <2>1, <2>2, NameType
<1>6. PICK more : more = Append(times, now)
  OBVIOUS
<1>7. /\ more \in Seq(Times) /\ Len(more) = n + 1 /\ more[n + 1] = now
      /\ \A i \in 1 .. n : more[i] = times[i]
  BY <1>4, <1>5, <1>6, AppendProperties
<1>8. /\ names' \in Seq(Seq(Symbols)) /\ Len(names') = n + 1 /\ names'[n + 1] = name
      /\ \A i \in 1 .. n : names'[i] = names[i]
  <2>1. PICK S : S = Seq(Symbols)
    OBVIOUS
  <2>2. names \in Seq(S) /\ name \in S
    BY <1>2, <1>5, <2>1
  <2>3. PICK s, e, c : s = names /\ e = name /\ c = Append(s, e)
    OBVIOUS
  <2>4. s \in Seq(S) /\ e \in S
    BY <2>2, <2>3
  <2>5. /\ Append(s, e) \in Seq(S) /\ Len(Append(s, e)) = Len(s) + 1 /\ Append(s, e)[Len(s) + 1] = e
        /\ \A i \in 1 .. Len(s) : Append(s, e)[i] = s[i]
    BY <2>4, AppendProperties
  <2> QED BY <1>0, <1>4, <2>1, <2>3, <2>5
<1>9. ASSUME NEW i \in 1 .. (n + 1) PROVE names'[i] = NameAt(more[i])'
  <2>1. PICK t : t = more[i]
    OBVIOUS
  <2>2. Told(t)' = Told(t)
    BY <1>0 DEF Told, TimeTexts
  <2>3. NameAt(t)' = NameAt(t)
    BY <1>1, <2>2 DEF NameAt
  <2>4. names'[i] = NameAt(t)
    <3>1. CASE i = n + 1
      BY <1>5, <1>7, <1>8, <2>1, <3>1
    <3>2. CASE i # n + 1
      <4>1. i \in 1 .. n
        BY <3>2
      <4>2. names[i] = NameAt(times[i])
        BY <1>3, <1>4, <4>1 DEF Dated
      <4> QED BY <1>7, <1>8, <2>1, <4>1, <4>2
    <3> QED BY <3>1, <3>2
  <2> QED BY <2>1, <2>3, <2>4
<1>10. ASSUME NEW i \in 1 .. ((n + 1) - 1) PROVE Before(more[i], more[i + 1])
  <2>1. CASE i = n
    <3>1. names # <<>> /\ Making
      <4>1. Len(<<>>) = 0 /\ n # 0
        BY <2>1
      <4> QED BY <1>0, <1>4, <4>1 DEF Making
    <3>2. Before(times[n], now)
      BY <1>3, <1>4, <3>1 DEF Dated, LastTime
    <3>3. i \in 1 .. n
      OBVIOUS
    <3> QED BY <1>7, <2>1, <3>2, <3>3
  <2>2. CASE i # n
    <3>1. i \in 1 .. (n - 1) /\ i \in 1 .. n /\ i + 1 \in 1 .. n
      BY <2>2
    <3>2. Before(times[i], times[i + 1])
      BY <1>3, <1>4, <3>1 DEF Dated
    <3> QED BY <1>7, <3>1, <3>2
  <2> QED BY <2>1, <2>2
<1>11. LastTime(more[n + 1])'
  BY <1>0, <1>7 DEF LastTime, Making
<1>12. Dated(more)'
  <2>1. more \in Seq(Times) /\ Len(more) = Len(names')
    BY <1>7, <1>8
  <2>2. \A i \in 1 .. Len(names') : names'[i] = NameAt(more[i])'
    BY <1>8, <1>9
  <2>3. \A i \in 1 .. (Len(names') - 1) : Before(more[i], more[i + 1])
    BY <1>8, <1>10
  <2>4. LastTime(more[Len(more)])'
    BY <1>7, <1>11
  <2> QED BY <2>1, <2>2, <2>3, <2>4 DEF Dated
<1> QED BY <1>8, <1>12

LEMMA NamesInvNext == ASSUME Inputs, Inputs', MadeInv, NamesInv, [Next]_vars PROVE NamesInv'
<1>1. CASE Assign
  BY <1>1, NamesAssigned
<1>2. CASE Update_filename
  <2>1. /\ config' = config /\ names' = names /\ job = "idle" /\ job' = "file"
        /\ now' \in Times /\ now \in Times /\ (names = <<>> \/ Before(now, now'))
    BY <1>2 DEF Update_filename, Loop, Inputs
  <2>2. ASSUME NEW t \in Times, LastTime(t), names # <<>> PROVE LastTime(t)'
    <3>1. t = now \/ Before(t, now)
      BY <2>1, <2>2 DEF LastTime, Making
    <3>2. Before(t, now')
      BY <2>1, <2>2, <3>1, BeforeTransitive
    <3> QED BY <2>1, <3>2 DEF LastTime, Making
  <2> QED BY <2>1, <2>2, NamesKept
<1>3. CASE Replace \/ Format_time \/ Get_regex_pattern \/ Escape \/ Throw \/ Format_log_message \/ Formatted \/ UNCHANGED vars
  <2>1. config' = config /\ names' = names /\ now' = now /\ (Making' => Making)
    BY <1>3 DEF Replace, Format_time, Get_regex_pattern, Escape, Throw, Format_log_message, Formatted, Loop, vars, Making
  <2>2. ASSUME NEW t \in Times, LastTime(t), names # <<>> PROVE LastTime(t)'
    BY <2>1, <2>2 DEF LastTime
  <2> QED BY <2>1, <2>2, NamesKept
<1> QED BY <1>1, <1>2, <1>3 DEF Next

LEMMA NamesInvariant == Spec => []NamesInv
<1>1. Init => NamesInv
  <2> SUFFICES ASSUME Init PROVE NamesInv
    OBVIOUS
  <2>1. names = <<>> /\ <<>> \in Seq(Seq(Symbols)) /\ <<>> \in Seq(Times) /\ Len(<<>>) = 0
    BY EmptySeq DEF Init
  <2>2. Dated(<<>>)
    BY <2>1 DEF Dated
  <2> QED BY <2>1, <2>2 DEF NamesInv
<1>2. Inputs /\ Inputs' /\ MadeInv /\ NamesInv /\ [Next]_vars => NamesInv'
  BY NamesInvNext
<1> QED BY <1>1, <1>2, InputsInvariant, MadeInvariant, PTL DEF Spec

-----------------------------------------------------------------------------
(* How names sort.                                                         *)

LEMMA SortsLeft ==
    ASSUME NEW U, NEW p \in Seq(U), NEW q \in Seq(U), NEW b \in Seq(U), NEW c \in Seq(U), SortsBefore(p, q)
    PROVE  SortsBefore(Cat(p, b), Cat(q, c))
<1>1. PICK i \in DOMAIN p \cap DOMAIN q :
          /\ \A j \in 1 .. (i - 1) : p[j] = q[j]
          /\ \E d, e \in DOMAIN Digit : d < e /\ p[i] = Digit[d] /\ q[i] = Digit[e]
  BY DEF SortsBefore
<1>2. PICK x, y : x = Cat(p, b) /\ y = Cat(q, c)
  OBVIOUS
<1>3. Joins(x, p, b) /\ Joins(y, q, c)
  BY <1>2, CatJoins
<1>4. /\ Len(p) \in Nat /\ Len(q) \in Nat /\ Len(b) \in Nat /\ Len(c) \in Nat
      /\ DOMAIN p = 1 .. Len(p) /\ DOMAIN q = 1 .. Len(q)
  BY LenProperties
<1>5. i \in DOMAIN x \cap DOMAIN y /\ x[i] = p[i] /\ y[i] = q[i]
  BY <1>3, <1>4 DEF Joins
<1>6. ASSUME NEW j \in 1 .. (i - 1) PROVE x[j] = y[j]
  <2>1. j \in 1 .. Len(p) /\ j \in 1 .. Len(q)
    BY <1>4
  <2>2. x[j] = p[j] /\ y[j] = q[j]
    BY <1>3, <2>1 DEF Joins
  <2> QED BY <1>1, <2>2
<1> QED BY <1>1, <1>2, <1>5, <1>6 DEF SortsBefore

LEMMA SortsRight ==
    ASSUME NEW U, NEW p \in Seq(U), NEW q \in Seq(U), NEW a \in Seq(U), SortsBefore(p, q)
    PROVE  SortsBefore(Cat(a, p), Cat(a, q))
<1>1. PICK i \in DOMAIN p \cap DOMAIN q :
          /\ \A j \in 1 .. (i - 1) : p[j] = q[j]
          /\ \E d, e \in DOMAIN Digit : d < e /\ p[i] = Digit[d] /\ q[i] = Digit[e]
  BY DEF SortsBefore
<1>2. PICK x, y : x = Cat(a, p) /\ y = Cat(a, q)
  OBVIOUS
<1>3. Joins(x, a, p) /\ Joins(y, a, q)
  BY <1>2, CatJoins
<1>4. PICK n \in Nat : n = Len(a)
  BY LenProperties
<1>5. Len(p) \in Nat /\ Len(q) \in Nat /\ DOMAIN p = 1 .. Len(p) /\ DOMAIN q = 1 .. Len(q)
  BY LenProperties
<1>6. PICK k : k = i + n
  OBVIOUS
<1>7. k \in DOMAIN x \cap DOMAIN y /\ x[k] = p[i] /\ y[k] = q[i]
  <2>1. i \in 1 .. Len(p) /\ i \in 1 .. Len(q)
    BY <1>5
  <2>2. x[i + Len(a)] = p[i] /\ y[i + Len(a)] = q[i]
    BY <1>3, <2>1 DEF Joins
  <2>3. i + n \in 1 .. (n + Len(p)) /\ i + n \in 1 .. (n + Len(q))
    BY <1>4, <1>5, <2>1
  <2>4. DOMAIN x = 1 .. (n + Len(p)) /\ DOMAIN y = 1 .. (n + Len(q))
    BY <1>3, <1>4 DEF Joins
  <2> QED BY <1>4, <1>6, <2>2, <2>3, <2>4
<1>8. ASSUME NEW j \in 1 .. (k - 1) PROVE x[j] = y[j]
  <2>1. CASE j <= n
    <3>1. j \in 1 .. Len(a)
      BY <1>4, <2>1
    <3> QED BY <1>3, <3>1 DEF Joins
  <2>2. CASE j > n
    <3>0. PICK l : l = j - n
      OBVIOUS
    <3>1. l \in 1 .. (i - 1) /\ l \in 1 .. Len(p) /\ l \in 1 .. Len(q) /\ l + n = j
      <4>1. i \in 1 .. Len(p) /\ i \in 1 .. Len(q) /\ j \in 1 .. ((i + n) - 1)
        BY <1>5, <1>6
      <4> QED BY <1>5, <2>2, <3>0, <4>1
    <3>2. x[l + Len(a)] = p[l] /\ y[l + Len(a)] = q[l]
      BY <1>3, <3>1 DEF Joins
    <3> QED BY <1>1, <1>4, <3>1, <3>2
  <2> QED BY <1>4, <2>1, <2>2
<1> QED BY <1>1, <1>2, <1>7, <1>8 DEF SortsBefore

(* The digits of a number, from the first.                                 *)
LEMMA Quotients ==
    ASSUME NEW n \in Nat, NEW m \in Nat, n < m, NEW w \in 1 .. 4, NEW i \in 1 .. w
    PROVE  /\ n \div Place[w + 1 - i] \in Nat /\ m \div Place[w + 1 - i] \in Nat
           /\ n \div Place[w + 1 - i] <= m \div Place[w + 1 - i]
           /\ i > 1 => /\ n \div Place[w + 1 - (i - 1)] = (n \div Place[w + 1 - i]) \div 10
                       /\ m \div Place[w + 1 - (i - 1)] = (m \div Place[w + 1 - i]) \div 10
<1>1. w + 1 - i \in 1 .. 4 /\ (i > 1 => w + 1 - i \in 1 .. 3 /\ w + 1 - (i - 1) = (w + 1 - i) + 1)
  OBVIOUS
<1>2. PICK k : k = w + 1 - i
  OBVIOUS
<1>3. Place[1] = 1 /\ Place[2] = 10 /\ Place[3] = 100 /\ Place[4] = 1000
  BY DEF Place
<1>4. n \div Place[k] \in Nat /\ m \div Place[k] \in Nat /\ n \div Place[k] <= m \div Place[k]
  <2>1. PICK p : p = Place[k] /\ p \in {1, 10, 100, 1000}
    BY <1>1, <1>2, <1>3
  <2> QED BY <2>1, SMT
<1>5. ASSUME i > 1
      PROVE  n \div Place[k + 1] = (n \div Place[k]) \div 10 /\ m \div Place[k + 1] = (m \div Place[k]) \div 10
  <2>1. k \in {1, 2, 3}
    BY <1>1, <1>2, <1>5
  <2>2. PICK p, q : /\ p = Place[k] /\ q = Place[k + 1]
                    /\ (p = 1 /\ q = 10) \/ (p = 10 /\ q = 100) \/ (p = 100 /\ q = 1000)
    BY <1>3, <2>1
  <2>3. n \div q = (n \div p) \div 10
    BY <2>2, SMT
  <2>4. m \div q = (m \div p) \div 10
    BY <2>2, SMT
  <2> QED BY <2>2, <2>3, <2>4
<1> QED BY <1>1, <1>2, <1>4, <1>5

LEMMA DigitSorts ==
    ASSUME NEW n \in Nat, NEW m \in Nat, n % 10 < m % 10
    PROVE  \E d, e \in DOMAIN Digit : d < e /\ LastDigit(n) = Digit[d] /\ LastDigit(m) = Digit[e]
<1>1. DOMAIN Digit = 1 .. 10
  BY DEF Digit
<1>2. PICK d, e : d = (n % 10) + 1 /\ e = (m % 10) + 1
  OBVIOUS
<1>3. d \in 1 .. 10 /\ e \in 1 .. 10 /\ d < e
  BY <1>2
<1> QED BY <1>1, <1>2, <1>3 DEF LastDigit

LEMMA PaddedSorts ==
    ASSUME NEW n \in Nat, NEW m \in Nat, n < m, NEW w \in 1 .. 4, m \div Place[w] \in 0 .. 9
    PROVE  SortsBefore(Padded(n, w), Padded(m, w))
<1> DEFINE Q(k, i) == k \div Place[w + 1 - i]
           differ == {i \in 1 .. w : Q(n, i) # Q(m, i)}
<1>1. PICK i \in differ : \A j \in differ : i <= j
  <2>1. w \in differ
    <3>1. w + 1 - w = 1 /\ Place[1] = 1 /\ w \in 1 .. w
      BY DEF Place
    <3>2. n \div 1 = n /\ m \div 1 = m
      OBVIOUS
    <3>3. Q(n, w) = n /\ Q(m, w) = m
      BY <3>1, <3>2
    <3> QED BY <3>1, <3>3
  <2>2. differ \in SUBSET Nat
    OBVIOUS
  <2> HIDE DEF differ
  <2> QED BY <2>1, <2>2, LeastExists
<1>2. i \in 1 .. w /\ Q(n, i) # Q(m, i)
  OBVIOUS
<1>3. \A j \in 1 .. (i - 1) : j \in 1 .. w /\ Q(n, j) = Q(m, j)
  <2> TAKE j \in 1 .. (i - 1)
  <2>1. j \in 1 .. w /\ ~(i <= j)
    BY <1>2
  <2>2. j \notin differ
    BY <1>1, <2>1
  <2> QED BY <2>1, <2>2
<1>4. PICK a, b : a = Q(n, i) /\ b = Q(m, i)
  OBVIOUS
<1>5. a \in Nat /\ b \in Nat /\ a < b
  <2>1. Q(n, i) \in Nat /\ Q(m, i) \in Nat /\ Q(n, i) <= Q(m, i)
    BY <1>2, Quotients
  <2> HIDE DEF Q, differ
  <2> QED BY <1>2, <1>4, <2>1
<1>6. a \div 10 = b \div 10
  <2>1. CASE i = 1
    <3>1. w + 1 - i = w
      BY <2>1
    <3>2. b \in 0 .. 9
      BY <1>4, <3>1
    <3> HIDE DEF Q, differ
    <3> QED BY <1>5, <3>2
  <2>2. CASE i # 1
    <3>1. i > 1 /\ i - 1 \in 1 .. (i - 1)
      BY <1>2, <2>2
    <3>2. Q(n, i - 1) = Q(n, i) \div 10 /\ Q(m, i - 1) = Q(m, i) \div 10
      BY <1>2, <3>1, Quotients
    <3>3. Q(n, i - 1) = Q(m, i - 1)
      BY <1>3, <3>1
    <3> HIDE DEF Q, differ
    <3> QED BY <1>4, <3>2, <3>3
  <2> QED BY <2>1, <2>2
<1>7. a % 10 < b % 10
  <2> HIDE DEF Q, differ
  <2> QED BY <1>5, <1>6, SMT
<1>8. \E d, e \in DOMAIN Digit : d < e /\ LastDigit(a) = Digit[d] /\ LastDigit(b) = Digit[e]
  <2> HIDE DEF Q, differ
  <2> QED BY <1>5, <1>7, DigitSorts
<1>9. PICK s, t : s = Padded(n, w) /\ t = Padded(m, w)
  OBVIOUS
<1>10. /\ DOMAIN s = 1 .. w /\ DOMAIN t = 1 .. w
       /\ \A j \in 1 .. w : s[j] = LastDigit(Q(n, j)) /\ t[j] = LastDigit(Q(m, j))
  BY <1>9 DEF Padded
<1> HIDE DEF Q, differ
<1>11. s[i] = LastDigit(a) /\ t[i] = LastDigit(b)
  BY <1>2, <1>4, <1>10
<1>12. \A j \in 1 .. (i - 1) : s[j] = t[j]
  BY <1>3, <1>10
<1> QED BY <1>2, <1>8, <1>9, <1>10, <1>11, <1>12 DEF SortsBefore

(* The texts of a time: its numbers with zeros in front, and signs.        *)
LEMMA DateText ==
    ASSUME NEW t
    PROVE  TimeTexts(t)["%%date"]
               = Cat(Cat(Cat(Cat(Padded(t.year, 4), <<"-">>), Padded(t.month, 2)), <<"-">>), Padded(t.day, 2))
<1>1. "%%date" \in TimeTokens
  BY DEF TimeTokens
<1> QED BY <1>1, SMT DEF TimeTexts, Cat

LEMMA ClockTexts ==
    ASSUME NEW t
    PROVE  /\ TimeTexts(t)["%%hour"] = Padded(t.ms \div Hour, 2)
           /\ TimeTexts(t)["%%min"] = Padded((t.ms \div Minute) % 60, 2)
           /\ TimeTexts(t)["%%sec"] = Padded((t.ms \div 1000) % 60, 2)
           /\ TimeTexts(t)["%%ms"] = Padded(t.ms % 1000, 3)
<1>1. /\ "%%hour" \in TimeTokens /\ "%%min" \in TimeTokens /\ "%%sec" \in TimeTokens /\ "%%ms" \in TimeTokens
  BY DEF TimeTokens
<1>2. TimeTexts(t)["%%hour"] = Padded(t.ms \div Hour, 2)
  BY <1>1, SMT DEF TimeTexts
<1>3. TimeTexts(t)["%%min"] = Padded((t.ms \div Minute) % 60, 2)
  BY <1>1, SMT DEF TimeTexts
<1>4. TimeTexts(t)["%%sec"] = Padded((t.ms \div 1000) % 60, 2)
  BY <1>1, SMT DEF TimeTexts
<1>5. TimeTexts(t)["%%ms"] = Padded(t.ms % 1000, 3)
  BY <1>1, SMT DEF TimeTexts
<1> QED BY <1>2, <1>3, <1>4, <1>5

(* Two days, as two dates in figures.                                      *)
DateOf(y, mo, d) == Cat(Cat(Cat(Cat(Padded(y, 4), <<"-">>), Padded(mo, 2)), <<"-">>), Padded(d, 2))

LEMMA DateSorts ==
    ASSUME NEW y \in Years, NEW mo \in 1 .. 12, NEW d \in 1 .. 31,
           NEW z \in Years, NEW no \in 1 .. 12, NEW e \in 1 .. 31,
           (y * 12 + mo) * 31 + d < (z * 12 + no) * 31 + e
    PROVE  SortsBefore(DateOf(y, mo, d), DateOf(z, no, e))
<1>1. y \in Nat /\ z \in Nat
  BY SMT DEF Years
<1>2. Place[4] = 1000 /\ Place[2] = 10 /\ 4 \in 1 .. 4 /\ 2 \in 1 .. 4
  BY DEF Place
<1>3. z \div Place[4] \in 0 .. 9
  BY <1>2, SMT DEF Years
<1>4. no \div Place[2] \in 0 .. 9 /\ e \div Place[2] \in 0 .. 9
  BY <1>2, SMT
<1>5. <<"-">> \in Seq(Glyphs)
  BY DEF Glyphs
<1>6. PICK p, q, r, s, u, v, c : /\ p = Padded(y, 4) /\ q = Padded(z, 4) /\ r = Padded(mo, 2) /\ s = Padded(no, 2)
                                 /\ u = Padded(d, 2) /\ v = Padded(e, 2) /\ c = <<"-">>
  OBVIOUS
<1>7. /\ p \in Seq(Glyphs) /\ q \in Seq(Glyphs) /\ r \in Seq(Glyphs) /\ s \in Seq(Glyphs) /\ u \in Seq(Glyphs)
      /\ v \in Seq(Glyphs) /\ c \in Seq(Glyphs)
  <2>1. mo \in Nat /\ no \in Nat /\ d \in Nat /\ e \in Nat
    OBVIOUS
  <2> QED BY <1>1, <1>2, <1>5, <1>6, <2>1, FieldType
<1>8. PICK pc, qc : pc = Cat(p, c) /\ qc = Cat(q, c) /\ pc \in Seq(Glyphs) /\ qc \in Seq(Glyphs)
  BY <1>7, CatType
<1>9. PICK pr, qs : pr = Cat(pc, r) /\ qs = Cat(qc, s) /\ pr \in Seq(Glyphs) /\ qs \in Seq(Glyphs)
  BY <1>7, <1>8, CatType
<1>10. PICK prc, qsc : prc = Cat(pr, c) /\ qsc = Cat(qs, c) /\ prc \in Seq(Glyphs) /\ qsc \in Seq(Glyphs)
  BY <1>7, <1>9, CatType
<1>11. DateOf(y, mo, d) = Cat(prc, u) /\ DateOf(z, no, e) = Cat(qsc, v)
  BY <1>6, <1>8, <1>9, <1>10 DEF DateOf
<1>12. CASE y < z
  <2>1. SortsBefore(p, q)
    BY <1>1, <1>2, <1>3, <1>6, <1>12, PaddedSorts
  <2>2. SortsBefore(pc, qc)
    BY <1>7, <1>8, <2>1, SortsLeft
  <2>3. SortsBefore(pr, qs)
    BY <1>7, <1>8, <1>9, <2>2, SortsLeft
  <2>4. SortsBefore(prc, qsc)
    BY <1>7, <1>9, <1>10, <2>3, SortsLeft
  <2> QED BY <1>7, <1>10, <1>11, <2>4, SortsLeft
<1>13. CASE y = z /\ mo < no
  <2>1. SortsBefore(r, s)
    <3>1. mo \in Nat /\ no \in Nat
      OBVIOUS
    <3> QED BY <1>2, <1>4, <1>6, <1>13, <3>1, PaddedSorts
  <2>2. SortsBefore(pr, qs)
    <3>1. pc = qc
      BY <1>6, <1>8, <1>13
    <3> QED BY <1>7, <1>8, <1>9, <2>1, <3>1, SortsRight
  <2>3. SortsBefore(prc, qsc)
    BY <1>7, <1>9, <1>10, <2>2, SortsLeft
  <2> QED BY <1>7, <1>10, <1>11, <2>3, SortsLeft
<1>14. CASE y = z /\ mo = no /\ d < e
  <2>1. SortsBefore(u, v)
    <3>1. d \in Nat /\ e \in Nat
      OBVIOUS
    <3> QED BY <1>2, <1>4, <1>6, <1>14, <3>1, PaddedSorts
  <2>2. prc = qsc
    BY <1>6, <1>8, <1>9, <1>10, <1>14
  <2> QED BY <1>7, <1>10, <1>11, <2>1, <2>2, SortsRight
<1>15. y < z \/ (y = z /\ mo < no) \/ (y = z /\ mo = no /\ d < e)
  BY <1>1, SMT
<1> QED BY <1>12, <1>13, <1>14, <1>15

(* The same for two times of a day.                                        *)
LEMMA FieldSorts ==
    ASSUME NEW n \in Nat, NEW m \in Nat, n < m, NEW w \in {2, 3}, m < 100 \/ (w = 3 /\ m < 1000)
    PROVE  SortsBefore(Padded(n, w), Padded(m, w))
<1>1. Place[2] = 10 /\ Place[3] = 100 /\ w \in 1 .. 4
  BY DEF Place
<1>2. m \div Place[w] \in 0 .. 9
  <2>1. CASE w = 2
    BY <1>1, <2>1, SMT
  <2>2. CASE w = 3
    BY <1>1, <2>2, SMT
  <2> QED BY <2>1, <2>2
<1> QED BY <1>1, <1>2, PaddedSorts

LEMMA ClockDiffers ==
    ASSUME NEW x \in 0 .. Day - 1, NEW z \in 0 .. Day - 1, x < z
    PROVE  \/ x \div Hour < z \div Hour
           \/ x \div Hour = z \div Hour /\ (x \div Minute) % 60 < (z \div Minute) % 60
           \/ x \div Hour = z \div Hour /\ (x \div Minute) % 60 = (z \div Minute) % 60
              /\ (x \div 1000) % 60 < (z \div 1000) % 60
           \/ x \div Hour = z \div Hour /\ (x \div Minute) % 60 = (z \div Minute) % 60
              /\ (x \div 1000) % 60 = (z \div 1000) % 60 /\ x % 1000 < z % 1000
<1>1. x \in Nat /\ z \in Nat
  BY SMT
<1>2. PICK a, b, c, k, f, g : /\ a = x \div 1000 /\ b = z \div 1000 /\ c = a \div 60 /\ k = b \div 60
                              /\ f = c \div 60 /\ g = k \div 60
  OBVIOUS
<1>3. a \in Nat /\ b \in Nat /\ (a < b \/ (a = b /\ x % 1000 < z % 1000))
  BY <1>1, <1>2, SMT
<1>4. c \in Nat /\ k \in Nat /\ (a < b => c < k \/ (c = k /\ a % 60 < b % 60))
  BY <1>2, <1>3, SMT
<1>5. f \in Nat /\ g \in Nat /\ (c < k => f < g \/ (f = g /\ c % 60 < k % 60))
  BY <1>2, <1>4, SMT
<1>6. x \div Minute = c /\ z \div Minute = k
  BY <1>1, <1>2, SMT DEF Minute
<1>7. x \div Hour = f /\ z \div Hour = g
  BY <1>1, <1>2, SMT DEF Hour, Minute
<1> QED BY <1>2, <1>3, <1>4, <1>5, <1>6, <1>7, SMT

(* The fields of a later time are the same up to one that sorts behind.    *)
Advances(s, r) ==
    \E d \in 1 .. 5 : /\ \A e \in 1 .. (d - 1) : s[Fields[e]] = r[Fields[e]]
                      /\ SortsBefore(s[Fields[d]], r[Fields[d]])

LEMMA FieldsAre ==
    /\ Fields[1] = "%%date" /\ Fields[2] = "%%hour" /\ Fields[3] = "%%min" /\ Fields[4] = "%%sec" /\ Fields[5] = "%%ms"
    /\ DOMAIN Fields = 1 .. 5 /\ Range(Fields) = {"%%date", "%%hour", "%%min", "%%sec", "%%ms"}
BY DEF Fields, Range

LEMMA TimesAdvance ==
    ASSUME NEW t \in Times, NEW u \in Times, Before(t, u)
    PROVE  Advances(TimeTexts(t), TimeTexts(u))
<1>1. PICK y, mo, d, x : y = t.year /\ mo = t.month /\ d = t.day /\ x = t.ms
  OBVIOUS
<1>2. PICK z, no, e, w : z = u.year /\ no = u.month /\ e = u.day /\ w = u.ms
  OBVIOUS
<1>3. y \in Years /\ mo \in 1 .. 12 /\ d \in 1 .. 31 /\ x \in 0 .. Day - 1
  BY <1>1, TimesAssumption
<1>4. z \in Years /\ no \in 1 .. 12 /\ e \in 1 .. 31 /\ w \in 0 .. Day - 1
  BY <1>2, TimesAssumption
<1>5. PICK s, r : s = TimeTexts(t) /\ r = TimeTexts(u)
  OBVIOUS
<1>6. s["%%date"] = DateOf(y, mo, d) /\ r["%%date"] = DateOf(z, no, e)
  <2>1. s["%%date"] = DateOf(y, mo, d)
    BY <1>1, <1>5, DateText DEF DateOf
  <2>2. r["%%date"] = DateOf(z, no, e)
    BY <1>2, <1>5, DateText DEF DateOf
  <2> QED BY <2>1, <2>2
<1>7. PICK h, mi, sc, ms : h = x \div Hour /\ mi = (x \div Minute) % 60 /\ sc = (x \div 1000) % 60 /\ ms = x % 1000
  OBVIOUS
<1>8. PICK k, ni, tc, ns : k = w \div Hour /\ ni = (w \div Minute) % 60 /\ tc = (w \div 1000) % 60 /\ ns = w % 1000
  OBVIOUS
<1>9. /\ s["%%hour"] = Padded(h, 2) /\ s["%%min"] = Padded(mi, 2) /\ s["%%sec"] = Padded(sc, 2) /\ s["%%ms"] = Padded(ms, 3)
      /\ r["%%hour"] = Padded(k, 2) /\ r["%%min"] = Padded(ni, 2) /\ r["%%sec"] = Padded(tc, 2) /\ r["%%ms"] = Padded(ns, 3)
  BY <1>1, <1>2, <1>5, <1>7, <1>8, ClockTexts
<1>10. /\ h \in Nat /\ mi \in Nat /\ sc \in Nat /\ ms \in Nat /\ k \in Nat /\ ni \in Nat /\ tc \in Nat /\ ns \in Nat
       /\ k < 100 /\ ni < 100 /\ tc < 100 /\ ns < 1000
  <2>1. x \in Nat /\ w \in Nat /\ w <= Day - 1
    BY <1>3, <1>4, SMT
  <2>2. h \in Nat /\ mi \in Nat /\ sc \in Nat /\ ms \in Nat
    BY <1>7, <2>1, SMT DEF Hour, Minute
  <2>3. k \in Nat /\ ni \in Nat /\ tc \in Nat /\ ns \in Nat /\ ni < 100 /\ tc < 100 /\ ns < 1000
    BY <1>8, <2>1, SMT DEF Hour, Minute
  <2>4. k < 100
    BY <1>8, <2>1, SMT DEF Day, Hour, Minute
  <2> QED BY <2>2, <2>3, <2>4
<1>11. CASE (y * 12 + mo) * 31 + d < (z * 12 + no) * 31 + e
  <2>1. SortsBefore(s["%%date"], r["%%date"])
    BY <1>3, <1>4, <1>6, <1>11, DateSorts
  <2>2. 1 \in 1 .. 5 /\ \A i \in 1 .. (1 - 1) : s[Fields[i]] = r[Fields[i]]
    OBVIOUS
  <2> QED BY <1>5, <2>1, <2>2, FieldsAre DEF Advances
<1>12. CASE (y * 12 + mo) * 31 + d = (z * 12 + no) * 31 + e /\ x < w
  <2>1. y = z /\ mo = no /\ d = e
    <3>1. y \in Nat /\ z \in Nat
      BY <1>3, <1>4, SMT DEF Years
    <3> QED BY <1>3, <1>4, <1>12, <3>1, SMT
  <2>2. s["%%date"] = r["%%date"]
    BY <1>6, <2>1
  <2>3. \/ h < k
        \/ h = k /\ mi < ni
        \/ h = k /\ mi = ni /\ sc < tc
        \/ h = k /\ mi = ni /\ sc = tc /\ ms < ns
    BY <1>3, <1>4, <1>7, <1>8, <1>12, ClockDiffers
  <2>4. CASE h < k
    <3>1. SortsBefore(s["%%hour"], r["%%hour"])
      BY <1>9, <1>10, <2>4, FieldSorts
    <3>2. \A i \in 1 .. (2 - 1) : s[Fields[i]] = r[Fields[i]]
      BY <2>2, FieldsAre
    <3> QED BY <1>5, <3>1, <3>2, FieldsAre DEF Advances
  <2>5. CASE h = k /\ mi < ni
    <3>1. SortsBefore(s["%%min"], r["%%min"])
      BY <1>9, <1>10, <2>5, FieldSorts
    <3>2. \A i \in 1 .. (3 - 1) : s[Fields[i]] = r[Fields[i]]
      <4>1. s["%%hour"] = r["%%hour"]
        BY <1>9, <2>5
      <4> QED BY <2>2, <4>1, FieldsAre
    <3> QED BY <1>5, <3>1, <3>2, FieldsAre DEF Advances
  <2>6. CASE h = k /\ mi = ni /\ sc < tc
    <3>1. SortsBefore(s["%%sec"], r["%%sec"])
      BY <1>9, <1>10, <2>6, FieldSorts
    <3>2. \A i \in 1 .. (4 - 1) : s[Fields[i]] = r[Fields[i]]
      <4>1. s["%%hour"] = r["%%hour"] /\ s["%%min"] = r["%%min"]
        BY <1>9, <2>6
      <4> QED BY <2>2, <4>1, FieldsAre
    <3> QED BY <1>5, <3>1, <3>2, FieldsAre DEF Advances
  <2>7. CASE h = k /\ mi = ni /\ sc = tc /\ ms < ns
    <3>1. SortsBefore(s["%%ms"], r["%%ms"])
      BY <1>9, <1>10, <2>7, FieldSorts
    <3>2. \A i \in 1 .. (5 - 1) : s[Fields[i]] = r[Fields[i]]
      <4>1. s["%%hour"] = r["%%hour"] /\ s["%%min"] = r["%%min"] /\ s["%%sec"] = r["%%sec"]
        BY <1>9, <2>7
      <4> QED BY <2>2, <4>1, FieldsAre
    <3> QED BY <1>5, <3>1, <3>2, FieldsAre DEF Advances
  <2> QED BY <2>3, <2>4, <2>5, <2>6, <2>7
<1>13. \/ (y * 12 + mo) * 31 + d < (z * 12 + no) * 31 + e
       \/ (y * 12 + mo) * 31 + d = (z * 12 + no) * 31 + e /\ x < w
  BY <1>1, <1>2 DEF Before
<1> QED BY <1>11, <1>12, <1>13

-----------------------------------------------------------------------------
(* A later name of the same target sorts behind.                           *)

NoTime == \A k \in FixedTokens : Range(config[k]) \cap TimeTokens = {}

(* If the configured texts have no token, the name is the format with the  *)
(* first of each token replaced at once.                                   *)
LEMMA NameAtOnce ==
    ASSUME Inputs, Settled, NoTime, NEW t \in Times
    PROVE  NameAt(t) = Rendered(config["format"], NameTokens, Told(t))
<1>1. PICK K : K = <<"%%pid", "%%procname", "%%datatime", "%%date", "%%year", "%%yr", "%%month", "%%monstr", "%%day",
                     "%%time", "%%hour", "%%min", "%%sec", "%%ms">>
  OBVIOUS
<1>2. Len(K) = 14 /\ DOMAIN K = 1 .. 14
  BY <1>1
<1>3. Range(K) = ProcessTokens \cup TimeTokens
  BY <1>1 DEF Range, ProcessTokens, TimeTokens
<1>4. K \in Seq(Symbols)
  <2>1. \A i \in 1 .. 14 : K[i] \in Symbols
    BY <1>2, <1>3, TokensApart DEF Range, NameTokens
  <2>2. K = [i \in 1 .. 14 |-> K[i]]
    BY <1>1, <1>2
  <2>3. K \in [1 .. 14 -> Symbols]
    BY <2>1, <2>2
  <2> QED BY <2>3, SeqDef
<1>5. PICK format, value : format = config["format"] /\ value = Told(t) /\ format \in Seq(Symbols)
  BY FixedTyped
<1>6. Without(value, FixedTokens \cup Range(K), Range(K), Symbols)
  <2>1. \A k \in NameTokens : value[k] \in Seq(Symbols)
    BY <1>5, ToldTyped
  <2>2. \A k \in FixedTokens : Range(value[k]) \cap (ProcessTokens \cup TimeTokens) = {}
    BY <1>5, ToldTyped DEF Settled, NoTime
  <2>3. \A k \in ProcessTokens \cup TimeTokens : Range(value[k]) \cap (ProcessTokens \cup TimeTokens) = {}
    BY <1>5, ToldSettled DEF NameTokens
  <2> QED BY <1>3, <2>1, <2>2, <2>3 DEF Without, NameTokens
<1>7. FixedTokens \cap Range(K) = {}
  BY <1>3, TokensApart
<1>8. Rendered(Rendered(format, FixedTokens, value), Range(K), value) = Rendered(format, FixedTokens \cup Range(K), value)
  BY <1>4, <1>5, <1>6, <1>7, RenderedTwice
<1>9. FixedTokens \cup Range(K) = NameTokens
  BY <1>3 DEF NameTokens
<1> QED BY <1>3, <1>5, <1>8, <1>9, FixedAsTold DEF NameAt

LEMMA NameAdvances ==
    ASSUME Inputs, Settled, NoTime, Chronological(config["format"]),
           NEW t \in Times, NEW u \in Times, Before(t, u)
    PROVE  SortsBefore(NameAt(t), NameAt(u))
<1>1. PICK d \in 1 .. 5 : /\ \A e \in 1 .. (d - 1) : TimeTexts(t)[Fields[e]] = TimeTexts(u)[Fields[e]]
                          /\ SortsBefore(TimeTexts(t)[Fields[d]], TimeTexts(u)[Fields[d]])
  BY TimesAdvance DEF Advances
<1>2. PICK format, embed : format = config["format"] /\ embed = Itself(Symbols) /\ format \in Seq(Symbols)
  BY FixedTyped
<1>3. PICK n \in Nat : n = Len(format) /\ DOMAIN format = 1 .. n
  BY <1>2, LenProperties
<1>4. PICK P, Q : P = Parts(format, NameTokens, Told(t), embed) /\ Q = Parts(format, NameTokens, Told(u), embed)
  OBVIOUS
<1>5. NameAt(t) = FlattenSeq(P) /\ NameAt(u) = FlattenSeq(Q)
  <2>1. NameAt(t) = Rendered(format, NameTokens, Told(t)) /\ NameAt(u) = Rendered(format, NameTokens, Told(u))
    BY <1>2, NameAtOnce
  <2> QED BY <1>2, <1>4, <2>1, RenderedParts
<1>6. P \in Seq(Seq(Symbols)) /\ Len(P) = n /\ Q \in Seq(Seq(Symbols)) /\ Len(Q) = n
  <2>1. embed \in [Symbols -> Symbols]
    BY <1>2 DEF Itself
  <2>2. Valued(Told(t), NameTokens, format, Symbols) /\ Valued(Told(u), NameTokens, format, Symbols)
    BY ToldTyped DEF Valued
  <2>3. PartsOf(P, format, Symbols)
    BY <1>2, <1>4, <2>1, <2>2, PartsType
  <2>4. PartsOf(Q, format, Symbols)
    BY <1>2, <1>4, <2>1, <2>2, PartsType
  <2> QED BY <1>3, <2>3, <2>4 DEF PartsOf
<1>7. PICK k : k = Fields[d] /\ k \in TimeTokens /\ k \in Range(format)
  <2>1. Fields[d] \in Range(Fields)
    BY FieldsAre DEF Range
  <2> QED BY <1>2, <2>1 DEF Chronological
<1> DEFINE places == {i \in DOMAIN format : format[i] = k}
<1>8. PICK i \in places : \A j \in places : i <= j
  <2>1. places \in SUBSET Nat /\ places # {}
    BY <1>3, <1>7 DEF Range
  <2> HIDE DEF places
  <2> QED BY <2>1, LeastExists
<1>9. i \in 1 .. n /\ format[i] = k /\ FirstIn(format, i)
  <2>1. i \in 1 .. n /\ format[i] = k
    BY <1>3
  <2>2. \A j \in 1 .. (i - 1) : format[j] # format[i]
    BY <1>3, <1>8, <2>1
  <2> QED BY <2>1, <2>2 DEF FirstIn
<1>10. ASSUME NEW j \in 1 .. (i - 1) PROVE P[j] = Q[j]
  <2>0. j \in 1 .. n /\ j \in DOMAIN format /\ i \in DOMAIN format /\ j < i
    BY <1>3, <1>9
  <2>1. CASE format[j] \in FixedTokens \cup ProcessTokens
    <3>1. Told(t)[format[j]] = Told(u)[format[j]]
      BY <2>1, ToldTyped
    <3> QED BY <1>4, <2>0, <3>1 DEF Parts
  <2>2. CASE format[j] \in TimeTokens
    <3>1. format[j] \in Range(Fields)
      BY <1>2, <2>0, <2>2 DEF Chronological, Range
    <3>2. PICK e \in 1 .. 5 : Fields[e] = format[j]
      BY <3>1, FieldsAre DEF Range
    <3>3. e < d
      BY <1>2, <1>7, <1>9, <2>0, <3>2, FieldsAre DEF Chronological
    <3>4. TimeTexts(t)[format[j]] = TimeTexts(u)[format[j]]
      BY <1>1, <3>2, <3>3
    <3>5. Told(t)[format[j]] = Told(u)[format[j]]
      BY <2>2, <3>4, ToldTyped
    <3> QED BY <1>4, <2>0, <3>5 DEF Parts
  <2>3. CASE format[j] \notin NameTokens
    BY <1>4, <2>0, <2>3 DEF Parts
  <2> QED BY <2>1, <2>2, <2>3 DEF NameTokens
<1>11. Agree(P, Q, i - 1)
  BY <1>6, <1>9, <1>10 DEF Agree
<1>12. PICK a \in Seq(Symbols), b \in Seq(Symbols), c \in Seq(Symbols) : Aligned(P, Q, i, a, b, c)
  BY <1>6, <1>9, <1>11, FlattenTwo
<1>13. PICK p, q : p = P[i] /\ q = Q[i] /\ p \in Seq(Symbols) /\ q \in Seq(Symbols)
  <2>1. P[i] \in Seq(Symbols) /\ Q[i] \in Seq(Symbols)
    BY <1>6, <1>9, ElementOfSeq
  <2> QED BY <2>1
<1>14. SortsBefore(p, q)
  <2>1. k \in NameTokens /\ i \in DOMAIN format
    BY <1>3, <1>7, <1>9 DEF NameTokens
  <2>2. p = Told(t)[k] /\ q = Told(u)[k]
    BY <1>4, <1>9, <1>13, <2>1 DEF Parts
  <2> QED BY <1>1, <1>7, <2>2, ToldTyped
<1>15. SortsBefore(Cat(a, Cat(p, b)), Cat(a, Cat(q, c)))
  <2>1. Cat(p, b) \in Seq(Symbols) /\ Cat(q, c) \in Seq(Symbols)
    BY <1>13, CatType
  <2>2. SortsBefore(Cat(p, b), Cat(q, c))
    BY <1>13, <1>14, SortsLeft
  <2> QED BY <2>1, <2>2, SortsRight
<1> QED BY <1>5, <1>12, <1>13, <1>15 DEF Aligned

(* A rotation, and be it a millisecond later, is to another file, which    *)
(* comes later in the directory, if the format has date and time in order  *)
(* (FileTarget::Update_filename).                                          *)
THEOREM LaterSortsBehind == Spec => []NamesAdvance
<1>1. Inputs /\ NamesInv => NamesAdvance
  <2> SUFFICES ASSUME Inputs, NamesInv, Settled, NoTime, Chronological(config["format"]),
                      NEW i \in 1 .. (Len(names) - 1)
               PROVE  SortsBefore(names[i], names[i + 1])
    BY DEF NamesAdvance, NoTime
  <2>1. PICK times : Dated(times)
    BY DEF NamesInv
  <2>2. Len(names) \in Nat /\ Len(times) = Len(names) /\ times \in Seq(Times)
    BY <2>1, LenProperties DEF NamesInv, Dated
  <2>3. i \in 1 .. Len(names) /\ i + 1 \in 1 .. Len(names)
    BY <2>2
  <2>4. PICK t, u : t = times[i] /\ u = times[i + 1] /\ t \in Times /\ u \in Times
    <3>1. times[i] \in Times /\ times[i + 1] \in Times
      BY <2>2, <2>3, ElementOfSeq
    <3> QED BY <3>1
  <2>5. names[i] = NameAt(t) /\ names[i + 1] = NameAt(u) /\ Before(t, u)
    BY <2>1, <2>3, <2>4 DEF Dated
  <2> QED BY <2>4, <2>5, NameAdvances
<1> QED BY <1>1, InputsInvariant, NamesInvariant, PTL

-----------------------------------------------------------------------------
(* What regex_match does.                                                  *)

(* An item takes w symbols behind the first b.                             *)
EndsOf(ends, items, name0) ==
    /\ ends[0] = {0}
    /\ \A n \in 1 .. Len(items) : ends[n] = Further(items[n], name0, ends[n - 1])
    /\ Matches(items, name0) <=> Len(name0) \in ends[Len(items)]

LEMMA EndsExist == ASSUME NEW items, Len(items) \in Nat, NEW name0 PROVE \E ends : EndsOf(ends, items, name0)
<1> DEFINE Steps(f, n) == f = [m \in 0 .. n |-> IF m = 0 THEN {0} ELSE Further(items[m], name0, f[m - 1])]
           defined == {n \in Nat : \E f : Steps(f, n)}
           len == Len(items)
<1>1. 0 \in defined
  <2>1. Steps([m \in 0 .. 0 |-> {0}], 0)
    <3>1. \A m \in 0 .. 0 : m = 0
      OBVIOUS
    <3> QED BY <3>1
  <2> QED BY <2>1
<1>2. ASSUME NEW n \in defined PROVE n + 1 \in defined
  <2>1. PICK f : Steps(f, n)
    OBVIOUS
  <2> DEFINE g == [m \in 0 .. (n + 1) |-> IF m = n + 1 THEN Further(items[m], name0, f[n]) ELSE f[m]]
  <2>2. n \in Nat
    OBVIOUS
  <2>3. ASSUME NEW m \in 0 .. (n + 1)
        PROVE  g[m] = IF m = 0 THEN {0} ELSE Further(items[m], name0, g[m - 1])
    <3>1. CASE m = n + 1
      <4>1. m # 0 /\ m - 1 = n /\ n \in 0 .. (n + 1) /\ n # n + 1
        BY <2>2, <3>1
      <4>2. g[n] = f[n]
        BY <4>1
      <4> QED BY <3>1, <4>1, <4>2
    <3>2. CASE m # n + 1
      <4>1. m \in 0 .. n /\ m - 1 # n + 1 /\ (m # 0 => m - 1 \in 0 .. (n + 1))
        BY <2>2, <3>2
      <4>2. f[m] = IF m = 0 THEN {0} ELSE Further(items[m], name0, f[m - 1])
        BY <2>1, <4>1
      <4>3. g[m] = f[m] /\ (m # 0 => g[m - 1] = f[m - 1])
        BY <3>2, <4>1
      <4> QED BY <4>2, <4>3
    <3> QED BY <3>1, <3>2
  <2>4. g = [m \in 0 .. (n + 1) |-> g[m]] /\ n + 1 \in Nat
    BY <2>2
  <2>5. Steps(g, n + 1)
    <3> HIDE DEF g
    <3> QED BY <2>3, <2>4
  <2> HIDE DEF g, Steps
  <2> QED BY <2>4, <2>5, Zenon
<1>3. len \in defined
  <2>1. defined \in SUBSET Nat /\ len \in 0 .. len
    <3> HIDE DEF Steps
    <3> QED OBVIOUS
  <2> HIDE DEF defined
  <2> QED BY <1>1, <1>2, <2>1, InductionUpTo
<1> DEFINE ends == CHOOSE f : Steps(f, len)
<1>4. ends = [m \in 0 .. len |-> IF m = 0 THEN {0} ELSE Further(items[m], name0, ends[m - 1])]
  <2>1. Steps(ends, len)
    BY <1>3
  <2> HIDE DEF ends
  <2> QED BY <2>1
<1>5. Matches(items, name0) <=> Len(name0) \in ends[len]
  BY Zenon DEF Matches
<1> HIDE DEF ends
<1>6. ends[0] = {0}
  BY <1>4
<1>7. ASSUME NEW n \in 1 .. len PROVE ends[n] = Further(items[n], name0, ends[n - 1])
  <2>1. n \in 0 .. len /\ n # 0
    OBVIOUS
  <2> QED BY <1>4, <2>1
<1> QED BY <1>5, <1>6, <1>7 DEF EndsOf

(* Items that stand for something: signs have no widths.                   *)
Items == [of : SUBSET Symbols, widths : (SUBSET Nat) \ {{}}]

(* The item takes what is between two places.                              *)
Stretch(item, p, a, b) == \E w \in item.widths : b = a + w /\ \A k \in (a + 1) .. b : p[k] \in item.of

(* The places where a text is cut, for each item to take a stretch of it.  *)
Cuts(c, q, p) ==
    /\ c[0] = 0 /\ c[Len(q)] = Len(p)
    /\ \A n \in 0 .. Len(q) : c[n] \in 0 .. Len(p)
    /\ \A n \in 1 .. Len(q) : Stretch(q[n], p, c[n - 1], c[n])

Fits(q, p) == q \in Seq(Items) /\ p \in Seq(Symbols) /\ \E c : Cuts(c, q, p)

(* The stretch is the same in a text that has this one at some place.      *)
Holds(r, p, m) == \A k \in 1 .. Len(p) : r[k + m] = p[k]

LEMMA StretchMoved ==
    ASSUME NEW item \in Items, NEW p \in Seq(Symbols), NEW r, NEW m \in Nat, Holds(r, p, m),
           NEW a \in 0 .. Len(p), NEW b \in 0 .. Len(p), Stretch(item, p, a, b)
    PROVE  Stretch(item, r, m + a, m + b)
<1>1. PICK w \in item.widths : b = a + w /\ \A k \in (a + 1) .. b : p[k] \in item.of
  BY DEF Stretch
<1>2. w \in Nat /\ Len(p) \in Nat /\ a \in Nat /\ b \in Nat /\ b <= Len(p)
  BY LenProperties DEF Items
<1>3. m + b = (m + a) + w
  BY <1>1, <1>2
<1>4. ASSUME NEW k \in ((m + a) + 1) .. (m + b) PROVE r[k] \in item.of
  <2>1. k - m \in (a + 1) .. b /\ k - m \in 1 .. Len(p) /\ (k - m) + m = k
    BY <1>2
  <2>2. r[k] = p[k - m]
    BY <2>1 DEF Holds
  <2> QED BY <1>1, <2>1, <2>2
<1> QED BY <1>3, <1>4 DEF Stretch

LEMMA FitsNothing == Fits(<<>>, <<>>)
<1>1. Cuts([n \in 0 .. 0 |-> 0], <<>>, <<>>)
  BY DEF Cuts
<1> QED BY <1>1, EmptySeq DEF Fits

LEMMA FitsOne ==
    ASSUME NEW item \in Items, NEW p \in Seq(Symbols), Len(p) \in item.widths, Range(p) \subseteq item.of
    PROVE  Fits(<<item>>, p)
<1>1. PICK q, len : q = <<item>> /\ len = Len(p)
  OBVIOUS
<1>2. q \in Seq(Items) /\ Len(q) = 1 /\ q[1] = item /\ len \in Nat /\ DOMAIN p = 1 .. len
  BY <1>1, LenProperties
<1>3. PICK c : c = [n \in 0 .. 1 |-> IF n = 0 THEN 0 ELSE len]
  OBVIOUS
<1>4. c[0] = 0 /\ c[1] = len
  BY <1>3
<1>5. Stretch(item, p, 0, len)
  <2>1. len = 0 + len /\ len \in item.widths
    BY <1>1, <1>2
  <2>2. \A k \in (0 + 1) .. len : p[k] \in item.of
    BY <1>2 DEF Range
  <2> QED BY <2>1, <2>2 DEF Stretch
<1>6. \A n \in 0 .. 1 : c[n] \in 0 .. len
  BY <1>2, <1>3
<1>7. \A n \in 1 .. 1 : Stretch(q[n], p, c[n - 1], c[n])
  <2>1. \A n \in 1 .. 1 : n = 1 /\ n - 1 = 0
    OBVIOUS
  <2> QED BY <1>2, <1>4, <1>5, <2>1
<1>8. Cuts(c, q, p)
  BY <1>1, <1>2, <1>4, <1>6, <1>7 DEF Cuts
<1> QED BY <1>1, <1>2, <1>8 DEF Fits

LEMMA FitsCat ==
    ASSUME NEW q1, NEW p1, Fits(q1, p1), NEW q2, NEW p2, Fits(q2, p2)
    PROVE  Fits(Cat(q1, q2), Cat(p1, p2))
<1>1. /\ q1 \in Seq(Items) /\ q2 \in Seq(Items)
      /\ p1 \in Seq(Symbols) /\ p2 \in Seq(Symbols)
  BY DEF Fits
<1>2. PICK q, p : q = Cat(q1, q2) /\ p = Cat(p1, p2)
  OBVIOUS
<1>3. q \in Seq(Items) /\ p \in Seq(Symbols) /\ Joins(q, q1, q2) /\ Joins(p, p1, p2)
  <2>1. q \in Seq(Items) /\ Joins(q, q1, q2)
    BY <1>1, <1>2, CatType, CatJoins
  <2>2. p \in Seq(Symbols) /\ Joins(p, p1, p2)
    BY <1>1, <1>2, CatType, CatJoins
  <2> QED BY <2>1, <2>2
<1>4. PICK l1, l2, m1, m2 : l1 = Len(q1) /\ l2 = Len(q2) /\ m1 = Len(p1) /\ m2 = Len(p2)
  OBVIOUS
<1>5. l1 \in Nat /\ l2 \in Nat /\ m1 \in Nat /\ m2 \in Nat
  BY <1>1, <1>4, LenProperties
<1>6. /\ Len(q) = l1 + l2 /\ Len(p) = m1 + m2
      /\ \A n \in 1 .. l1 : q[n] = q1[n]
      /\ \A n \in 1 .. l2 : q[n + l1] = q2[n]
  BY <1>3, <1>4 DEF Joins
<1>7. Holds(p, p1, 0) /\ Holds(p, p2, m1)
  <2>1. \A k \in 1 .. m1 : p[k + 0] = p1[k]
    <3>1. \A k \in 1 .. m1 : k + 0 = k
      BY <1>5
    <3> QED BY <1>3, <1>4, <3>1 DEF Joins
  <2>2. \A k \in 1 .. m2 : p[k + m1] = p2[k]
    BY <1>3, <1>4 DEF Joins
  <2> QED BY <1>4, <2>1, <2>2 DEF Holds
<1>8. PICK c1 : Cuts(c1, q1, p1)
  BY DEF Fits
<1>9. PICK c2 : Cuts(c2, q2, p2)
  BY DEF Fits
<1>10. PICK c : c = [n \in 0 .. (l1 + l2) |-> IF n <= l1 THEN c1[n] ELSE m1 + c2[n - l1]]
  OBVIOUS
<1>11. \A n \in 0 .. l1 : c[n] = c1[n] /\ c1[n] \in 0 .. m1
  <2>1. \A n \in 0 .. l1 : n \in 0 .. (l1 + l2) /\ n <= l1
    BY <1>5
  <2> QED BY <1>4, <1>8, <1>10, <2>1 DEF Cuts
<1>12. ASSUME NEW j \in 0 .. l2 PROVE c[j + l1] = m1 + c2[j] /\ c2[j] \in 0 .. m2
  <2>0. c2[j] \in 0 .. m2 /\ c2[0] = 0
    BY <1>4, <1>9 DEF Cuts
  <2>1. CASE j = 0
    <3>1. j + l1 = l1 /\ l1 \in 0 .. l1 /\ c1[l1] = m1
      BY <1>4, <1>5, <1>8, <2>1 DEF Cuts
    <3> QED BY <1>5, <1>11, <2>0, <2>1, <3>1
  <2>2. CASE j # 0
    <3>1. j + l1 \in 0 .. (l1 + l2) /\ ~(j + l1 <= l1) /\ (j + l1) - l1 = j
      BY <1>5, <2>2
    <3> QED BY <1>10, <2>0, <3>1
  <2> QED BY <2>1, <2>2
<1>13. c[0] = 0 /\ c[l1 + l2] = m1 + m2
  <2>1. c1[0] = 0 /\ c2[l2] = m2
    BY <1>4, <1>8, <1>9 DEF Cuts
  <2>2. 0 \in 0 .. l1 /\ l2 \in 0 .. l2 /\ l2 + l1 = l1 + l2
    BY <1>5
  <2>3. c[0] = c1[0] /\ c[l2 + l1] = m1 + c2[l2]
    BY <1>11, <1>12, <2>2
  <2> QED BY <2>1, <2>2, <2>3
<1>14. ASSUME NEW n \in 0 .. (l1 + l2) PROVE c[n] \in 0 .. (m1 + m2)
  <2>1. CASE n <= l1
    BY <1>5, <1>11, <2>1
  <2>2. CASE ~(n <= l1)
    <3>1. n - l1 \in 0 .. l2 /\ (n - l1) + l1 = n
      BY <1>5, <2>2
    <3>2. c[n] = m1 + c2[n - l1] /\ c2[n - l1] \in 0 .. m2
      BY <1>12, <3>1
    <3> QED BY <1>5, <3>2
  <2> QED BY <2>1, <2>2
<1>15. ASSUME NEW n \in 1 .. l1 PROVE Stretch(q[n], p, c[n - 1], c[n])
  <2>1. n \in 0 .. l1 /\ n - 1 \in 0 .. l1
    BY <1>5
  <2>2. PICK a, b : a = c1[n - 1] /\ b = c1[n]
    OBVIOUS
  <2>3. a \in 0 .. m1 /\ b \in 0 .. m1 /\ c[n - 1] = a /\ c[n] = b
    BY <1>11, <2>1, <2>2
  <2>4. Stretch(q1[n], p1, a, b)
    BY <1>4, <1>8, <2>2 DEF Cuts
  <2>5. PICK item \in Items : item = q1[n]
    BY <1>1, <1>4, ElementOfSeq
  <2>6. Stretch(item, p, 0 + a, 0 + b)
    BY <1>1, <1>4, <1>7, <2>3, <2>4, <2>5, StretchMoved
  <2>7. 0 + a = a /\ 0 + b = b
    BY <1>5, <2>3
  <2> QED BY <1>6, <2>3, <2>5, <2>6, <2>7
<1>16. ASSUME NEW j \in 1 .. l2 PROVE Stretch(q[j + l1], p, c[(j + l1) - 1], c[j + l1])
  <2>1. j \in 0 .. l2 /\ j - 1 \in 0 .. l2 /\ (j + l1) - 1 = (j - 1) + l1
    BY <1>5
  <2>2. PICK a, b : a = c2[j - 1] /\ b = c2[j]
    OBVIOUS
  <2>3. a \in 0 .. m2 /\ b \in 0 .. m2 /\ c[(j - 1) + l1] = m1 + a /\ c[j + l1] = m1 + b
    BY <1>12, <2>1, <2>2
  <2>4. Stretch(q2[j], p2, a, b)
    BY <1>4, <1>9, <2>2 DEF Cuts
  <2>5. PICK item \in Items : item = q2[j]
    BY <1>1, <1>4, ElementOfSeq
  <2>6. Stretch(item, p, m1 + a, m1 + b)
    BY <1>1, <1>4, <1>5, <1>7, <2>3, <2>4, <2>5, StretchMoved
  <2> QED BY <1>6, <2>1, <2>3, <2>5, <2>6
<1>17. ASSUME NEW n \in 1 .. (l1 + l2) PROVE Stretch(q[n], p, c[n - 1], c[n])
  <2>1. CASE n <= l1
    BY <1>5, <1>15, <2>1
  <2>2. CASE ~(n <= l1)
    <3>1. PICK j \in 1 .. l2 : j + l1 = n
      <4>1. n - l1 \in 1 .. l2 /\ (n - l1) + l1 = n
        BY <1>5, <2>2
      <4> QED BY <4>1
    <3> QED BY <1>16, <3>1
  <2> QED BY <2>1, <2>2
<1>18. Cuts(c, q, p)
  BY <1>6, <1>13, <1>14, <1>17 DEF Cuts
<1> QED BY <1>2, <1>3, <1>18 DEF Fits

(* If each of the parts fits, they do together.                            *)
LEMMA FitsFlattened ==
    ASSUME NEW Q \in Seq(Seq(Items)), NEW P \in Seq(Seq(Symbols)), Len(Q) = Len(P),
           \A i \in 1 .. Len(P) : Fits(Q[i], P[i])
    PROVE  Fits(FlattenSeq(Q), FlattenSeq(P))
<1>1. PICK f : StepsOf(f, Q)
  BY FlattenSteps
<1>2. PICK g : StepsOf(g, P)
  BY FlattenSteps
<1>3. PICK len \in Nat : len = Len(P) /\ len = Len(Q)
  BY LenProperties
<1> DEFINE S == {n \in 0 .. len : Fits(f[n], g[n])}
<1>4. 0 \in S /\ S \in SUBSET Nat
  <2>1. f[0] = <<>> /\ g[0] = <<>>
    BY <1>1, <1>2 DEF StepsOf
  <2>2. Fits(f[0], g[0])
    BY <2>1, FitsNothing
  <2> QED BY <1>3, <2>2
<1>5. ASSUME NEW n \in S, n < len PROVE n + 1 \in S
  <2>1. n \in 0 .. len /\ n + 1 \in 0 .. len /\ n + 1 \in 1 .. len /\ Fits(f[n], g[n])
    BY <1>3, <1>5
  <2>2. f[n + 1] = Cat(f[n], Q[n + 1])
    BY <1>1, <1>3, <2>1 DEF StepsOf
  <2>3. g[n + 1] = Cat(g[n], P[n + 1])
    BY <1>2, <1>3, <2>1 DEF StepsOf
  <2>4. Fits(Q[n + 1], P[n + 1])
    BY <1>3, <2>1
  <2>5. Fits(f[n + 1], g[n + 1])
    BY <2>1, <2>2, <2>3, <2>4, FitsCat
  <2> QED BY <2>1, <2>5
<1>6. 0 .. len \subseteq S
  <2> HIDE DEF S
  <2> QED BY <1>3, <1>4, <1>5, InductionUpTo
<1>7. Fits(f[len], g[len])
  <2>1. len \in 0 .. len
    BY <1>3
  <2> QED BY <1>6, <2>1
<1> QED BY <1>1, <1>2, <1>3, <1>7 DEF StepsOf

(* What fits matches.                                                      *)
LEMMA FitsMatches == ASSUME NEW q, NEW p, Fits(q, p) PROVE Matches(q, p)
<1>1. q \in Seq(Items) /\ p \in Seq(Symbols)
  BY DEF Fits
<1>2. PICK c : Cuts(c, q, p)
  BY DEF Fits
<1>3. PICK len \in Nat : len = Len(q)
  BY <1>1, LenProperties
<1>4. PICK ends : EndsOf(ends, q, p)
  BY <1>3, EndsExist
<1> DEFINE S == {n \in 0 .. len : c[n] \in ends[n]}
<1>5. 0 \in S /\ S \in SUBSET Nat
  <2>1. c[0] \in ends[0]
    BY <1>2, <1>4 DEF Cuts, EndsOf
  <2> QED BY <1>3, <2>1
<1>6. ASSUME NEW n \in S, n < len PROVE n + 1 \in S
  <2>1. n \in 0 .. len /\ n + 1 \in 0 .. len /\ n + 1 \in 1 .. len /\ (n + 1) - 1 = n /\ c[n] \in ends[n]
    BY <1>3, <1>6
  <2>2. PICK item, a, b : item = q[n + 1] /\ a = c[n] /\ b = c[n + 1]
    OBVIOUS
  <2>3. ends[n + 1] = Further(item, p, ends[n])
    BY <1>3, <1>4, <2>1, <2>2 DEF EndsOf
  <2>4. Stretch(item, p, a, b)
    BY <1>2, <1>3, <2>1, <2>2 DEF Cuts
  <2>5. PICK w \in item.widths : b = a + w /\ \A k \in (a + 1) .. b : p[k] \in item.of
    BY <2>4 DEF Stretch
  <2>6. b <= Len(p)
    <3>1. b \in 0 .. Len(p) /\ Len(p) \in Nat
      BY <1>1, <1>2, <1>3, <2>1, <2>2, LenProperties DEF Cuts
    <3> QED BY <3>1
  <2>7. b \in Further(item, p, ends[n])
    BY <2>1, <2>2, <2>5, <2>6 DEF Further
  <2> QED BY <2>1, <2>2, <2>3, <2>7
<1>7. 0 .. len \subseteq S
  <2> HIDE DEF S
  <2> QED BY <1>3, <1>5, <1>6, InductionUpTo
<1>8. c[len] \in ends[len] /\ c[len] = Len(p)
  <2>1. len \in 0 .. len
    BY <1>3
  <2> QED BY <1>2, <1>3, <1>7, <2>1 DEF Cuts
<1> QED BY <1>3, <1>4, <1>8 DEF EndsOf

-----------------------------------------------------------------------------
(* The expression of a token that is different for each process and file.  *)

LateTokens == ProcessTokens \cup TimeTokens
NumberTokens == {"%%year", "%%yr", "%%month", "%%day", "%%hour", "%%min", "%%sec", "%%ms"}

DateItems == Cat(Cat(Cat(Cat(<<Digits(4)>>, <<Literal("-")>>), <<Digits(2)>>), <<Literal("-")>>), <<Digits(2)>>)
MinuteItems == Cat(Cat(<<Digits(2)>>, <<Literal(":")>>), <<Digits(2)>>)
ClockItems == Cat(Cat(MinuteItems, <<Literal(":")>>), <<Digits(2)>>)

LEMMA FieldWidths ==
    /\ FieldWidth("%%year") = 4 /\ FieldWidth("%%ms") = 3
    /\ \A k \in {"%%yr", "%%month", "%%day", "%%hour", "%%min", "%%sec"} : FieldWidth(k) = 2
BY DEF FieldWidth

LEMMA VolatileIs ==
    /\ Volatile["%%pid"] = <<Item(Range(Digit), 1 .. MaxLen)>>
    /\ Volatile["%%procname"] = <<Item(Characters, 0 .. MaxLen)>>
    /\ Volatile["%%datatime"] = Cat(Cat(DateItems, <<Literal(" ")>>), ClockItems)
    /\ Volatile["%%date"] = DateItems
    /\ Volatile["%%monstr"] = <<Item(Range(Months), {1})>>
    /\ Volatile["%%time"] = Cat(Cat(Cat(MinuteItems, <<Item(Characters, {1})>>), <<Digits(3)>>), <<Digits(4)>>)
    /\ \A k \in NumberTokens : Volatile[k] = <<Digits(FieldWidth(k))>>
<1> DEFINE field(k) == <<Digits(FieldWidth(k))>>
           date == field("%%year") \o <<Literal("-")>> \o field("%%month") \o <<Literal("-")>> \o field("%%day")
           minutes == field("%%hour") \o <<Literal(":")>> \o field("%%min")
           clock == minutes \o <<Literal(":")>> \o field("%%sec")
<1>1. date = DateItems /\ minutes = MinuteItems /\ clock = ClockItems /\ field("%%ms") = <<Digits(3)>>
  BY FieldWidths, Zenon DEF DateItems, MinuteItems, ClockItems, Cat
<1>2. PICK pid, procname, datatime, monstr, tm :
          /\ pid = <<Item(Range(Digit), 1 .. MaxLen)>> /\ procname = <<Item(Characters, 0 .. MaxLen)>>
          /\ datatime = date \o <<Literal(" ")>> \o clock /\ monstr = <<Item(Range(Months), {1})>>
          /\ tm = minutes \o <<Item(Characters, {1})>> \o field("%%ms") \o <<Digits(4)>>
  OBVIOUS
<1>3. \A k \in TimeTokens \cup ProcessTokens :
          Volatile[k] =
            CASE k = "%%pid" -> pid
              [] k = "%%procname" -> procname
              [] k = "%%datatime" -> datatime
              [] k = "%%date" -> date
              [] k = "%%monstr" -> monstr
              [] k = "%%time" -> tm
              [] OTHER -> field(k)
  BY <1>2, Zenon DEF Volatile
<1>4. datatime = Cat(Cat(DateItems, <<Literal(" ")>>), ClockItems)
  BY <1>1, <1>2, Zenon DEF Cat
<1>5. tm = Cat(Cat(Cat(MinuteItems, <<Item(Characters, {1})>>), <<Digits(3)>>), <<Digits(4)>>)
  BY <1>1, <1>2, Zenon DEF Cat
<1> HIDE DEF date, minutes, clock
<1>6. \A k \in NumberTokens : Volatile[k] = field(k)
  <2> HIDE DEF field
  <2> QED BY <1>3 DEF NumberTokens, TimeTokens
<1>7. Volatile["%%pid"] = pid /\ Volatile["%%procname"] = procname /\ Volatile["%%datatime"] = datatime
  <2> HIDE DEF field
  <2> QED BY <1>3 DEF ProcessTokens, TimeTokens
<1>8. Volatile["%%date"] = date /\ Volatile["%%monstr"] = monstr /\ Volatile["%%time"] = tm
  <2> HIDE DEF field
  <2> QED BY <1>3 DEF ProcessTokens, TimeTokens
<1> QED BY <1>1, <1>2, <1>4, <1>5, <1>6, <1>7, <1>8

(* The texts of a time, as concatenations.                                 *)
TimeOf(h, mi, s) == Cat(Cat(Cat(Cat(Padded(h, 2), <<":">>), Padded(mi, 2)), <<":">>), Padded(s, 2))

TextsAre(r, y, mo, d, h, mi, s, m) ==
    /\ r["%%date"] = DateOf(y, mo, d) /\ r["%%datatime"] = Cat(Cat(DateOf(y, mo, d), <<" ">>), TimeOf(h, mi, s))
    /\ r["%%monstr"] = <<Months[mo]>>
    /\ r["%%year"] = Padded(y, 4) /\ r["%%yr"] = SubSeq(Padded(y, 4), 3, 4)
    /\ r["%%month"] = Padded(mo, 2) /\ r["%%day"] = Padded(d, 2)
    /\ r["%%hour"] = Padded(h, 2) /\ r["%%min"] = Padded(mi, 2)
    /\ r["%%sec"] = Padded(s, 2) /\ r["%%ms"] = Padded(m, 3)

LEMMA TimeTextsAre ==
    ASSUME NEW t, NEW y, NEW mo, NEW d, NEW h, NEW mi, NEW s, NEW m, Numbers(t, y, mo, d, h, mi, s, m)
    PROVE  TextsAre(TimeTexts(t), y, mo, d, h, mi, s, m)
<1> DEFINE year == Padded(t.year, 4)
           month == Padded(t.month, 2)
           day == Padded(t.day, 2)
           hour == Padded(t.ms \div Hour, 2)
           min == Padded((t.ms \div Minute) % 60, 2)
           sec == Padded((t.ms \div 1000) % 60, 2)
           ms == Padded(t.ms % 1000, 3)
           date == year \o <<"-">> \o month \o <<"-">> \o day
           clock == hour \o <<":">> \o min \o <<":">> \o sec
           datatime == date \o <<" ">> \o clock
           yr == SubSeq(year, 3, 4)
           monstr == <<Months[t.month]>>
           tm == clock \o <<".">> \o ms \o <<"0", "0", "0", "0">>
<1>1. \A k \in TimeTokens : TimeTexts(t)[k] =
            CASE k = "%%datatime" -> datatime
              [] k = "%%date" -> date     [] k = "%%year" -> year    [] k = "%%yr" -> yr
              [] k = "%%month" -> month   [] k = "%%monstr" -> monstr
              [] k = "%%day" -> day       [] k = "%%time" -> tm
              [] k = "%%hour" -> hour     [] k = "%%min" -> min      [] k = "%%sec" -> sec
              [] k = "%%ms" -> ms
  BY Zenon DEF TimeTexts
<1>2. /\ year = Padded(y, 4) /\ month = Padded(mo, 2) /\ day = Padded(d, 2) /\ hour = Padded(h, 2)
      /\ min = Padded(mi, 2) /\ sec = Padded(s, 2) /\ ms = Padded(m, 3) /\ monstr = <<Months[mo]>>
  BY Zenon DEF Numbers
<1> HIDE DEF year, month, day, hour, min, sec, ms, monstr
<1>3. date = DateOf(y, mo, d)
  BY <1>2, Zenon DEF DateOf, Cat
<1>4. datatime = Cat(Cat(DateOf(y, mo, d), <<" ">>), TimeOf(h, mi, s))
  <2>1. clock = TimeOf(h, mi, s)
    BY <1>2, Zenon DEF TimeOf, Cat
  <2> QED BY <1>3, <2>1, Zenon DEF Cat
<1>5. yr = SubSeq(Padded(y, 4), 3, 4)
  BY <1>2
<1> HIDE DEF date, clock, datatime, yr, tm
<1>6. /\ TimeTexts(t)["%%date"] = date /\ TimeTexts(t)["%%datatime"] = datatime /\ TimeTexts(t)["%%monstr"] = monstr
      /\ TimeTexts(t)["%%year"] = year /\ TimeTexts(t)["%%yr"] = yr /\ TimeTexts(t)["%%month"] = month
  BY <1>1 DEF TimeTokens
<1>7. /\ TimeTexts(t)["%%day"] = day /\ TimeTexts(t)["%%hour"] = hour /\ TimeTexts(t)["%%min"] = min
      /\ TimeTexts(t)["%%sec"] = sec /\ TimeTexts(t)["%%ms"] = ms
  BY <1>1 DEF TimeTokens
<1> QED BY <1>2, <1>3, <1>4, <1>5, <1>6, <1>7, Zenon DEF TextsAre

(* One item of digits takes a number.                                      *)
LEMMA DigitsFit ==
    ASSUME NEW w \in Nat, NEW p \in Seq(Range(Digit)), Len(p) = w
    PROVE  Fits(<<Digits(w)>>, p)
<1>1. Range(Digit) \subseteq Symbols
  BY CharactersAssumption DEF Symbols, Glyphs
<1>2. PICK item : item = Digits(w)
  OBVIOUS
<1>3. item \in Items /\ item.of = Range(Digit) /\ item.widths = {w}
  BY <1>1, <1>2 DEF Digits, Item, Items
<1>4. p \in Seq(Symbols) /\ Range(p) \subseteq Range(Digit)
  <2>1. Range(p) \subseteq Range(Digit)
    BY RangeOfSeq
  <2>2. p \in Seq(Symbols)
    BY <1>1, SeqMonotonic
  <2> QED BY <2>1, <2>2
<1> QED BY <1>2, <1>3, <1>4, FitsOne

LEMMA PaddedFits == ASSUME NEW n \in Nat, NEW w \in 1 .. 4 PROVE Fits(<<Digits(w)>>, Padded(n, w))
<1>1. w \in Nat
  OBVIOUS
<1> QED BY <1>1, PaddedType, DigitsFit

LEMMA LiteralFits == ASSUME NEW s \in Symbols PROVE Literal(s) \in Items /\ Fits(<<Literal(s)>>, <<s>>)
<1>1. PICK item, p : item = Literal(s) /\ p = <<s>>
  OBVIOUS
<1>2. item \in Items /\ item.of = {s} /\ item.widths = {1}
  BY <1>1 DEF Literal, Item, Items
<1>3. p \in Seq(Symbols) /\ Len(p) = 1 /\ Range(p) = {s}
  BY <1>1 DEF Range
<1> QED BY <1>1, <1>2, <1>3, FitsOne

(* The expression of a date takes a date; that of a time of the day, one.  *)
LEMMA DateFits ==
    ASSUME NEW y \in Nat, NEW mo \in Nat, NEW d \in Nat
    PROVE  Fits(DateItems, DateOf(y, mo, d))
<1>1. PICK four, two, dash : four = <<Digits(4)>> /\ two = <<Digits(2)>> /\ dash = <<Literal("-")>>
  OBVIOUS
<1>2. PICK ty, tmo, td, tdash : ty = Padded(y, 4) /\ tmo = Padded(mo, 2) /\ td = Padded(d, 2) /\ tdash = <<"-">>
  OBVIOUS
<1>3. 4 \in 1 .. 4 /\ 2 \in 1 .. 4
  OBVIOUS
<1>4. Fits(four, ty) /\ Fits(two, tmo) /\ Fits(two, td)
  BY <1>1, <1>2, <1>3, PaddedFits
<1>5. Fits(dash, tdash)
  <2>1. PICK s : s = "-" /\ s \in Symbols
    BY CharactersAssumption DEF Glyphs, Symbols
  <2> QED BY <1>1, <1>2, <2>1, LiteralFits
<1>6. Fits(Cat(four, dash), Cat(ty, tdash))
  BY <1>4, <1>5, FitsCat
<1>7. Fits(Cat(Cat(four, dash), two), Cat(Cat(ty, tdash), tmo))
  BY <1>4, <1>6, FitsCat
<1>8. Fits(Cat(Cat(Cat(four, dash), two), dash), Cat(Cat(Cat(ty, tdash), tmo), tdash))
  BY <1>5, <1>7, FitsCat
<1>9. Fits(Cat(Cat(Cat(Cat(four, dash), two), dash), two), Cat(Cat(Cat(Cat(ty, tdash), tmo), tdash), td))
  BY <1>4, <1>8, FitsCat
<1> QED BY <1>1, <1>2, <1>9, Zenon DEF DateItems, DateOf

LEMMA ClockFits ==
    ASSUME NEW h \in Nat, NEW mi \in Nat, NEW s \in Nat
    PROVE  Fits(ClockItems, TimeOf(h, mi, s))
<1>1. PICK two, colon : two = <<Digits(2)>> /\ colon = <<Literal(":")>>
  OBVIOUS
<1>2. PICK th, tmi, ts, tcolon : th = Padded(h, 2) /\ tmi = Padded(mi, 2) /\ ts = Padded(s, 2) /\ tcolon = <<":">>
  OBVIOUS
<1>3. 2 \in 1 .. 4
  OBVIOUS
<1>4. Fits(two, th) /\ Fits(two, tmi) /\ Fits(two, ts)
  BY <1>1, <1>2, <1>3, PaddedFits
<1>5. Fits(colon, tcolon)
  <2>1. PICK c : c = ":" /\ c \in Symbols
    BY CharactersAssumption DEF Glyphs, Symbols
  <2> QED BY <1>1, <1>2, <2>1, LiteralFits
<1>6. Fits(Cat(two, colon), Cat(th, tcolon))
  BY <1>4, <1>5, FitsCat
<1>7. Fits(Cat(Cat(two, colon), two), Cat(Cat(th, tcolon), tmi))
  BY <1>4, <1>6, FitsCat
<1>8. Fits(Cat(Cat(Cat(two, colon), two), colon), Cat(Cat(Cat(th, tcolon), tmi), tcolon))
  BY <1>5, <1>7, FitsCat
<1>9. Fits(Cat(Cat(Cat(Cat(two, colon), two), colon), two), Cat(Cat(Cat(Cat(th, tcolon), tmi), tcolon), ts))
  BY <1>4, <1>8, FitsCat
<1> QED BY <1>1, <1>2, <1>9, Zenon DEF ClockItems, MinuteItems, TimeOf

(* The numbers among the texts of a time have as many digits as the        *)
(* expression says.                                                        *)
LEMMA NumberTexts ==
    ASSUME NEW t \in Times, NEW k \in NumberTokens
    PROVE  TimeTexts(t)[k] \in Seq(Range(Digit)) /\ Len(TimeTexts(t)[k]) = FieldWidth(k)
<1>0. PICK y \in Nat, mo \in 1 .. 12, d \in Nat, h \in Nat, mi \in Nat, s \in Nat, m \in Nat :
               Numbers(t, y, mo, d, h, mi, s, m)
  BY TimeNumbers
<1>a. TextsAre(TimeTexts(t), y, mo, d, h, mi, s, m)
  BY <1>0, TimeTextsAre
<1> DEFINE Number(p, w) == p \in Seq(Range(Digit)) /\ Len(p) = w
<1>1. \A n \in Nat : Number(Padded(n, 2), 2) /\ Number(Padded(n, 3), 3) /\ Number(Padded(n, 4), 4)
  <2>1. 2 \in 1 .. 4 /\ 3 \in 1 .. 4 /\ 4 \in 1 .. 4
    OBVIOUS
  <2> QED BY <2>1, PaddedType
<1>2. /\ TimeTexts(t)["%%year"] = Padded(y, 4) /\ TimeTexts(t)["%%yr"] = SubSeq(Padded(y, 4), 3, 4)
      /\ TimeTexts(t)["%%month"] = Padded(mo, 2) /\ TimeTexts(t)["%%day"] = Padded(d, 2)
  BY <1>a DEF TextsAre
<1>3. /\ TimeTexts(t)["%%hour"] = Padded(h, 2) /\ TimeTexts(t)["%%min"] = Padded(mi, 2)
      /\ TimeTexts(t)["%%sec"] = Padded(s, 2) /\ TimeTexts(t)["%%ms"] = Padded(m, 3)
  BY <1>a DEF TextsAre
<1>4. Number(SubSeq(Padded(y, 4), 3, 4), 2)
  <2>1. PICK p, U : p = Padded(y, 4) /\ U = Range(Digit) /\ p \in Seq(U) /\ Len(p) = 4
    BY <1>1
  <2>2. \A i \in 3 .. 4 : p[i] \in U
    <3>1. \A i \in 1 .. 4 : p[i] \in U
      BY <2>1, ElementOfSeq
    <3> QED BY <3>1
  <2>3. SubSeq(p, 3, 4) \in Seq(U) /\ Len(SubSeq(p, 3, 4)) = 2
    BY <2>2, SubSeqProperties
  <2> QED BY <2>1, <2>3
<1>5. mo \in Nat
  OBVIOUS
<1> HIDE DEF Number
<1>6. /\ Number(TimeTexts(t)["%%year"], 4) /\ Number(TimeTexts(t)["%%yr"], 2) /\ Number(TimeTexts(t)["%%month"], 2)
      /\ Number(TimeTexts(t)["%%day"], 2)
  BY <1>1, <1>2, <1>4, <1>5
<1>7. /\ Number(TimeTexts(t)["%%hour"], 2) /\ Number(TimeTexts(t)["%%min"], 2) /\ Number(TimeTexts(t)["%%sec"], 2)
      /\ Number(TimeTexts(t)["%%ms"], 3)
  BY <1>1, <1>3
<1>8. Number(TimeTexts(t)[k], FieldWidth(k))
  BY <1>6, <1>7, FieldWidths DEF NumberTokens
<1> QED BY <1>8 DEF Number

(* What an expression is made for, it takes; but for "%%time".             *)
LEMMA VolatileFits ==
    ASSUME Inputs, Settled, NEW t \in Times, NEW k \in LateTokens, k # "%%time"
    PROVE  Fits(Volatile[k], Told(t)[k])
<1>0. PICK y \in Nat, mo \in 1 .. 12, d \in Nat, h \in Nat, mi \in Nat, s \in Nat, m \in Nat :
               Numbers(t, y, mo, d, h, mi, s, m)
  BY TimeNumbers
<1>a. TextsAre(TimeTexts(t), y, mo, d, h, mi, s, m)
  BY <1>0, TimeTextsAre
<1>1. k \in {"%%pid", "%%procname", "%%datatime", "%%date", "%%monstr"} \cup NumberTokens
  BY DEF LateTokens, ProcessTokens, TimeTokens, NumberTokens
<1>2. /\ k \in ProcessTokens => Told(t)[k] = Process[k]
      /\ k \in TimeTokens => Told(t)[k] = TimeTexts(t)[k]
  BY ToldTyped
<1>3. CASE k = "%%pid"
  <2>1. PICK item, p : item = Item(Range(Digit), 1 .. MaxLen) /\ p = Process["%%pid"]
    OBVIOUS
  <2>2. p \in Seq(Symbols) /\ Len(p) <= MaxLen /\ p # <<>> /\ Range(p) \subseteq Range(Digit)
    BY <2>1, ProcessAssumption DEF ProcessTokens
  <2>3. Len(p) \in 1 .. MaxLen
    BY <2>2, LenProperties, EmptySeq, CharactersAssumption
  <2>4. item \in Items /\ item.of = Range(Digit) /\ item.widths = 1 .. MaxLen
    <3>1. Range(Digit) \subseteq Symbols
      BY CharactersAssumption DEF Symbols, Glyphs
    <3>2. 1 .. MaxLen \in (SUBSET Nat) \ {{}}
      BY <2>3
    <3> QED BY <2>1, <3>1, <3>2 DEF Item, Items
  <2>5. Fits(<<item>>, p)
    BY <2>2, <2>3, <2>4, FitsOne
  <2> QED BY <1>2, <1>3, <2>1, <2>5, VolatileIs DEF ProcessTokens
<1>4. CASE k = "%%procname"
  <2>1. PICK item, p : item = Item(Characters, 0 .. MaxLen) /\ p = Process["%%procname"]
    OBVIOUS
  <2>2. p \in Seq(Symbols) /\ Len(p) <= MaxLen /\ Range(p) \subseteq Characters
    BY <2>1, ProcessAssumption DEF ProcessTokens, Settled
  <2>3. Len(p) \in 0 .. MaxLen
    BY <2>2, LenProperties, CharactersAssumption
  <2>4. item \in Items /\ item.of = Characters /\ item.widths = 0 .. MaxLen
    <3>1. Characters \subseteq Symbols
      BY DEF Symbols
    <3>2. 0 .. MaxLen \in (SUBSET Nat) \ {{}}
      BY <2>3
    <3> QED BY <2>1, <3>1, <3>2 DEF Item, Items
  <2>5. Fits(<<item>>, p)
    BY <2>2, <2>3, <2>4, FitsOne
  <2> QED BY <1>2, <1>4, <2>1, <2>5, VolatileIs DEF ProcessTokens
<1>5. CASE k = "%%date"
  <2>0. TimeTexts(t)["%%date"] = DateOf(y, mo, d)
    BY <1>a, Zenon DEF TextsAre
  <2>1. TimeTexts(t)[k] = DateOf(y, mo, d) /\ k \in TimeTokens /\ mo \in Nat
    BY <1>5, <2>0 DEF TimeTokens
  <2>2. Fits(DateItems, DateOf(y, mo, d))
    BY <2>1, DateFits
  <2> QED BY <1>2, <1>5, <2>1, <2>2, VolatileIs
<1>6. CASE k = "%%datatime"
  <2>0. TimeTexts(t)["%%datatime"] = Cat(Cat(DateOf(y, mo, d), <<" ">>), TimeOf(h, mi, s))
    BY <1>a, Zenon DEF TextsAre
  <2>1. TimeTexts(t)[k] = Cat(Cat(DateOf(y, mo, d), <<" ">>), TimeOf(h, mi, s)) /\ k \in TimeTokens /\ mo \in Nat
    <3>1. k \in TimeTokens
      BY <1>6 DEF TimeTokens
    <3>2. TimeTexts(t)[k] = Cat(Cat(DateOf(y, mo, d), <<" ">>), TimeOf(h, mi, s))
      BY <1>6, <2>0, Zenon
    <3>3. mo \in Nat
      OBVIOUS
    <3> QED BY <3>1, <3>2, <3>3, Zenon
  <2>2. Fits(DateItems, DateOf(y, mo, d)) /\ Fits(ClockItems, TimeOf(h, mi, s))
    BY <2>1, DateFits, ClockFits
  <2>3. Fits(<<Literal(" ")>>, <<" ">>)
    <3>1. PICK c : c = " " /\ c \in Symbols
      BY CharactersAssumption DEF Glyphs, Symbols
    <3> QED BY <3>1, LiteralFits
  <2>4. Fits(Cat(DateItems, <<Literal(" ")>>), Cat(DateOf(y, mo, d), <<" ">>))
    BY <2>2, <2>3, FitsCat
  <2>5. Fits(Cat(Cat(DateItems, <<Literal(" ")>>), ClockItems), Cat(Cat(DateOf(y, mo, d), <<" ">>), TimeOf(h, mi, s)))
    BY <2>2, <2>4, FitsCat
  <2> QED BY <1>2, <1>6, <2>1, <2>5, VolatileIs
<1>7. CASE k = "%%monstr"
  <2>1. TimeTexts(t)[k] = <<Months[mo]>> /\ k \in TimeTokens
    BY <1>7, <1>a DEF TextsAre, TimeTokens
  <2>2. PICK item, month : item = Item(Range(Months), {1}) /\ month = Months[mo]
    OBVIOUS
  <2>3. month \in Range(Months) /\ Range(Months) \subseteq Symbols
    <3>1. DOMAIN Months = 1 .. 12
      BY DEF Months
    <3> QED BY <2>2, <3>1, CharactersAssumption DEF Range, Symbols, Glyphs
  <2>4. item \in Items /\ item.of = Range(Months) /\ item.widths = {1}
    BY <2>2, <2>3 DEF Item, Items
  <2>5. <<month>> \in Seq(Symbols) /\ Len(<<month>>) = 1 /\ Range(<<month>>) = {month}
    BY <2>3 DEF Range
  <2>6. Fits(<<item>>, <<month>>)
    BY <2>3, <2>4, <2>5, FitsOne
  <2> QED BY <1>2, <1>7, <2>1, <2>2, <2>6, VolatileIs
<1>8. CASE k \in NumberTokens
  <2>1. PICK p, w : p = TimeTexts(t)[k] /\ w = FieldWidth(k)
    OBVIOUS
  <2>2. p \in Seq(Range(Digit)) /\ Len(p) = w /\ w \in Nat
    BY <1>8, <2>1, NumberTexts, LenProperties
  <2>3. Fits(<<Digits(w)>>, p)
    BY <2>2, DigitsFit
  <2>4. k \in TimeTokens
    BY <1>8 DEF NumberTokens, TimeTokens
  <2> QED BY <1>2, <1>8, <2>1, <2>3, <2>4, VolatileIs
<1> QED BY <1>1, <1>3, <1>4, <1>5, <1>6, <1>7, <1>8

-----------------------------------------------------------------------------
(* The expression that is made.                                            *)

Expressed == [s \in Symbols |-> Literal(s)]

(* The expression of the configured format, of all tokens at once.         *)
Template == FlattenSeq(Parts(Fixed, LateTokens, Volatile, Expressed))

(* The items of a token's expression have only characters.                 *)
Loose == [of : SUBSET Characters, widths : (SUBSET Nat) \ {{}}]

LEMMA ExpressedType ==
    /\ Expressed \in [Symbols -> Items] /\ Injective(Expressed, Symbols)
    /\ \A s \in Symbols : Expressed[s] = Literal(s) /\ Literal(s).of = {s} /\ Literal(s).widths = {1}
<1>1. \A s \in Symbols : Literal(s) \in Items /\ Literal(s).of = {s} /\ Literal(s).widths = {1}
  BY LiteralFits DEF Literal, Item
<1>2. Expressed \in [Symbols -> Items] /\ \A s \in Symbols : Expressed[s] = Literal(s)
  BY <1>1 DEF Expressed
<1>3. ASSUME NEW s \in Symbols, NEW t \in Symbols, Expressed[s] = Expressed[t] PROVE s = t
  <2>1. {s} = {t}
    BY <1>1, <1>2, <1>3
  <2> QED BY <2>1
<1> QED BY <1>1, <1>2, <1>3 DEF Injective

LEMMA LooseItems == Loose \subseteq Items /\ \A s \in Tokens : Literal(s) \notin Loose
<1>1. Loose \subseteq Items
  BY DEF Loose, Items, Symbols
<1>2. ASSUME NEW s \in Tokens, Literal(s) \in Loose PROVE FALSE
  <2>1. Literal(s).of = {s}
    BY DEF Literal, Item
  <2>2. {s} \subseteq Characters
    BY <1>2, <2>1 DEF Loose
  <2> QED BY <2>2, CharactersAssumption
<1> QED BY <1>1, <1>2

LEMMA SingleType == ASSUME NEW U, NEW e \in U PROVE <<e>> \in Seq(U)
OBVIOUS

(* The expressions are made of given items, if those of the fields and the *)
(* signs between them are.                                                 *)
LEMMA VolatileMadeOf ==
    ASSUME NEW U, Literal("-") \in U, Literal(":") \in U, Literal(" ") \in U,
           Digits(2) \in U, Digits(3) \in U, Digits(4) \in U
    PROVE  /\ Volatile["%%datatime"] \in Seq(U) /\ Volatile["%%date"] \in Seq(U)
           /\ \A k \in NumberTokens : Volatile[k] \in Seq(U)
           /\ MinuteItems \in Seq(U)
<1>1. /\ <<Literal("-")>> \in Seq(U) /\ <<Literal(":")>> \in Seq(U) /\ <<Literal(" ")>> \in Seq(U)
      /\ <<Digits(2)>> \in Seq(U) /\ <<Digits(3)>> \in Seq(U) /\ <<Digits(4)>> \in Seq(U)
  <2>1. \A e \in U : <<e>> \in Seq(U)
    BY SingleType, Zenon
  <2> QED BY <2>1
<1>2. \A s, t \in Seq(U) : Cat(s, t) \in Seq(U)
  BY CatType
<1>3. DateItems \in Seq(U)
  BY <1>1, <1>2, Zenon DEF DateItems
<1>4. MinuteItems \in Seq(U)
  BY <1>1, <1>2, Zenon DEF MinuteItems
<1>5. ClockItems \in Seq(U)
  BY <1>1, <1>2, <1>4, Zenon DEF ClockItems
<1>6. Cat(Cat(DateItems, <<Literal(" ")>>), ClockItems) \in Seq(U)
  BY <1>1, <1>2, <1>3, <1>5, Zenon
<1>7. \A k \in NumberTokens : <<Digits(FieldWidth(k))>> \in Seq(U)
  BY <1>1, FieldWidths, Zenon DEF NumberTokens
<1> QED BY <1>3, <1>4, <1>6, <1>7, VolatileIs

LEMMA VolatileLoose == ASSUME NEW k \in LateTokens PROVE Volatile[k] \in Seq(Loose)
<1>1. MaxLen \in Nat /\ 1 .. MaxLen # {}
  <2>1. Len(Process["%%pid"]) <= MaxLen /\ Process["%%pid"] # <<>> /\ Process["%%pid"] \in Seq(Symbols)
    BY ProcessAssumption DEF ProcessTokens
  <2>2. Len(Process["%%pid"]) \in Nat /\ Len(Process["%%pid"]) # 0
    BY <2>1, LenProperties, EmptySeq
  <2>3. 1 \in 1 .. MaxLen /\ MaxLen \in Nat
    BY <2>1, <2>2, CharactersAssumption
  <2> QED BY <2>3
<1>2. Range(Digit) \subseteq Characters /\ Range(Months) \subseteq Characters /\ {"-", ":", " "} \subseteq Characters
  BY CharactersAssumption DEF Glyphs
<1>3. ASSUME NEW S \in SUBSET Characters, NEW W \in (SUBSET Nat) \ {{}} PROVE Item(S, W) \in Loose
  BY DEF Item, Loose
<1>4. Literal("-") \in Loose /\ Literal(":") \in Loose /\ Literal(" ") \in Loose
  <2>1. \A c \in Characters : {c} \in SUBSET Characters
    OBVIOUS
  <2>2. {1} \in (SUBSET Nat) \ {{}}
    OBVIOUS
  <2>3. \A c \in Characters : Literal(c) \in Loose
    BY <1>3, <2>1, <2>2 DEF Literal
  <2> QED BY <1>2, <2>3
<1>5. \A w \in Nat : Digits(w) \in Loose
  <2>1. \A w \in Nat : {w} \in (SUBSET Nat) \ {{}}
    OBVIOUS
  <2> QED BY <1>2, <1>3, <2>1 DEF Digits
<1>6. Digits(2) \in Loose /\ Digits(3) \in Loose /\ Digits(4) \in Loose
  BY <1>5
<1>7. /\ Volatile["%%datatime"] \in Seq(Loose) /\ Volatile["%%date"] \in Seq(Loose)
      /\ \A n \in NumberTokens : Volatile[n] \in Seq(Loose)
      /\ MinuteItems \in Seq(Loose)
  BY <1>4, <1>6, VolatileMadeOf
<1>8. PICK pid, procname, dot, month : /\ pid = Item(Range(Digit), 1 .. MaxLen) /\ procname = Item(Characters, 0 .. MaxLen)
                                       /\ dot = Item(Characters, {1}) /\ month = Item(Range(Months), {1})
  OBVIOUS
<1>9. pid \in Loose /\ procname \in Loose /\ dot \in Loose /\ month \in Loose
  <2>1. 1 .. MaxLen \in (SUBSET Nat) \ {{}} /\ 0 .. MaxLen \in (SUBSET Nat) \ {{}} /\ {1} \in (SUBSET Nat) \ {{}}
    BY <1>1
  <2> QED BY <1>2, <1>3, <1>8, <2>1
<1>10. /\ <<pid>> \in Seq(Loose) /\ <<procname>> \in Seq(Loose) /\ <<dot>> \in Seq(Loose) /\ <<month>> \in Seq(Loose)
       /\ <<Digits(3)>> \in Seq(Loose) /\ <<Digits(4)>> \in Seq(Loose)
  BY <1>5, <1>9
<1>11. Cat(Cat(Cat(MinuteItems, <<dot>>), <<Digits(3)>>), <<Digits(4)>>) \in Seq(Loose)
  <2>1. \A s, t \in Seq(Loose) : Cat(s, t) \in Seq(Loose)
    BY CatType
  <2> QED BY <1>7, <1>10, <2>1, Zenon
<1>12. /\ Volatile["%%pid"] \in Seq(Loose) /\ Volatile["%%procname"] \in Seq(Loose)
       /\ Volatile["%%monstr"] \in Seq(Loose) /\ Volatile["%%time"] \in Seq(Loose)
  BY <1>8, <1>10, <1>11, VolatileIs
<1>13. k \in {"%%pid", "%%procname", "%%datatime", "%%date", "%%monstr", "%%time"} \cup NumberTokens
  BY DEF LateTokens, ProcessTokens, TimeTokens, NumberTokens
<1> QED BY <1>7, <1>12, <1>13

LEMMA FixedPlain == ASSUME Inputs, Plain PROVE "%%time" \notin Range(Fixed) /\ "+" \notin Range(Fixed)
<1>1. Range(Fixed) \subseteq UNION {Range(t) : t \in Range(config)}
  BY FixedSymbols
<1>2. \A k \in DOMAIN config : "%%time" \notin Range(config[k]) /\ "+" \notin Range(config[k])
  BY DEF Plain
<1>3. ASSUME NEW t \in Range(config) PROVE "%%time" \notin Range(t) /\ "+" \notin Range(t)
  <2>1. PICK k \in DOMAIN config : t = config[k]
    BY DEF Range
  <2> QED BY <1>2, <2>1
<1> QED BY <1>1, <1>3

LEMMA TemplateType ==
    ASSUME NEW format \in Seq(Symbols), NEW done \in SUBSET LateTokens
    PROVE  PartsOf(Parts(format, done, Volatile, Expressed), format, Items)
<1>1. \A k \in done : Volatile[k] \in Seq(Items)
  <2>1. \A k \in done : Volatile[k] \in Seq(Loose)
    BY VolatileLoose
  <2> QED BY <2>1, LooseItems, SeqMonotonic
<1>2. Valued(Volatile, done, format, Items)
  BY <1>1 DEF Valued
<1>3. PICK embed : embed = Expressed /\ embed \in [Symbols -> Items]
  BY ExpressedType
<1> QED BY <1>2, <1>3, PartsType

(* The names are of the form that the expression says.                     *)
LEMMA TemplateFits == ASSUME Inputs, Plain, NEW t \in Times PROVE Fits(Template, NameAt(t))
<1>0. Settled
  BY DEF Plain
<1>1. PICK format, value, embed : /\ format = Fixed /\ value = Told(t) /\ format \in Seq(Symbols)
                                  /\ embed = Itself(Symbols)
  BY FixedTyped
<1>2. embed \in [Symbols -> Symbols] /\ \A s \in Symbols : embed[s] = s
  BY <1>1 DEF Itself
<1>3. PICK P, Q : P = Parts(format, LateTokens, value, embed) /\ Q = Parts(format, LateTokens, Volatile, Expressed)
  OBVIOUS
<1>4. P \in Seq(Seq(Symbols)) /\ Len(P) = Len(format)
  <2>1. Valued(value, LateTokens, format, Symbols)
    BY <1>1, ToldTyped DEF Valued, NameTokens, LateTokens
  <2>2. PartsOf(P, format, Symbols)
    BY <1>1, <1>2, <1>3, <2>1, PartsType
  <2> QED BY <2>2 DEF PartsOf
<1>5. Q \in Seq(Seq(Items)) /\ Len(Q) = Len(format)
  <2>1. PartsOf(Q, format, Items)
    BY <1>1, <1>3, TemplateType
  <2> QED BY <2>1 DEF PartsOf
<1>6. ASSUME NEW i \in 1 .. Len(P) PROVE Fits(Q[i], P[i])
  <2>1. i \in DOMAIN format /\ format[i] \in Symbols /\ format[i] \in Range(format)
    BY <1>1, <1>4, LenProperties, ElementOfSeq DEF Range
  <2>2. PICK k : k = format[i] /\ k \in Symbols /\ k \in Range(Fixed)
    BY <1>1, <2>1
  <2>3. CASE k \in LateTokens /\ FirstIn(format, i)
    <3>1. P[i] = value[k] /\ Q[i] = Volatile[k]
      BY <1>3, <2>1, <2>2, <2>3 DEF Parts
    <3>2. k # "%%time"
      BY <2>2, FixedPlain
    <3>3. Fits(Volatile[k], Told(t)[k])
      BY <1>0, <2>3, <3>2, VolatileFits
    <3> QED BY <1>1, <3>1, <3>3
  <2>4. CASE ~(k \in LateTokens /\ FirstIn(format, i))
    <3>1. P[i] = <<embed[k]>> /\ Q[i] = <<Expressed[k]>>
      BY <1>3, <2>1, <2>2, <2>4 DEF Parts
    <3>2. P[i] = <<k>> /\ Q[i] = <<Literal(k)>>
      BY <1>2, <2>2, <3>1, ExpressedType
    <3>3. Fits(<<Literal(k)>>, <<k>>)
      BY <2>2, LiteralFits
    <3> QED BY <3>2, <3>3
  <2> QED BY <2>3, <2>4
<1>7. Fits(FlattenSeq(Q), FlattenSeq(P))
  BY <1>4, <1>5, <1>6, FitsFlattened
<1>8. NameAt(t) = FlattenSeq(P)
  BY <1>1, <1>3, RenderedParts DEF NameAt, LateTokens
<1> QED BY <1>1, <1>3, <1>7, <1>8 DEF Template

(* Without signs, regex takes the items as they are.                       *)
LEMMA CompiledPlain == ASSUME NEW items \in Seq(Items) PROVE Compiled(items) = items
<1>1. PICK len \in Nat : len = Len(items) /\ DOMAIN items = 1 .. len
  BY LenProperties
<1>2. \A c : Sign(c) \notin Items
  BY DEF Sign, Item, Items
<1>3. ASSUME NEW i \in 1 .. len, NEW c PROVE items[i] # Sign(c) /\ items[i] \in Items
  <2>1. items[i] \in Items
    BY <1>1, ElementOfSeq
  <2> QED BY <1>2, <2>1
<1> DEFINE plain == [i \in DOMAIN items |-> IF items[i] = Sign(".") THEN Item(Characters, {1}) ELSE items[i]]
           parts == [i \in DOMAIN items |->
                        IF items[i] = Sign("+") THEN <<>>
                        ELSE IF i < Len(items) /\ items[i + 1] = Sign("+") THEN <<Repeated(plain[i])>> ELSE <<plain[i]>>]
<1>4. Compiled(items) = FlattenSeq(parts)
  BY Zenon DEF Compiled
<1>5. \A i \in 1 .. len : plain[i] = items[i]
  BY <1>1, <1>3
<1>6. \A i \in 1 .. len : parts[i] = <<items[i]>>
  <2> TAKE i \in 1 .. len
  <2>1. i < Len(items) => i + 1 \in 1 .. len
    BY <1>1
  <2>2. items[i] # Sign("+") /\ (i < Len(items) => items[i + 1] # Sign("+"))
    BY <1>3, <2>1
  <2> HIDE DEF plain
  <2> QED BY <1>1, <1>5, <2>2
<1>7. parts = [i \in 1 .. len |-> parts[i]]
  BY <1>1
<1> HIDE DEF parts
<1>8. parts \in [1 .. len -> Seq(Items)]
  <2>1. \A i \in 1 .. len : <<items[i]>> \in Seq(Items)
    BY <1>3
  <2> QED BY <1>6, <1>7, <2>1
<1>9. parts \in Seq(Seq(Items)) /\ Len(parts) = len
  <2>1. parts \in Seq(Seq(Items))
    BY <1>8, SeqDef
  <2> QED BY <1>7, <2>1, LenProperties
<1>10. Singles(parts, items)
  BY <1>1, <1>6, <1>9 DEF Singles
<1> QED BY <1>4, <1>9, <1>10, FlattenSingles

(* The expression is that of the format so far, in the last loop, and the  *)
(* last one that was made.                                                 *)
PatternInv ==
    Plain => /\ job = "volatile" => text = FlattenSeq(Parts(Fixed, LateTokens \ pending, Volatile, Expressed))
             /\ names # <<>> => pattern = Template

LEMMA SamePlain == ASSUME config' = config PROVE Plain' = Plain /\ Fixed' = Fixed /\ Template' = Template
<1>1. Settled' = Settled /\ Fixed' = Fixed
  BY SameConfig
<1> QED BY <1>1 DEF Plain, Template

(* What is escaped means itself, but for "+".                              *)
LEMMA PatternEscaped == ASSUME Inputs, MadeInv, PatternInv, Escape PROVE PatternInv'
<1>0. /\ job = "fixed" /\ pending = {} /\ text' = Escaped(text) /\ UNCHANGED <<config, names, pattern>>
      /\ job' = "volatile" /\ pending' = Keys("volatile")'
  BY DEF Escape, Loop
<1>1. Plain' = Plain /\ Fixed' = Fixed /\ Template' = Template
  BY <1>0, SamePlain
<1> SUFFICES ASSUME Plain
             PROVE  /\ text' = FlattenSeq(Parts(Fixed, LateTokens \ pending', Volatile, Expressed))
                    /\ names # <<>> => pattern = Template
  BY <1>0, <1>1 DEF PatternInv
<1>2. PICK format : format = Fixed /\ format \in Seq(Symbols)
  BY FixedTyped
<1>3. text = format
  <2>1. Settled /\ FixedTokens \ pending = FixedTokens /\ now \in Times
    BY <1>0 DEF Plain, Inputs
  <2>2. text = Rendered(config["format"], FixedTokens \ pending, Told(now))
    BY <1>0, <2>1 DEF MadeInv
  <2> QED BY <1>2, <2>1, <2>2, FixedAsTold
<1>4. Escaped(format) = Embedded(format, Expressed)
  <2>1. ASSUME NEW i \in DOMAIN format
        PROVE  format[i] \notin {".", "+"} \ Escapes /\ Expressed[format[i]] = Literal(format[i])
    <3>1. format[i] \in Range(format) /\ format[i] \in Symbols
      BY <1>2, LenProperties, ElementOfSeq DEF Range
    <3>2. format[i] # "+"
      BY <1>2, <3>1, FixedPlain
    <3>3. "." \in Escapes
      BY DEF Escapes
    <3> QED BY <3>1, <3>2, <3>3, ExpressedType
  <2> QED BY <2>1 DEF Escaped, Embedded
<1>5. PICK done : done = LateTokens \ pending'
  OBVIOUS
<1>6. Untouched(format, done)
  <2>1. Range(Fixed) \subseteq UNION {Range(t) : t \in Range(config)}
    BY FixedSymbols
  <2>2. Keys("volatile")' = LateTokens \cap UNION {Range(t) : t \in Range(config) \cup Range(Process)}
    BY <1>0 DEF Keys, KeysOf, LateTokens
  <2> QED BY <1>0, <1>2, <1>5, <2>1, <2>2 DEF Untouched
<1>7. FlattenSeq(Parts(format, done, Volatile, Expressed)) = Embedded(format, Expressed)
  <2>1. Embeds(Expressed, Symbols, Items)
    BY ExpressedType DEF Embeds
  <2> QED BY <1>2, <1>6, <2>1, PartsNone
<1> QED BY <1>0, <1>2, <1>3, <1>4, <1>5, <1>7 DEF PatternInv

LEMMA PatternReplaced == ASSUME Inputs, PatternInv, Replace PROVE PatternInv'
<1>0. UNCHANGED <<job, config, names, pattern>>
  BY DEF Replace
<1>1. Plain' = Plain /\ Fixed' = Fixed /\ Template' = Template
  BY <1>0, SamePlain
<1> SUFFICES ASSUME Plain, job = "volatile"
             PROVE  text' = FlattenSeq(Parts(Fixed, LateTokens \ pending', Volatile, Expressed))
  BY <1>0, <1>1 DEF PatternInv
<1>2. PICK key \in pending : /\ text' = Replaced(text, IF job = "volatile" THEN Literal(key) ELSE key, Values[key])
                             /\ pending' = pending \ {key}
  BY DEF Replace
<1>3. key \in LateTokens
  BY <1>2 DEF Inputs, KeysOf, LateTokens
<1>4. text' = Replaced(text, Literal(key), Volatile[key])
  <2>1. Values = Volatile
    BY DEF Values
  <2> QED BY <1>2, <2>1
<1>5. PICK format, embed, done, value : /\ format = Fixed /\ embed = Expressed /\ done = LateTokens \ pending
                                        /\ value = Volatile /\ format \in Seq(Symbols)
  BY FixedTyped
<1>6. embed \in [Symbols -> Items] /\ Injective(embed, Symbols) /\ embed[key] = Literal(key) /\ key \in Symbols
  <2>1. key \in Symbols
    BY <1>3 DEF LateTokens, Symbols, Tokens
  <2> QED BY <1>5, <2>1, ExpressedType
<1>7. \A k \in LateTokens : value[k] \in Seq(Loose) /\ value[k] \in Seq(Items)
  <2>1. \A k \in LateTokens : value[k] \in Seq(Loose)
    BY <1>5, VolatileLoose
  <2> QED BY <2>1, LooseItems, SeqMonotonic
<1>8. Valued(value, done \cup {key}, format, Items)
  BY <1>3, <1>5, <1>7 DEF Valued
<1>9. Clear(format, done, value, embed[key], key)
  <2>1. ASSUME NEW k \in LateTokens PROVE embed[key] \notin Range(value[k])
    <3>1. Range(value[k]) \subseteq Loose
      BY <1>7, RangeOfSeq
    <3>2. key \in Tokens
      BY <1>3 DEF LateTokens, Tokens
    <3> QED BY <1>6, <3>1, <3>2, LooseItems
  <2> QED BY <1>5, <2>1 DEF Clear
<1>10. key \notin done /\ format \in Seq(Symbols)
  BY <1>5
<1>11. embed \in [Symbols -> Items] /\ Injective(embed, Symbols) /\ key \in Symbols
  BY <1>6
<1>12. Replaced(FlattenSeq(Parts(format, done, value, embed)), embed[key], value[key])
           = FlattenSeq(Parts(format, done \cup {key}, value, embed))
  BY <1>8, <1>9, <1>10, <1>11, PartsReplaced
<1>13. text = FlattenSeq(Parts(format, done, value, embed))
  BY <1>5 DEF PatternInv
<1>14. done \cup {key} = LateTokens \ pending'
  BY <1>2, <1>3, <1>5
<1> QED BY <1>4, <1>5, <1>6, <1>12, <1>13, <1>14

LEMMA PatternAssigned == ASSUME Inputs, PatternInv, Assign PROVE PatternInv'
<1>0. /\ job = "volatile" /\ pending = {} /\ pattern' = Compiled(text) /\ config' = config /\ job' = "idle"
  BY DEF Assign, Loop
<1>1. Plain' = Plain /\ Fixed' = Fixed /\ Template' = Template
  BY <1>0, SamePlain
<1> SUFFICES ASSUME Plain PROVE pattern' = Template
  BY <1>0, <1>1 DEF PatternInv
<1>2. text = Template
  <2>1. LateTokens \ pending = LateTokens
    BY <1>0
  <2> QED BY <1>0, <2>1 DEF PatternInv, Template
<1>3. Template \in Seq(Items)
  <2>1. PartsOf(Parts(Fixed, LateTokens, Volatile, Expressed), Fixed, Items)
    BY FixedTyped, TemplateType
  <2> QED BY <2>1, FlattenType DEF PartsOf, Template
<1> QED BY <1>0, <1>2, <1>3, CompiledPlain

LEMMA PatternInvNext == ASSUME Inputs, MadeInv, PatternInv, [Next]_vars PROVE PatternInv'
<1>1. CASE Escape
  BY <1>1, PatternEscaped
<1>2. CASE Replace
  BY <1>2, PatternReplaced
<1>3. CASE Assign
  BY <1>3, PatternAssigned
<1>4. CASE Format_log_message \/ Formatted \/ Format_time \/ Update_filename \/ Get_regex_pattern \/ Throw
  <2>1. job' # "volatile" /\ UNCHANGED <<config, names, pattern>>
    BY <1>4 DEF Format_log_message, Formatted, Format_time, Update_filename, Get_regex_pattern, Throw, Loop
  <2>2. Plain' = Plain /\ Template' = Template
    BY <2>1, SamePlain
  <2> QED BY <2>1, <2>2 DEF PatternInv
<1>5. CASE UNCHANGED vars
  <2>1. UNCHANGED <<job, text, pending, config, names, pattern>>
    BY <1>5 DEF vars
  <2>2. Plain' = Plain /\ Fixed' = Fixed /\ Template' = Template
    BY <2>1, SamePlain
  <2> QED BY <2>1, <2>2 DEF PatternInv
<1> QED BY <1>1, <1>2, <1>3, <1>4, <1>5 DEF Next

LEMMA PatternInvariant == Spec => []PatternInv
<1>1. Init => PatternInv
  BY DEF Init, PatternInv
<1>2. Inputs /\ MadeInv /\ PatternInv /\ [Next]_vars => PatternInv'
  BY PatternInvNext
<1> QED BY <1>1, <1>2, InputsInvariant, MadeInvariant, PTL DEF Spec

(* Each name of a file is one of the configured format.                    *)
LEMMA NamesFit ==
    ASSUME Inputs, NamesInv, PatternInv, Plain, NEW i \in DOMAIN names
    PROVE  Fits(pattern, names[i])
<1>1. Settled
  BY DEF Plain
<1>2. names \in Seq(Seq(Symbols)) /\ \E times : Dated(times)
  BY <1>1 DEF NamesInv
<1>3. PICK times : Dated(times)
  BY <1>2
<1>4. i \in 1 .. Len(names) /\ names # <<>>
  BY <1>2, LenProperties, EmptySeq
<1>5. PICK t : t = times[i] /\ t \in Times /\ names[i] = NameAt(t)
  BY <1>3, <1>4, ElementOfSeq DEF Dated
<1>6. pattern = Template
  BY <1>4 DEF PatternInv
<1> QED BY <1>5, <1>6, TemplateFits

(* The purge (Delete_regex_older_than_cpp) knows every file that the       *)
(* target has ever written to, by the expression that                      *)
(* FileTarget::Get_regex_pattern_for_log_files has made.                   *)
THEOREM OwnFilesKnown == Spec => []OwnFilesMatch
<1>1. Inputs /\ NamesInv /\ PatternInv => OwnFilesMatch
  <2> SUFFICES ASSUME Inputs, NamesInv, PatternInv, Plain, NEW i \in DOMAIN names
               PROVE  Matches(pattern, names[i])
    BY DEF OwnFilesMatch
  <2> QED BY NamesFit, FitsMatches
<1> QED BY <1>1, InputsInvariant, NamesInvariant, PatternInvariant, PTL

-----------------------------------------------------------------------------
(* What else matches.                                                      *)

ShapeOf(s) == IF s \in Range(Digit) THEN "0" ELSE IF s \in Range(Months) THEN "Jan" ELSE s

(* An item that takes so many symbols, all of one shape.                   *)
Sharp == {item \in Items : /\ \E w \in Nat : item.widths = {w}
                           /\ \A s, t \in item.of : ShapeOf(s) = ShapeOf(t)}

(* The two texts are of the same shape so far.                             *)
Alike(p, r, e) == \A k \in 1 .. e : ShapeOf(p[k]) = ShapeOf(r[k])

(* The only place that the items may end at, in both texts.                *)
EndsAlike(f, g, p, r, e) == f \subseteq {e} /\ g \subseteq {e} /\ (f # {} /\ g # {} => Alike(p, r, e))

LEMMA FurtherAlike ==
    ASSUME NEW item \in Sharp, NEW p, NEW r, NEW e \in Nat, NEW f, NEW g, EndsAlike(f, g, p, r, e)
    PROVE  \E d \in Nat : EndsAlike(Further(item, p, f), Further(item, r, g), p, r, d)
<1>1. PICK w \in Nat : item.widths = {w}
  BY DEF Sharp
<1>2. \A s, t \in item.of : ShapeOf(s) = ShapeOf(t)
  BY DEF Sharp
<1>3. f \subseteq {e} /\ g \subseteq {e} /\ (f # {} /\ g # {} => Alike(p, r, e))
  BY DEF EndsAlike
<1>4. ASSUME NEW x, NEW from, from \subseteq {e}, NEW a \in Further(item, x, from)
      PROVE  from # {} /\ a = e + w /\ \A k \in (e + 1) .. (e + w) : x[k] \in item.of
  <2>1. PICK b \in from : a \in {b + v : v \in {v \in item.widths :
                              b + v <= Len(x) /\ \A k \in (b + 1) .. (b + v) : x[k] \in item.of}}
    BY DEF Further
  <2>2. b = e
    BY <1>4
  <2>3. PICK v \in item.widths : a = e + v /\ \A k \in (e + 1) .. (e + v) : x[k] \in item.of
    BY <2>1, <2>2
  <2>4. v = w
    BY <1>1
  <2> QED BY <2>1, <2>3, <2>4
<1>5. PICK d \in Nat : d = e + w
  OBVIOUS
<1>6. Further(item, p, f) \subseteq {d} /\ Further(item, r, g) \subseteq {d}
  BY <1>3, <1>4, <1>5
<1>7. ASSUME Further(item, p, f) # {}, Further(item, r, g) # {} PROVE Alike(p, r, d)
  <2>1. f # {} /\ \A k \in (e + 1) .. (e + w) : p[k] \in item.of
    BY <1>3, <1>4, <1>7
  <2>2. g # {} /\ \A k \in (e + 1) .. (e + w) : r[k] \in item.of
    BY <1>3, <1>4, <1>7
  <2>3. \A k \in 1 .. e : ShapeOf(p[k]) = ShapeOf(r[k])
    BY <1>3, <2>1, <2>2 DEF Alike
  <2>4. \A k \in (e + 1) .. (e + w) : ShapeOf(p[k]) = ShapeOf(r[k])
    BY <1>2, <2>1, <2>2
  <2>5. \A k \in 1 .. (e + w) : k \in 1 .. e \/ k \in (e + 1) .. (e + w)
    OBVIOUS
  <2>6. \A k \in 1 .. (e + w) : ShapeOf(p[k]) = ShapeOf(r[k])
    BY <2>3, <2>4, <2>5
  <2> QED BY <1>5, <2>6 DEF Alike
<1> QED BY <1>6, <1>7 DEF EndsAlike

(* Two texts that match such items are of the same shape.                  *)
LEMMA SharpMatches ==
    ASSUME NEW q \in Seq(Sharp), NEW p, NEW r, Matches(q, p), Matches(q, r)
    PROVE  Len(p) = Len(r) /\ Alike(p, r, Len(p))
<1>1. PICK len \in Nat : len = Len(q)
  BY LenProperties
<1>2. PICK f : EndsOf(f, q, p)
  BY <1>1, EndsExist
<1>3. PICK g : EndsOf(g, q, r)
  BY <1>1, EndsExist
<1> DEFINE S == {n \in 0 .. len : \E e \in Nat : EndsAlike(f[n], g[n], p, r, e)}
<1>4. 0 \in S /\ S \in SUBSET Nat
  <2>1. f[0] = {0} /\ g[0] = {0} /\ Alike(p, r, 0)
    BY <1>2, <1>3 DEF EndsOf, Alike
  <2>2. EndsAlike(f[0], g[0], p, r, 0)
    BY <2>1 DEF EndsAlike
  <2> QED BY <1>1, <2>2
<1>5. ASSUME NEW n \in S, n < len PROVE n + 1 \in S
  <2>1. n \in 0 .. len /\ n + 1 \in 0 .. len /\ n + 1 \in 1 .. len /\ (n + 1) - 1 = n
    BY <1>1, <1>5
  <2>2. PICK e \in Nat : EndsAlike(f[n], g[n], p, r, e)
    OBVIOUS
  <2>3. PICK item \in Sharp : item = q[n + 1]
    BY <1>1, <2>1, ElementOfSeq
  <2>4. f[n + 1] = Further(item, p, f[n]) /\ g[n + 1] = Further(item, r, g[n])
    BY <1>1, <1>2, <1>3, <2>1, <2>3 DEF EndsOf
  <2>5. \E d \in Nat : EndsAlike(f[n + 1], g[n + 1], p, r, d)
    BY <2>2, <2>4, FurtherAlike
  <2> QED BY <2>1, <2>5
<1>6. 0 .. len \subseteq S
  <2> HIDE DEF S
  <2> QED BY <1>1, <1>4, <1>5, InductionUpTo
<1>7. PICK e \in Nat : EndsAlike(f[len], g[len], p, r, e)
  <2>1. len \in 0 .. len
    OBVIOUS
  <2> QED BY <1>6, <2>1
<1>8. Len(p) \in f[len] /\ Len(r) \in g[len]
  BY <1>1, <1>2, <1>3 DEF EndsOf
<1> QED BY <1>7, <1>8 DEF EndsAlike

LEMMA ShapeAlike ==
    ASSUME NEW p \in Seq(Symbols), NEW r \in Seq(Symbols), Len(p) = Len(r), Alike(p, r, Len(p))
    PROVE  Shape(p) = Shape(r)
<1>1. DOMAIN p = 1 .. Len(p) /\ DOMAIN r = 1 .. Len(p)
  BY LenProperties
<1>2. Shape(p) = [k \in 1 .. Len(p) |-> ShapeOf(p[k])] /\ Shape(r) = [k \in 1 .. Len(p) |-> ShapeOf(r[k])]
  BY <1>1, Zenon DEF Shape, ShapeOf
<1> QED BY <1>2 DEF Alike

(* The items of a time are all of this kind, but for "%%time".             *)
LEMMA LiteralSharp == ASSUME NEW s \in Symbols PROVE Literal(s) \in Sharp
<1>1. Literal(s) \in Items /\ Literal(s).of = {s} /\ Literal(s).widths = {1}
  BY ExpressedType
<1> QED BY <1>1 DEF Sharp

LEMMA VolatileSharp == ASSUME NEW k \in TimeTokens, k # "%%time" PROVE Volatile[k] \in Seq(Sharp)
<1>1. {"-", ":", " "} \subseteq Symbols /\ Range(Digit) \subseteq Symbols /\ Range(Months) \subseteq Symbols
  BY CharactersAssumption DEF Glyphs, Symbols
<1>2. Literal("-") \in Sharp /\ Literal(":") \in Sharp /\ Literal(" ") \in Sharp
  <2>1. \A c \in {"-", ":", " "} : c \in Symbols => Literal(c) \in Sharp
    BY LiteralSharp
  <2> QED BY <1>1, <2>1
<1>3. ASSUME NEW w \in Nat PROVE Digits(w) \in Sharp
  <2>1. Digits(w).of = Range(Digit) /\ Digits(w).widths = {w} /\ Digits(w) \in Items
    BY <1>1 DEF Digits, Item, Items
  <2>2. \A s \in Range(Digit) : ShapeOf(s) = "0"
    BY DEF ShapeOf
  <2> QED BY <2>1, <2>2 DEF Sharp
<1>4. Digits(2) \in Sharp /\ Digits(3) \in Sharp /\ Digits(4) \in Sharp
  BY <1>3
<1>5. PICK item : item = Item(Range(Months), {1})
  OBVIOUS
<1>6. item \in Sharp
  <2>1. item.of = Range(Months) /\ item.widths = {1} /\ item \in Items
    <3>1. PICK months \in SUBSET Symbols : months = Range(Months)
      BY <1>1
    <3>2. item = [of |-> months, widths |-> {1}]
      BY <1>5, <3>1 DEF Item
    <3>3. {1} \in (SUBSET Nat) \ {{}}
      OBVIOUS
    <3> QED BY <3>1, <3>2, <3>3 DEF Items
  <2>2. Range(Months) \cap Range(Digit) = {}
    <3>1. Range(Digit) = {"0", "1", "2", "3", "4", "5", "6", "7", "8", "9"}
      BY DEF Digit, Range
    <3>2. Range(Months) = {"Jan", "Feb", "Mar", "Apr", "May", "Jun", "Jul", "Aug", "Sep", "Oct", "Nov", "Dec"}
      BY DEF Months, Range
    <3> QED BY <3>1, <3>2
  <2>3. \A s \in Range(Months) : ShapeOf(s) = "Jan"
    BY <2>2 DEF ShapeOf
  <2> QED BY <2>1, <2>3 DEF Sharp
<1>7. /\ Volatile["%%datatime"] \in Seq(Sharp) /\ Volatile["%%date"] \in Seq(Sharp)
      /\ \A n \in NumberTokens : Volatile[n] \in Seq(Sharp)
  BY <1>2, <1>4, VolatileMadeOf
<1>8. Volatile["%%monstr"] \in Seq(Sharp)
  <2>1. <<item>> \in Seq(Sharp)
    BY <1>6, SingleType
  <2> QED BY <1>5, <2>1, VolatileIs
<1>9. k \in {"%%datatime", "%%date", "%%monstr"} \cup NumberTokens
  BY DEF TimeTokens, NumberTokens
<1> QED BY <1>7, <1>8, <1>9

LEMMA TemplateSharp ==
    ASSUME Inputs, Plain, Range(config["format"]) \cap ProcessTokens = {}
    PROVE  Template \in Seq(Sharp)
<1>1. PICK format, embed, value : /\ format = Fixed /\ embed = Expressed /\ value = Volatile
                                  /\ format \in Seq(Symbols)
  BY FixedTyped
<1>2. embed \in [Symbols -> Sharp]
  BY <1>1, LiteralSharp DEF Expressed
<1>3. ASSUME NEW k \in LateTokens \cap Range(format) PROVE value[k] \in Seq(Sharp)
  <2>1. PICK t \in Range(config) : k \in Range(t)
    BY <1>1, FixedSymbols
  <2>2. PICK j \in FixedTokens \cup {"format"} : t = config[j]
    BY <2>1, ConfigsAssumption DEF Inputs, Range
  <2>3. k \notin ProcessTokens
    BY <2>1, <2>2 DEF Plain, Settled
  <2>4. k # "%%time"
    BY <1>1, FixedPlain
  <2> QED BY <1>1, <2>3, <2>4, VolatileSharp DEF LateTokens
<1>4. Valued(value, LateTokens, format, Sharp)
  BY <1>3 DEF Valued
<1>5. PartsOf(Parts(format, LateTokens, value, embed), format, Sharp)
  <2>1. format \in Seq(Symbols)
    BY <1>1
  <2> QED BY <1>2, <1>4, <2>1, PartsType
<1>6. FlattenSeq(Parts(format, LateTokens, value, embed)) \in Seq(Sharp)
  BY <1>5, FlattenType DEF PartsOf
<1> QED BY <1>1, <1>6 DEF Template

LEMMA NeighboursType == ASSUME NEW p \in Seq(Symbols), NEW n \in Neighbours(p) PROVE n \in Seq(Symbols)
<1>1. PICK i \in DOMAIN p :
          n \in {SubSeq(p, 1, i - 1) \o middle \o SubSeq(p, i + 1, Len(p)) :
                    middle \in {<<>>} \cup {<<c>> : c \in Characters} \cup {<<p[i], c>> : c \in Characters}}
  BY DEF Neighbours
<1>2. PICK middle \in {<<>>} \cup {<<c>> : c \in Characters} \cup {<<p[i], c>> : c \in Characters} :
          n = SubSeq(p, 1, i - 1) \o middle \o SubSeq(p, i + 1, Len(p))
  BY <1>1
<1>3. i \in 1 .. Len(p) /\ Len(p) \in Nat /\ p[i] \in Symbols /\ \A j \in 1 .. Len(p) : p[j] \in Symbols
  BY LenProperties, ElementOfSeq
<1>4. middle \in Seq(Symbols)
  <2>1. \A c \in Characters : c \in Symbols
    BY DEF Symbols
  <2>2. ASSUME NEW c \in Symbols, NEW e \in Symbols PROVE <<c>> \in Seq(Symbols) /\ <<e, c>> \in Seq(Symbols)
    OBVIOUS
  <2>3. CASE middle = <<>>
    BY <2>3, EmptySeq
  <2>4. CASE middle \in {<<c>> : c \in Characters}
    BY <2>1, <2>2, <2>4
  <2>5. CASE middle \in {<<p[i], c>> : c \in Characters}
    BY <1>3, <2>1, <2>2, <2>5
  <2> QED BY <2>3, <2>4, <2>5
<1>5. SubSeq(p, 1, i - 1) \in Seq(Symbols) /\ SubSeq(p, i + 1, Len(p)) \in Seq(Symbols)
  <2>1. \A j \in 1 .. (i - 1) : p[j] \in Symbols
    BY <1>3
  <2>2. \A j \in (i + 1) .. Len(p) : p[j] \in Symbols
    BY <1>3
  <2>3. i - 1 \in Int /\ i + 1 \in Int /\ Len(p) \in Int
    BY <1>3
  <2> QED BY <2>1, <2>2, <2>3, SubSeqProperties
<1>6. \A s, t \in Seq(Symbols) : s \o t \in Seq(Symbols)
  BY ConcatProperties
<1> QED BY <1>2, <1>4, <1>5, <1>6

(* The purge (Delete_regex_older_than_cpp) takes no file for one of the    *)
(* target's whose name is different from the current one's in more than    *)
(* the digits of its fields.                                               *)
THEOREM OtherFilesUnknown == Spec => []OnlyOwnFilesMatch
<1>1. Inputs /\ NamesInv /\ PatternInv => OnlyOwnFilesMatch
  <2> SUFFICES ASSUME Inputs, NamesInv, PatternInv, names # <<>>, Plain, Range(config["format"]) \cap ProcessTokens = {},
                      NEW n \in Neighbours(Last(names)), Matches(pattern, n)
               PROVE  Shape(n) = Shape(Last(names))
    BY DEF OnlyOwnFilesMatch
  <2>1. PICK last : last = Last(names)
    OBVIOUS
  <2>2. Fits(pattern, last)
    <3>1. names \in Seq(Seq(Symbols))
      BY DEF NamesInv, Plain
    <3>2. Len(names) \in DOMAIN names
      BY <3>1, LenProperties, EmptySeq
    <3> QED BY <2>1, <3>2, NamesFit DEF Last
  <2>3. last \in Seq(Symbols) /\ Matches(pattern, last)
    BY <2>2, FitsMatches DEF Fits
  <2>4. n \in Seq(Symbols)
    BY <2>1, <2>3, NeighboursType
  <2>5. pattern \in Seq(Sharp)
    BY TemplateSharp DEF PatternInv
  <2>6. Len(n) = Len(last) /\ Alike(n, last, Len(n))
    BY <2>3, <2>5, SharpMatches
  <2> QED BY <2>1, <2>3, <2>4, <2>6, ShapeAlike
<1> QED BY <1>1, InputsInvariant, NamesInvariant, PatternInvariant, PTL

=============================================================================
