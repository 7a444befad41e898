----------------------------- MODULE Lists_proofs -----------------------------
(* Lemmas that the proofs of several modules rest on: induction over numbers, *)
(* which is derived from their order being well-founded, and what becomes of  *)
(* a sequence of pieces when it is flattened.                                *)
EXTENDS Naturals, Sequences, SequencesExt, SequenceTheorems, NaturalsInduction,
        WellFoundedInduction, TLAPS

LEMMA LeastNumber ==
    ASSUME NEW S, S \subseteq Nat, S # {}
    PROVE  \E m \in S : \A k \in S : m <= k
<1>1. PICK m \in S : \A k \in S : ~(<<k, m>> \in OpToRel(<, Nat))
  BY NatLessThanWellFounded, WFMin
<1>2. \A k \in S : ~(k < m)
  BY <1>1 DEF OpToRel
<1> QED
  BY <1>2

LEMMA Counting ==
    ASSUME NEW S, 0 \in S, \A n \in Nat : n \in S => n + 1 \in S
    PROVE  Nat \subseteq S
<1>1. CASE Nat \ S = {}
  BY <1>1
<1>2. CASE Nat \ S # {}
  <2>1. PICK m \in Nat \ S : \A k \in Nat \ S : m <= k
    BY <1>2, LeastNumber
  <2>2. m # 0 /\ m - 1 \in Nat /\ (m - 1) + 1 = m
    BY <2>1
  <2>3. m - 1 \in S
    BY <2>1, <2>2
  <2> QED
    BY <2>1, <2>2, <2>3
<1> QED
  BY <1>1, <1>2

(* f has what the first k pieces of s make together.                         *)
Gathers(f, s, n) ==
    f = [k \in 1..n |-> IF k = 1 THEN s[k] ELSE f[k - 1] \o s[k]]

LEMMA SomethingGathers ==
    ASSUME NEW s, NEW n \in Nat
    PROVE  \E f : Gathers(f, s, n)
<1> DEFINE S == {m \in Nat : \E f : Gathers(f, s, m)}
<1>1. 0 \in S
  <2>1. Gathers([k \in 1..0 |-> <<>>], s, 0)
    BY DEF Gathers
  <2> QED
    BY <2>1
<1>2. ASSUME NEW m \in Nat, m \in S
      PROVE  m + 1 \in S
  <2>1. PICK f : Gathers(f, s, m)
    BY <1>2
  <2> DEFINE g == [k \in 1..(m + 1) |->
                     IF k <= m THEN f[k]
                     ELSE IF k = 1 THEN s[k] ELSE f[k - 1] \o s[k]]
  <2>2. \A k \in 1..m : f[k] = IF k = 1 THEN s[k] ELSE f[k - 1] \o s[k]
    BY <2>1 DEF Gathers
  <2>3. ASSUME NEW k \in 1..(m + 1)
        PROVE  g[k] = IF k = 1 THEN s[k] ELSE g[k - 1] \o s[k]
    <3>1. CASE k = 1
      BY <2>2, <3>1
    <3>2. CASE k # 1
      <4>1. k - 1 \in 1..(m + 1) /\ k - 1 <= m
        BY <3>2
      <4>2. g[k - 1] = f[k - 1]
        BY <4>1
      <4>3. CASE k <= m
        <5>1. k \in 1..m /\ g[k] = f[k]
          BY <4>3
        <5> QED
          BY <2>2, <3>2, <4>2, <5>1
      <4>4. CASE ~(k <= m)
        <5>1. g[k] = f[k - 1] \o s[k]
          BY <3>2, <4>4
        <5> QED
          BY <3>2, <4>2, <5>1
      <4> QED
        BY <4>3, <4>4
    <3> QED
      BY <3>1, <3>2
  <2>4. Gathers(g, s, m + 1)
    BY <2>3 DEF Gathers
  <2> QED
    BY <2>4
<1>3. Nat \subseteq S
  BY <1>1, <1>2, Counting
<1> QED
  BY <1>3

(* What a sequence of pieces makes, piece by piece.                          *)
LEMMA Flattened ==
    ASSUME NEW X, NEW s \in Seq(Seq(X))
    PROVE  \E f : /\ f[0] = <<>>
                  /\ \A k \in 1..Len(s) : f[k] = f[k - 1] \o s[k]
                  /\ \A k \in 0..Len(s) : f[k] \in Seq(X)
                  /\ FlattenSeq(s) = f[Len(s)]
<1>0. Len(s) \in Nat /\ \A k \in 1..Len(s) : s[k] \in Seq(X)
  OBVIOUS
<1>1. PICK n : n = Len(s)
  OBVIOUS
<1>2. PICK g : Gathers(g, s, n) /\ (n > 0 => FlattenSeq(s) = g[n])
  <2>1. CASE n = 0
    <3>1. PICK g : Gathers(g, s, n)
      BY <1>0, <1>1, SomethingGathers
    <3>2. ~(n > 0)
      BY <2>1
    <3> QED
      BY <3>1, <3>2
  <2>2. CASE n > 0
    <3>1. FlattenSeq(s) = (CHOOSE f : Gathers(f, s, n))[n]
      BY <1>0, <1>1, <2>2 DEF FlattenSeq, Gathers
    <3> QED
      BY <1>0, <1>1, <3>1, SomethingGathers
  <2> QED
    BY <1>0, <1>1, <2>1, <2>2
<1> DEFINE f == [k \in 0..n |-> IF k = 0 THEN <<>> ELSE g[k]]
<1>3. \A k \in 1..n : g[k] = IF k = 1 THEN s[k] ELSE g[k - 1] \o s[k]
  BY <1>2 DEF Gathers
<1>4. f[0] = <<>>
  BY <1>0, <1>1
<1>5. ASSUME NEW k \in 1..n
      PROVE  f[k] = f[k - 1] \o s[k]
  <2>1. f[k] = g[k]
    BY <1>5
  <2>2. CASE k = 1
    <3>1. f[k - 1] = <<>> /\ s[k] \in Seq(X)
      BY <1>0, <1>1, <2>2
    <3>2. <<>> \o s[k] = s[k]
      BY <3>1, ConcatEmptySeq
    <3> QED
      BY <1>3, <2>1, <2>2, <3>1, <3>2
  <2>3. CASE k # 1
    <3>1. f[k - 1] = g[k - 1]
      BY <1>0, <1>1, <2>3
    <3> QED
      BY <1>3, <2>1, <2>3, <3>1
  <2> QED
    BY <2>2, <2>3
<1> HIDE DEF f
<1>6. \A k \in 0..n : f[k] \in Seq(X)
  <2> DEFINE S == {m \in Nat : m <= n => f[m] \in Seq(X)}
  <2>1. 0 \in S
    <3>1. f[0] \in Seq(X)
      BY <1>4, EmptySeq
    <3> QED
      BY <3>1
  <2>2. ASSUME NEW m \in Nat, m \in S
        PROVE  m + 1 \in S
    <3> SUFFICES ASSUME m + 1 <= n
                 PROVE  f[m + 1] \in Seq(X)
      OBVIOUS
    <3>1. m + 1 \in 1..n /\ (m + 1) - 1 = m /\ m <= n
      BY <1>0, <1>1
    <3>2. f[m + 1] = f[m] \o s[m + 1] /\ f[m] \in Seq(X) /\ s[m + 1] \in Seq(X)
      BY <1>0, <1>1, <1>5, <2>2, <3>1
    <3> QED
      BY <3>2
  <2>3. Nat \subseteq S
    BY <2>1, <2>2, Counting
  <2> QED
    BY <1>0, <1>1, <2>3
<1>7. FlattenSeq(s) = f[n]
  <2>1. CASE n = 0
    <3>1. s = <<>>
      BY <1>1, <2>1, EmptySeq
    <3>2. FlattenSeq(s) = s
      BY <1>1, <2>1 DEF FlattenSeq
    <3> QED
      BY <1>4, <2>1, <3>1, <3>2
  <2>2. CASE n > 0
    <3>1. f[n] = g[n]
      BY <1>0, <1>1, <2>2 DEF f
    <3> QED
      BY <1>2, <2>2, <3>1
  <2> QED
    BY <1>0, <1>1, <2>1, <2>2
<1> QED
  BY <1>1, <1>4, <1>5, <1>6, <1>7

LEMMA FlatText ==
    ASSUME NEW X, NEW s \in Seq(Seq(X))
    PROVE  FlattenSeq(s) \in Seq(X)
<1>1. Len(s) \in 0..Len(s)
  OBVIOUS
<1> QED
  BY <1>1, Flattened

LEMMA FlatNothing == FlattenSeq(<<>>) = <<>>
  BY DEF FlattenSeq

(* One piece more.                                                           *)
LEMMA FlatAppend ==
    ASSUME NEW X, NEW s \in Seq(Seq(X)), NEW x \in Seq(X)
    PROVE  FlattenSeq(Append(s, x)) = FlattenSeq(s) \o x
<1>1. PICK t \in Seq(Seq(X)) : t = Append(s, x)
  BY AppendProperties
<1>2. PICK n \in Nat : n = Len(s)
  OBVIOUS
<1>3. /\ Len(t) = n + 1 /\ t[n + 1] = x
      /\ \A k \in 1..n : t[k] = s[k]
  BY <1>1, <1>2, AppendProperties
<1>4. PICK f : /\ f[0] = <<>>
               /\ \A k \in 1..n : f[k] = f[k - 1] \o s[k]
               /\ FlattenSeq(s) = f[n]
  BY <1>2, Flattened
<1>5. PICK g : /\ g[0] = <<>>
               /\ \A k \in 1..(n + 1) : g[k] = g[k - 1] \o t[k]
               /\ FlattenSeq(t) = g[n + 1]
  <2>1. PICK g : /\ g[0] = <<>>
                 /\ \A k \in 1..Len(t) : g[k] = g[k - 1] \o t[k]
                 /\ FlattenSeq(t) = g[Len(t)]
    BY <1>1, Flattened
  <2> QED
    BY <1>3, <2>1
<1> DEFINE S == {k \in Nat : k <= n => f[k] = g[k]}
<1>6. 0 \in S
  BY <1>4, <1>5
<1>7. ASSUME NEW k \in Nat, k \in S
      PROVE  k + 1 \in S
  <2> SUFFICES ASSUME k + 1 <= n
               PROVE  f[k + 1] = g[k + 1]
    OBVIOUS
  <2>1. k + 1 \in 1..n /\ k + 1 \in 1..(n + 1) /\ (k + 1) - 1 = k /\ k <= n
    BY <1>2
  <2>2. f[k] = g[k] /\ t[k + 1] = s[k + 1]
    BY <1>3, <1>7, <2>1
  <2> QED
    BY <1>4, <1>5, <2>1, <2>2
<1>8. Nat \subseteq S
  BY <1>6, <1>7, Counting
<1>9. f[n] = g[n]
  <2>1. n \in S /\ n <= n
    BY <1>2, <1>8
  <2> QED
    BY <2>1
<1>10. g[n + 1] = g[n] \o t[n + 1]
  <2>1. n + 1 \in 1..(n + 1) /\ (n + 1) - 1 = n
    BY <1>2
  <2> QED
    BY <1>5, <2>1
<1> QED
  BY <1>1, <1>3, <1>4, <1>5, <1>9, <1>10

(* The pieces up to the m-th.                                                *)
LEMMA FlatPiece ==
    ASSUME NEW X, NEW s \in Seq(Seq(X)), NEW m \in 1..Len(s)
    PROVE  /\ SubSeq(s, 1, m) \in Seq(Seq(X)) /\ SubSeq(s, 1, m - 1) \in Seq(Seq(X))
           /\ SubSeq(s, 1, m) = Append(SubSeq(s, 1, m - 1), s[m])
           /\ FlattenSeq(SubSeq(s, 1, m)) = FlattenSeq(SubSeq(s, 1, m - 1)) \o s[m]
<1>1. /\ s[m] \in Seq(X) /\ 1 \in 1..Len(s) /\ m \in 1..Len(s) /\ Len(s) \in Nat
      /\ m - 1 \in Nat /\ m - 1 <= Len(s)
  OBVIOUS
<1>2. SubSeq(s, 1, m - 1) \in Seq(Seq(X)) /\ SubSeq(s, 1, m) \in Seq(Seq(X))
  <2>1. \A k \in 1..(m - 1) : s[k] \in Seq(X)
    BY <1>1
  <2>2. \A k \in 1..m : s[k] \in Seq(X)
    BY <1>1
  <2>3. 1 \in Int /\ m - 1 \in Int /\ m \in Int
    BY <1>1
  <2> QED
    BY <2>1, <2>2, <2>3, SubSeqProperties
<1>3. SubSeq(s, 1, m) = SubSeq(s, 1, m - 1) \o <<s[m]>>
  BY <1>1, SubSeqRecursiveSecond
<1>4. SubSeq(s, 1, m) = Append(SubSeq(s, 1, m - 1), s[m])
  BY <1>1, <1>2, <1>3, AppendIsConcat
<1> QED
  BY <1>1, <1>2, <1>4, FlatAppend

(* Joining three texts, as a fact to be named rather than rewritten with.     *)
Grouped(x, y, z) == (x \o y) \o z = x \o (y \o z)

LEMMA Grouping ==
    ASSUME NEW T, NEW x \in Seq(T), NEW y \in Seq(T), NEW z \in Seq(T)
    PROVE  Grouped(x, y, z)
  BY ConcatAssociative DEF Grouped

LEMMA FlatJoined ==
    ASSUME NEW X, NEW s \in Seq(Seq(X)), NEW t \in Seq(Seq(X))
    PROVE  FlattenSeq(s \o t) = FlattenSeq(s) \o FlattenSeq(t)
<1>1. PICK n \in Nat : n = Len(t)
  OBVIOUS
<1> DEFINE First(k) == SubSeq(t, 1, k)
           S == {k \in Nat : k <= n =>
                   FlattenSeq(s \o First(k)) = FlattenSeq(s) \o FlattenSeq(First(k))}
<1>2. 0 \in S
  <2>1. First(0) = <<>>
    BY SubSeqEmpty
  <2>2. s \o <<>> = s /\ FlattenSeq(s) \o <<>> = FlattenSeq(s)
    BY FlatText, ConcatEmptySeq
  <2>3. FlattenSeq(s \o First(0)) = FlattenSeq(s) \o FlattenSeq(First(0))
    BY <2>1, <2>2, FlatNothing
  <2> QED
    BY <2>3
<1>3. ASSUME NEW k \in Nat, k \in S
      PROVE  k + 1 \in S
  <2> SUFFICES ASSUME k + 1 <= n
               PROVE  FlattenSeq(s \o First(k + 1)) =
                        FlattenSeq(s) \o FlattenSeq(First(k + 1))
    OBVIOUS
  <2>1. k + 1 \in 1..Len(t) /\ (k + 1) - 1 = k /\ k <= n
    BY <1>1
  <2>2. PICK u \in Seq(Seq(X)) : u = First(k)
    BY <2>1, FlatPiece
  <2>3. PICK x \in Seq(X) : x = t[k + 1]
    BY <2>1
  <2>4. First(k + 1) = Append(u, x) /\ FlattenSeq(First(k + 1)) = FlattenSeq(u) \o x
    BY <2>1, <2>2, <2>3, FlatPiece
  <2>5. s \o Append(u, x) = Append(s \o u, x) /\ s \o u \in Seq(Seq(X))
    <3>1. <<x>> \in Seq(Seq(X))
      OBVIOUS
    <3>2. Append(u, x) = u \o <<x>> /\ s \o u \in Seq(Seq(X))
      BY AppendIsConcat
    <3>3. Grouped(s, u, <<x>>)
      BY <3>1, Grouping
    <3> QED
      BY <3>2, <3>3, AppendIsConcat DEF Grouped
  <2>6. FlattenSeq(s \o First(k + 1)) = FlattenSeq(s \o u) \o x
    BY <2>4, <2>5, FlatAppend
  <2>7. FlattenSeq(s \o u) = FlattenSeq(s) \o FlattenSeq(u)
    BY <1>3, <2>1, <2>2
  <2>8. /\ FlattenSeq(s) \in Seq(X) /\ FlattenSeq(u) \in Seq(X)
    BY FlatText
  <2>9. Grouped(FlattenSeq(s), FlattenSeq(u), x)
    BY <2>8, Grouping
  <2> QED
    BY <2>4, <2>6, <2>7, <2>9 DEF Grouped
<1>4. Nat \subseteq S
  BY <1>2, <1>3, Counting
<1>5. First(n) = t
  BY <1>1, SubSeqFull
<1>6. FlattenSeq(s \o First(n)) = FlattenSeq(s) \o FlattenSeq(First(n))
  <2>1. n \in S /\ n <= n
    BY <1>1, <1>4
  <2> QED
    BY <2>1
<1> QED
  BY <1>5, <1>6

-----------------------------------------------------------------------------
(* A function applied over and over.                                         *)
Iterates(f, a, g) == f[0] = a /\ \A k \in Nat : f[k + 1] = g[f[k]]

LEMMA Iterated ==
    ASSUME NEW S, NEW a \in S, NEW g \in [S -> S]
    PROVE  \E f \in [Nat -> S] : Iterates(f, a, g)
<1> DEFINE Upto(f, n) == f[0] = a /\ \A k \in 1..n : f[k] = g[f[k - 1]]
           Found == {n \in Nat : \E f \in [0..n -> S] : Upto(f, n)}
<1>1. 0 \in Found
  <2>1. [k \in 0..0 |-> a] \in [0..0 -> S] /\ Upto([k \in 0..0 |-> a], 0)
    OBVIOUS
  <2> QED
    BY <2>1
<1>2. ASSUME NEW n \in Nat, n \in Found
      PROVE  n + 1 \in Found
  <2>1. PICK f \in [0..n -> S] : Upto(f, n)
    BY <1>2
  <2> DEFINE h == [k \in 0..(n + 1) |-> IF k <= n THEN f[k] ELSE g[f[n]]]
  <2>2. f[n] \in S /\ g[f[n]] \in S
    OBVIOUS
  <2>3. h \in [0..(n + 1) -> S]
    BY <2>2
  <2>4. Upto(h, n + 1)
    <3>1. h[0] = a
      BY <2>1
    <3>2. ASSUME NEW k \in 1..(n + 1)
          PROVE  h[k] = g[h[k - 1]]
      <4>1. k - 1 \in 0..n /\ h[k - 1] = f[k - 1]
        OBVIOUS
      <4>2. CASE k <= n
        <5>1. k \in 1..n /\ h[k] = f[k]
          BY <4>2
        <5> QED
          BY <2>1, <4>1, <5>1
      <4>3. CASE ~(k <= n)
        <5>1. k = n + 1 /\ k - 1 = n /\ h[k] = g[f[n]]
          BY <4>3
        <5> QED
          BY <4>1, <5>1
      <4> QED
        BY <4>2, <4>3
    <3> QED
      BY <3>1, <3>2
  <2> HIDE DEF h
  <2>5. \E e \in [0..(n + 1) -> S] : Upto(e, n + 1)
    BY <2>3, <2>4
  <2> QED
    BY <2>5
<1>3. Nat \subseteq Found
  BY <1>1, <1>2, Counting
<1> DEFINE F(n) == CHOOSE f \in [0..n -> S] : Upto(f, n)
<1>4. \A n \in Nat : F(n) \in [0..n -> S] /\ Upto(F(n), n)
  BY <1>3
<1> HIDE DEF F
<1> DEFINE f == [n \in Nat |-> F(n)[n]]
<1>5. f \in [Nat -> S] /\ f[0] = a
  BY <1>4
<1>6. ASSUME NEW n \in Nat, n > 0
      PROVE  f[n] = g[f[n - 1]]
  <2>1. n - 1 \in Nat /\ n \in 1..n
    BY <1>6
  <2> DEFINE Same == {k \in Nat : k <= n - 1 => F(n)[k] = F(n - 1)[k]}
  <2>2. 0 \in Same
    BY <1>4, <2>1
  <2>3. ASSUME NEW k \in Nat, k \in Same
        PROVE  k + 1 \in Same
    <3> SUFFICES ASSUME k + 1 <= n - 1
                 PROVE  F(n)[k + 1] = F(n - 1)[k + 1]
      OBVIOUS
    <3>1. k + 1 \in 1..n /\ k + 1 \in 1..(n - 1) /\ (k + 1) - 1 = k /\ k <= n - 1
      BY <2>1
    <3>2. F(n)[k + 1] = g[F(n)[k]] /\ F(n - 1)[k + 1] = g[F(n - 1)[k]]
      BY <1>4, <2>1, <3>1
    <3> QED
      BY <2>3, <3>1, <3>2
  <2>4. Nat \subseteq Same
    BY <2>2, <2>3, Counting
  <2>5. F(n)[n - 1] = F(n - 1)[n - 1]
    <3>1. n - 1 \in Same /\ n - 1 <= n - 1
      BY <2>1, <2>4
    <3> QED
      BY <3>1
  <2>6. F(n)[n] = g[F(n)[n - 1]]
    BY <1>4, <2>1
  <2> QED
    BY <2>1, <2>5, <2>6
<1>7. \A n \in Nat : f[n + 1] = g[f[n]]
  <2>1. ASSUME NEW n \in Nat
        PROVE  n + 1 \in Nat /\ n + 1 > 0 /\ (n + 1) - 1 = n
    OBVIOUS
  <2> QED
    BY <1>6, <2>1
<1> HIDE DEF f
<1> QED
  BY <1>5, <1>7 DEF Iterates
=============================================================================
