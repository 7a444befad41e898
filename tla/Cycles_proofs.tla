----------------------------- MODULE Cycles_proofs -----------------------------
(* Theorem about Interpolate: the cycles ApplyURL reports are the elementary  *)
(* cycles of the variables that the request leads to.                        *)
EXTENDS Interpolate_proofs, Lists_proofs

-----------------------------------------------------------------------------
(* Numbers                                                                   *)
LEMMA Remainder ==
    ASSUME NEW l \in Nat, l > 0, NEW a \in Nat
    PROVE  /\ a < l => a % l = a
           /\ a >= l /\ a < 2 * l => a % l = a - l
           /\ a = 2 * l => a % l = 0
  OBVIOUS

-----------------------------------------------------------------------------
(* Cycles, written from any of the names on them                             *)
Turn(w, d) == [k \in DOMAIN w |-> w[((k + d) % Len(w)) + 1]]

Cyclic(v, w) == \A k \in 1..Len(w) : w[(k % Len(w)) + 1] \in Refers(v, w[k])

(* Where the k-th place of a sequence of l is found after a turn by d, and    *)
(* the place after it.                                                       *)
Place(l, k, d) == ((k + d) % l) + 1
After(l, k) == (k % l) + 1

LEMMA Places ==
    ASSUME NEW l \in Nat, l > 0, NEW k \in 1..l, NEW d \in 1..l
    PROVE  /\ Place(l, k, d) \in 1..l
           /\ k + d < l => Place(l, k, d) = k + d + 1
           /\ k + d >= l /\ k + d < 2 * l => Place(l, k, d) = k + d + 1 - l
           /\ k + d >= 2 * l => Place(l, k, d) = 1 /\ k = l /\ d = l
<1>1. /\ k + d \in Nat /\ k \in Nat
      /\ k + d >= 2 * l => k = l /\ d = l /\ k + d = 2 * l
  OBVIOUS
<1>2. /\ k + d < l => (k + d) % l = k + d
      /\ k + d >= l /\ k + d < 2 * l => (k + d) % l = k + d - l
      /\ k + d = 2 * l => (k + d) % l = 0
  BY <1>1, Remainder
<1>3. PICK r : r = (k + d) % l
  OBVIOUS
<1>4. Place(l, k, d) = r + 1
  BY <1>3 DEF Place
<1> QED
  BY <1>1, <1>2, <1>3, <1>4

LEMMA Afters ==
    ASSUME NEW l \in Nat, l > 0, NEW k \in 1..l
    PROVE  After(l, k) \in 1..l /\ After(l, k) = IF k = l THEN 1 ELSE k + 1
<1>1. k < l => k % l = k
  BY Remainder
<1>2. l % l = 0
  <2>1. l >= l /\ l < 2 * l /\ l - l = 0
    OBVIOUS
  <2> QED
    BY <2>1, Remainder
<1>3. CASE k = l
  BY <1>2, <1>3 DEF After
<1>4. CASE k < l
  BY <1>1, <1>4 DEF After
<1> QED
  BY <1>3, <1>4

LEMMA PlaceOnce ==
    ASSUME NEW l \in Nat, l > 0, NEW j \in 1..l, NEW k \in 1..l, NEW d \in 1..l,
           Place(l, j, d) = Place(l, k, d)
    PROVE  j = k
<1>1. PICK p : p = Place(l, j, d) /\ p = Place(l, k, d)
  OBVIOUS
<1>2. /\ j + d < l => p = j + d + 1
      /\ j + d >= l /\ j + d < 2 * l => p = j + d + 1 - l
      /\ j + d >= 2 * l => p = 1 /\ j = l /\ d = l
  BY <1>1, Places
<1>3. /\ k + d < l => p = k + d + 1
      /\ k + d >= l /\ k + d < 2 * l => p = k + d + 1 - l
      /\ k + d >= 2 * l => p = 1 /\ k = l /\ d = l
  BY <1>1, Places
<1> QED
  BY <1>2, <1>3

LEMMA PlaceAfter ==
    ASSUME NEW l \in Nat, l > 0, NEW k \in 1..l, NEW d \in 1..l
    PROVE  Place(l, After(l, k), d) = After(l, Place(l, k, d))
<1>1. PICK n : n = After(l, k)
  OBVIOUS
<1>2. PICK p : p = Place(l, k, d)
  OBVIOUS
<1>3. n \in 1..l /\ n = IF k = l THEN 1 ELSE k + 1
  BY <1>1, Afters
<1>4. /\ p \in 1..l
      /\ k + d < l => p = k + d + 1
      /\ k + d >= l /\ k + d < 2 * l => p = k + d + 1 - l
      /\ k + d >= 2 * l => p = 1 /\ k = l /\ d = l
  BY <1>2, Places
<1>5. PICK a : a = After(l, p)
  OBVIOUS
<1>6. a = IF p = l THEN 1 ELSE p + 1
  BY <1>4, <1>5, Afters
<1>7. PICK q : q = Place(l, n, d)
  OBVIOUS
<1>8. /\ n + d < l => q = n + d + 1
      /\ n + d >= l /\ n + d < 2 * l => q = n + d + 1 - l
      /\ n + d >= 2 * l => q = 1 /\ n = l /\ d = l
  <2>1. n \in 1..l
    BY <1>3
  <2> QED
    BY <1>7, <2>1, Places
<1>9. a = q
  <2>1. CASE k = l
    BY <1>3, <1>4, <1>6, <1>8, <2>1
  <2>2. CASE k < l
    BY <1>3, <1>4, <1>6, <1>8, <2>2
  <2> QED
    BY <2>1, <2>2
<1> QED
  BY <1>1, <1>2, <1>5, <1>7, <1>9

LEMMA PlaceFirst ==
    ASSUME NEW l \in Nat, l > 0, NEW i \in 1..l
    PROVE  \E d \in 1..l : Place(l, 1, d) = i
<1>1. PICK d : d = IF i >= 3 THEN i - 2 ELSE IF i = 2 \/ l = 1 THEN l ELSE l - 1
  OBVIOUS
<1>2. d \in 1..l /\ 1 \in 1..l
  BY <1>1
<1>3. PICK p : p = Place(l, 1, d)
  OBVIOUS
<1>4. /\ 1 + d < l => p = 1 + d + 1
      /\ 1 + d >= l /\ 1 + d < 2 * l => p = 1 + d + 1 - l
      /\ 1 + d >= 2 * l => p = 1 /\ 1 = l /\ d = l
  <2>1. \A k \in 1..l :
          /\ k + d < l => Place(l, k, d) = k + d + 1
          /\ k + d >= l /\ k + d < 2 * l => Place(l, k, d) = k + d + 1 - l
          /\ k + d >= 2 * l => Place(l, k, d) = 1 /\ k = l /\ d = l
    BY <1>2, Places
  <2> QED
    BY <1>2, <1>3, <2>1
<1>5. p = i
  BY <1>1, <1>4
<1> QED
  BY <1>2, <1>3, <1>5

LEMMA PlaceBack ==
    ASSUME NEW l \in Nat, l > 0, NEW d \in 1..l
    PROVE  \E e \in 1..l : \A k \in 1..l :
             /\ Place(l, k, e) \in 1..l
             /\ Place(l, Place(l, k, e), d) = k
<1>1. PICK e : e = IF d + 2 < l THEN l - d - 2
                   ELSE IF d + 2 = l THEN l
                   ELSE IF d + 1 = l THEN l - 1
                   ELSE IF l >= 3 THEN l - 2
                   ELSE l
  OBVIOUS
<1>2. e \in 1..l
  BY <1>1
<1>3. ASSUME NEW k \in 1..l
      PROVE  Place(l, k, e) \in 1..l /\ Place(l, Place(l, k, e), d) = k
  <2>1. PICK p : p = Place(l, k, e)
    OBVIOUS
  <2>2. /\ p \in 1..l
        /\ k + e < l => p = k + e + 1
        /\ k + e >= l /\ k + e < 2 * l => p = k + e + 1 - l
        /\ k + e >= 2 * l => p = 1 /\ k = l /\ e = l
    BY <1>2, <2>1, Places
  <2>3. PICK q : q = Place(l, p, d)
    OBVIOUS
  <2>4. /\ p + d < l => q = p + d + 1
        /\ p + d >= l /\ p + d < 2 * l => q = p + d + 1 - l
        /\ p + d >= 2 * l => q = 1 /\ p = l /\ d = l
    BY <2>2, <2>3, Places
  <2>5. q = k
    BY <1>1, <2>2, <2>4
  <2> QED
    BY <2>1, <2>2, <2>3, <2>5
<1> QED
  BY <1>2, <1>3

LEMMA TurnShape ==
    ASSUME NEW w \in Seq(Names), w # <<>>, NEW d \in 1..Len(w)
    PROVE  /\ Turn(w, d) \in Seq(Names) /\ Len(Turn(w, d)) = Len(w)
           /\ Len(w) \in Nat /\ Len(w) > 0 /\ Turn(w, d) # <<>>
           /\ \A k \in 1..Len(w) : /\ Place(Len(w), k, d) \in 1..Len(w)
                                   /\ Turn(w, d)[k] = w[Place(Len(w), k, d)]
           /\ Range(Turn(w, d)) \subseteq Range(w)
<1>1. /\ Len(w) \in Nat /\ Len(w) > 0 /\ DOMAIN w = 1..Len(w)
      /\ \A k \in 1..Len(w) : w[k] \in Names
  OBVIOUS
<1>2. \A k \in 1..Len(w) : Place(Len(w), k, d) \in 1..Len(w)
  BY <1>1, Places
<1>3. Turn(w, d) = [k \in 1..Len(w) |-> w[Place(Len(w), k, d)]]
  BY <1>1 DEF Turn, Place
<1>4. Turn(w, d) \in [1..Len(w) -> Names]
  BY <1>1, <1>2, <1>3
<1>5. Turn(w, d) \in Seq(Names) /\ Len(Turn(w, d)) = Len(w)
  BY <1>1, <1>4
<1>6. Turn(w, d) # <<>>
  BY <1>1, <1>5
<1>7. Range(Turn(w, d)) \subseteq Range(w)
  BY <1>1, <1>2, <1>3 DEF Range
<1> QED
  BY <1>1, <1>2, <1>3, <1>5, <1>6, <1>7

LEMMA TurnInjective ==
    ASSUME NEW w \in Seq(Names), w # <<>>, NEW d \in 1..Len(w), IsInjective(w)
    PROVE  IsInjective(Turn(w, d))
<1>1. /\ Len(w) \in Nat /\ Len(w) > 0 /\ DOMAIN w = 1..Len(w)
      /\ DOMAIN Turn(w, d) = 1..Len(w)
      /\ \A k \in 1..Len(w) : /\ Place(Len(w), k, d) \in 1..Len(w)
                              /\ Turn(w, d)[k] = w[Place(Len(w), k, d)]
  BY TurnShape
<1> QED
  BY <1>1, PlaceOnce DEF IsInjective

LEMMA TurnCyclic ==
    ASSUME NEW v, NEW w \in Seq(Names), w # <<>>, NEW d \in 1..Len(w), Cyclic(v, w)
    PROVE  Cyclic(v, Turn(w, d))
<1>1. PICK l : l = Len(w)
  OBVIOUS
<1>2. /\ l \in Nat /\ l > 0 /\ d \in 1..l /\ Len(Turn(w, d)) = l
      /\ \A k \in 1..l : Place(l, k, d) \in 1..l /\ Turn(w, d)[k] = w[Place(l, k, d)]
  BY <1>1, TurnShape
<1>3. \A k \in 1..l : w[After(l, k)] \in Refers(v, w[k])
  BY <1>1 DEF Cyclic, After
<1>4. ASSUME NEW k \in 1..l
      PROVE  Turn(w, d)[After(l, k)] \in Refers(v, Turn(w, d)[k])
  <2>1. After(l, k) \in 1..l /\ Place(l, k, d) \in 1..l
    BY <1>2, Afters
  <2>2. Turn(w, d)[After(l, k)] = w[After(l, Place(l, k, d))]
    <3>1. Place(l, After(l, k), d) = After(l, Place(l, k, d))
      BY <1>2, PlaceAfter
    <3> QED
      BY <1>2, <2>1, <3>1
  <2> QED
    BY <1>2, <1>3, <2>1, <2>2
<1> QED
  BY <1>2, <1>4 DEF Cyclic, After

(* Every name of a cycle can be turned to the front ...                      *)
LEMMA TurnTo ==
    ASSUME NEW w \in Seq(Names), w # <<>>, NEW i \in 1..Len(w)
    PROVE  \E d \in 1..Len(w) : Turn(w, d)[1] = w[i]
<1>1. Len(w) \in Nat /\ Len(w) > 0 /\ 1 \in 1..Len(w)
  OBVIOUS
<1>2. PICK d \in 1..Len(w) : Place(Len(w), 1, d) = i
  BY <1>1, PlaceFirst
<1> QED
  BY <1>1, <1>2, TurnShape

(* ... and back.                                                             *)
LEMMA TurnBack ==
    ASSUME NEW w \in Seq(Names), w # <<>>, NEW d \in 1..Len(w)
    PROVE  \E e \in 1..Len(w) : w = Turn(Turn(w, d), e)
<1>1. PICK t : t = Turn(w, d)
  OBVIOUS
<1>2. /\ Len(w) \in Nat /\ Len(w) > 0 /\ t \in Seq(Names) /\ t # <<>>
      /\ Len(t) = Len(w)
      /\ \A k \in 1..Len(w) : t[k] = w[Place(Len(w), k, d)]
  BY <1>1, TurnShape
<1>3. PICK e \in 1..Len(w) : \A k \in 1..Len(w) :
        Place(Len(w), k, e) \in 1..Len(w) /\ Place(Len(w), Place(Len(w), k, e), d) = k
  BY <1>2, PlaceBack
<1>4. /\ Turn(t, e) \in Seq(Names) /\ Len(Turn(t, e)) = Len(w)
      /\ \A k \in 1..Len(w) : Turn(t, e)[k] = t[Place(Len(w), k, e)]
  BY <1>2, TurnShape
<1>5. \A k \in 1..Len(w) : Turn(t, e)[k] = w[k]
  BY <1>2, <1>3, <1>4
<1>6. PICK u : u = Turn(t, e)
  OBVIOUS
<1>7. u \in Seq(Names) /\ Len(u) = Len(w) /\ \A k \in 1..Len(w) : u[k] = w[k]
  BY <1>4, <1>5, <1>6
<1>8. w = u
  BY <1>7
<1> QED
  BY <1>1, <1>6, <1>8

LEMMA WaysAre ==
    ASSUME NEW w
    PROVE  w \in Ways <=> w \in Seq(Names) /\ w # <<>> /\ IsInjective(w)
<1>1. Cardinality(Names) \in Nat
  BY TokensAssumption, FS_CardinalityType
<1>2. ASSUME w \in SeqOf(Names, Cardinality(Names))
      PROVE  w \in Seq(Names)
  <2>1. PICK m \in 0..Cardinality(Names) : w \in [1..m -> Names]
    BY <1>2 DEF SeqOf
  <2>2. m \in Nat
    BY <1>1
  <2> QED
    BY <2>1, <2>2
<1>3. ASSUME w \in Seq(Names), IsInjective(w)
      PROVE  w \in SeqOf(Names, Cardinality(Names))
  <2>1. Len(w) \in Nat /\ w \in [1..Len(w) -> Names]
    BY <1>3
  <2>2. w \in Injection(1..Len(w), Names)
    BY <1>3, <2>1 DEF Injection
  <2>3. Cardinality(1..Len(w)) <= Cardinality(Names)
    BY <2>2, FS_Injection, TokensAssumption
  <2>4. 1 \in Int /\ Len(w) \in Int
    BY <2>1
  <2>5. Cardinality(1..Len(w)) = IF 1 > Len(w) THEN 0 ELSE Len(w) - 1 + 1
    BY <2>4, FS_Interval
  <2>6. Len(w) \in 0..Cardinality(Names)
    BY <1>1, <2>1, <2>3, <2>5
  <2> QED
    BY <2>1, <2>6 DEF SeqOf
<1> QED
  BY <1>2, <1>3 DEF Ways

LEMMA CyclesAre ==
    ASSUME NEW u, NEW v, NEW w
    PROVE  w \in CyclesOf(u, v) <=>
             /\ w \in Seq(Names) /\ w # <<>> /\ IsInjective(w)
             /\ w[1] \in Reachable(u, v) /\ Cyclic(v, w)
  BY WaysAre DEF CyclesOf, Cyclic

(* All the ways to write a cycle are cycles, for one that is reached is      *)
(* reached in all of its names.                                              *)
LEMMA CyclesTurn ==
    ASSUME NEW u, NEW v, NEW w \in CyclesOf(u, v),
           Range(w) \subseteq Reachable(u, v)
    PROVE  Turns(w) \subseteq CyclesOf(u, v)
<1>1. /\ w \in Seq(Names) /\ w # <<>> /\ IsInjective(w) /\ Cyclic(v, w)
      /\ DOMAIN w = 1..Len(w)
  BY CyclesAre
<1>2. ASSUME NEW t \in Turns(w)
      PROVE  t \in CyclesOf(u, v)
  <2>1. PICK d \in 1..Len(w) : t = Turn(w, d)
    BY <1>1, <1>2 DEF Turns, Turn
  <2>2. /\ t \in Seq(Names) /\ t # <<>> /\ IsInjective(t) /\ Cyclic(v, t)
        /\ Range(t) \subseteq Range(w) /\ 1 \in DOMAIN t
    BY <1>1, <2>1, TurnShape, TurnInjective, TurnCyclic
  <2>3. t[1] \in Reachable(u, v)
    BY <2>2 DEF Range
  <2> QED
    BY <2>2, <2>3, CyclesAre
<1> QED
  BY <1>2

-----------------------------------------------------------------------------
(* The stack of a call is a way through the variables                        *)
Linked(v, s) == \A k \in 1..Len(s) : k + 1 <= Len(s) => s[k + 1] \in Refers(v, s[k])

LEMMA FrontOfAppend ==
    ASSUME NEW w \in Seq(Names), w # <<>>, NEW n \in Names
    PROVE  /\ Front(Append(w, n)) = w /\ Last(Append(w, n)) = n
           /\ Append(w, n)[1] = w[1] /\ Len(Append(w, n)) > 1
<1>1. PICK t : t = Append(w, n)
  OBVIOUS
<1>2. /\ t \in Seq(Names) /\ Len(t) = Len(w) + 1 /\ t # <<>> /\ Last(t) = n
      /\ Len(w) \in Nat /\ \A k \in 1..Len(w) : t[k] = w[k]
  BY <1>1, RangeOfAppend
<1>3. PICK f : f = Front(t)
  OBVIOUS
<1>4. /\ f \in Seq(Names) /\ Len(f) = Len(t) - 1
      /\ \A k \in 1..Len(f) : f[k] = t[k]
  BY <1>2, <1>3, RangeOfFront
<1>5. Len(f) = Len(w)
  BY <1>2, <1>4
<1>6. f = w
  BY <1>2, <1>4, <1>5
<1>7. 1 \in 1..Len(w)
  OBVIOUS
<1> QED
  BY <1>1, <1>2, <1>3, <1>6, <1>7

LEMMA WayShape ==
    ASSUME NEW s \in Seq(Names), NEW i \in 1..Len(s)
    PROVE  LET w == SubSeq(s, i, Len(s)) IN
           /\ w \in Seq(Names) /\ w # <<>> /\ Len(w) = Len(s) - i + 1
           /\ \A k \in 1..Len(w) : i + k - 1 \in 1..Len(s) /\ w[k] = s[i + k - 1]
           /\ Range(w) \subseteq Range(s)
           /\ w[1] = s[i]
<1>1. PICK w : w = SubSeq(s, i, Len(s))
  OBVIOUS
<1>2. /\ Len(s) \in Nat /\ i \in Nat /\ 1 <= i /\ i <= Len(s)
  OBVIOUS
<1>3. /\ w \in Seq(Names) /\ Len(w) = Len(s) - i + 1
      /\ \A k \in 1..Len(w) : w[k] = s[i + k - 1]
  BY <1>1, <1>2
<1>4. \A k \in 1..Len(w) : i + k - 1 \in 1..Len(s)
  BY <1>2, <1>3
<1>5. Len(w) > 0 /\ 1 \in 1..Len(w) /\ i + 1 - 1 = i
  BY <1>2, <1>3
<1>6. w # <<>>
  BY <1>3, <1>5
<1>7. DOMAIN w = 1..Len(w) /\ DOMAIN s = 1..Len(s)
  BY <1>3
<1>8. Range(w) \subseteq Range(s)
  BY <1>3, <1>4, <1>7 DEF Range
<1>9. w[1] = s[i]
  BY <1>3, <1>5
<1> QED
  BY <1>1, <1>3, <1>4, <1>6, <1>8, <1>9

LEMMA LinkedCycle ==
    ASSUME NEW u, NEW v, NEW s \in Seq(Names), IsInjective(s), Linked(v, s),
           Range(s) \subseteq Reachable(u, v),
           NEW i \in 1..Len(s), s[i] \in Refers(v, Last(s))
    PROVE  SubSeq(s, i, Len(s)) \in CyclesOf(u, v)
<1>0. PICK w : w = SubSeq(s, i, Len(s))
  OBVIOUS
<1>1. /\ w \in Seq(Names) /\ w # <<>> /\ Len(w) = Len(s) - i + 1
      /\ \A k \in 1..Len(w) : i + k - 1 \in 1..Len(s) /\ w[k] = s[i + k - 1]
      /\ Range(w) \subseteq Range(s)
  BY <1>0, WayShape
<1>2. /\ Len(s) \in Nat /\ i \in Nat /\ Len(w) \in Nat /\ Len(w) > 0
      /\ DOMAIN w = 1..Len(w) /\ DOMAIN s = 1..Len(s) /\ 1 \in 1..Len(w)
  BY <1>1
<1>3. IsInjective(w)
  <2>1. ASSUME NEW j \in 1..Len(w), NEW k \in 1..Len(w), w[j] = w[k]
        PROVE  j = k
    <3>1. \A a, b \in 1..Len(s) : s[a] = s[b] => a = b
      BY <1>2 DEF IsInjective
    <3>2. i + j - 1 = i + k - 1
      BY <1>1, <2>1, <3>1
    <3> QED
      BY <1>2, <3>2
  <2> QED
    BY <1>2, <2>1 DEF IsInjective
<1>4. w[1] \in Reachable(u, v)
  BY <1>1, <1>2 DEF Range
<1>5. ASSUME NEW k \in 1..Len(w)
      PROVE  w[After(Len(w), k)] \in Refers(v, w[k])
  <2>1. After(Len(w), k) = IF k = Len(w) THEN 1 ELSE k + 1
    BY <1>2, Afters
  <2>2. CASE k = Len(w)
    <3>1. w[1] = s[i]
      <4>1. i + 1 - 1 = i
        BY <1>2
      <4> QED
        BY <1>1, <1>2, <4>1
    <3>2. w[k] = Last(s)
      <4>1. i + k - 1 = Len(s)
        BY <1>1, <1>2, <2>2
      <4> QED
        BY <1>1, <4>1 DEF Last
    <3> QED
      BY <2>1, <2>2, <3>1, <3>2
  <2>3. CASE k # Len(w)
    <3>1. k + 1 \in 1..Len(w) /\ i + (k + 1) - 1 = (i + k - 1) + 1
          /\ (i + k - 1) + 1 <= Len(s)
      <4>1. /\ Len(w) = Len(s) - i + 1 /\ Len(s) \in Nat /\ i \in Nat
            /\ Len(w) \in Nat
        BY <1>1, <1>2
      <4> QED
        BY <2>3, <4>1
    <3>2. w[k + 1] = s[(i + k - 1) + 1] /\ w[k] = s[i + k - 1]
      BY <1>1, <3>1
    <3> QED
      BY <1>1, <2>1, <2>3, <3>1, <3>2 DEF Linked
  <2> QED
    BY <2>2, <2>3
<1>6. Cyclic(v, w)
  BY <1>5 DEF Cyclic, After
<1> QED
  BY <1>0, <1>1, <1>3, <1>4, <1>6, CyclesAre

(* Every call knows the way that led to it ...                               *)
OnWay(c) ==
    /\ Range(c.stack) \subseteq Reachable(url, variables)
    /\ Linked(variables, c.stack)
    /\ c.stack # <<>> => Mentions(c.rest) \subseteq Refers(variables, Last(c.stack))

AllOnWay == \A c \in Calls : OnWay(c)

(* ... and what is reported is a piece of such a way, closed to a cycle.     *)
IsCycle(c) ==
    /\ Len(c) > 1 /\ Last(c) = c[1]
    /\ Front(c) \in CyclesOf(url, variables)
    /\ Range(Front(c)) \subseteq Reachable(url, variables)

CyclesFound == \A c \in Range(cycles) : IsCycle(c)

LEMMA OnWayStart ==
    ASSUME NEW c, c.stack = <<>>
    PROVE  OnWay(c)
<1>1. Linked(variables, <<>>)
  BY DEF Linked
<1> QED
  BY <1>1, EmptyRange DEF OnWay

LEMMA OnWayPut ==
    ASSUME Depths, AllOnWay, NEW n, AtName(n), NEW o \in Seq(Counted), Put(o)
    PROVE  /\ AllOnWay' /\ url' = url /\ variables' = variables
           /\ cycles' = cycles /\ CyclesFound => CyclesFound'
<1>1. /\ UNCHANGED callers /\ call'.stack = call.stack
      /\ Mentions(call'.rest) \subseteq Mentions(call.rest)
      /\ url' = url /\ variables' = variables
  BY PutFacts, PutMentions DEF Depths
<1>2. \A c : OnWay(c) => OnWay(c)'
  BY <1>1 DEF OnWay
<1>3. ASSUME NEW c, c = call'
      PROVE  OnWay(c)'
  <2>1. OnWay(call)
    BY DEF AllOnWay, Calls
  <2> QED
    BY <1>1, <1>3, <2>1 DEF OnWay
<1>4. AllOnWay'
  BY <1>1, <1>2, <1>3 DEF AllOnWay, Calls
<1>5. cycles' = cycles /\ CyclesFound => CyclesFound'
  BY <1>1 DEF CyclesFound, IsCycle
<1> QED
  BY <1>1, <1>4, <1>5

LEMMA WayBackFound ==
    ASSUME Depths, AllOnWay, NEW n \in Names, AtName(n), OnStack(n)
    PROVE  /\ IsCycle(WayBack(n)) /\ WayBack(n) \in Seq(Names)
           /\ \E i \in 1..Len(call.stack) :
                call.stack[i] = n
                /\ WayBack(n) = Append(SubSeq(call.stack, i, Len(call.stack)), n)
<1>1. PICK s : s = call.stack
  OBVIOUS
<1>2. /\ s \in Seq(Names) /\ IsInjective(s) /\ call.rest \in Seq(Token)
  BY <1>1, CallTypes DEF Depths, TypeOK, AllFit, Fits, Calls
<1>3. OnWay(call)
  BY DEF AllOnWay, Calls
<1>4. PICK i : i = CHOOSE k \in 1..Len(s) : s[k] = n
  OBVIOUS
<1>5. i \in 1..Len(s) /\ s[i] = n
  BY <1>1, <1>4 DEF OnStack, Contains
<1>6. PICK w : w = SubSeq(s, i, Len(s))
  OBVIOUS
<1>7. WayBack(n) = Append(w, n)
  BY <1>1, <1>4, <1>6 DEF WayBack
<1>8. /\ w \in Seq(Names) /\ w # <<>> /\ w[1] = n /\ Range(w) \subseteq Range(s)
  BY <1>2, <1>5, <1>6, WayShape
<1>9. n \in Mentions(call.rest)
  <2>1. n \in Range(call.rest)
    BY <1>2, RangeOfHead DEF AtName
  <2> QED
    BY <2>1, TokensAssumption DEF Mentions
<1>10. s # <<>>
  <2>1. Len(s) # 0
    BY <1>2, <1>5
  <2> QED
    BY <1>2, <2>1
<1>11. w \in CyclesOf(url, variables)
  <2>1. /\ Linked(variables, s) /\ Range(s) \subseteq Reachable(url, variables)
        /\ s[i] \in Refers(variables, Last(s))
    BY <1>1, <1>3, <1>5, <1>9, <1>10 DEF OnWay
  <2> QED
    BY <1>2, <1>5, <1>6, <2>1, LinkedCycle
<1>12. /\ Front(Append(w, n)) = w /\ Last(Append(w, n)) = n
       /\ Append(w, n)[1] = n /\ Len(Append(w, n)) > 1
  BY <1>8, FrontOfAppend
<1>13. Append(w, n) \in Seq(Names)
  BY <1>8
<1>14. Range(w) \subseteq Reachable(url, variables)
  BY <1>1, <1>3, <1>8 DEF OnWay
<1>15. IsCycle(WayBack(n))
  BY <1>7, <1>11, <1>12, <1>14 DEF IsCycle
<1> QED
  BY <1>1, <1>5, <1>6, <1>7, <1>13, <1>15

LEMMA EnterOnWay ==
    ASSUME Depths, Reached, AllOnWay, NEW n, Enter(n)
    PROVE  AllOnWay'
<1>0. TypeOK /\ callers \in Seq(Call)
  BY DEF Depths, TypeOK
<1>1. PICK s : s = call.stack
  OBVIOUS
<1>2. PICK t : t = Append(s, n)
  OBVIOUS
<1>3. /\ n \in Names /\ Declared(n, variables) /\ s \in Seq(Names)
      /\ call'.rest = variables[n] /\ call'.stack = t
      /\ url' = url /\ variables' = variables
  <2>1. s \in Seq(Names)
    BY <1>0, <1>1, CallTypes DEF TypeOK
  <2>2. /\ n \in Names
        /\ call' = [rest |-> variables[n], stack |-> Append(call.stack, n),
                    escape |-> FALSE, out |-> <<>>]
    BY <1>0, EnterFacts
  <2>3. Declared(n, variables) /\ url' = url /\ variables' = variables
    BY DEF Enter, template
  <2> QED
    BY <1>1, <1>2, <2>1, <2>2, <2>3
<1>4. PICK c \in Call : /\ callers' = Append(callers, c) /\ c.stack = s
                        /\ Range(call.rest) = {n} \cup Range(c.rest)
  BY <1>0, <1>1, EnterFacts
<1>5. Range(callers') = Range(callers) \cup {c}
  BY <1>0, <1>4, RangeOfAppend
<1>6. /\ n \in Mentions(call.rest) /\ Mentions(c.rest) \subseteq Mentions(call.rest)
      /\ Mentions(call'.rest) = Refers(variables, n)
  BY <1>3, <1>4, TokensDistinct DEF Mentions, Refers
<1>7. OnWay(call) /\ Mentions(call.rest) \subseteq Reachable(url, variables)
  BY DEF AllOnWay, Reached, RestReached, Calls
<1>8. /\ t \in Seq(Names) /\ t # <<>> /\ Len(t) = Len(s) + 1 /\ Len(s) \in Nat
      /\ \A k \in 1..Len(s) : t[k] = s[k]
      /\ t[Len(s) + 1] = n /\ Last(t) = n /\ Range(t) = Range(s) \cup {n}
  BY <1>2, <1>3, RangeOfAppend
<1>9. Linked(variables, t)
  <2>1. ASSUME NEW k \in 1..Len(t), k + 1 <= Len(t)
        PROVE  t[k + 1] \in Refers(variables, t[k])
    <3>1. CASE k + 1 <= Len(s)
      <4>1. k \in 1..Len(s) /\ k + 1 \in 1..Len(s)
        BY <1>8, <3>1
      <4> QED
        BY <1>1, <1>7, <1>8, <3>1, <4>1 DEF OnWay, Linked
    <3>2. CASE k = Len(s)
      <4>1. s # <<>> /\ k \in 1..Len(s) /\ Last(s) = s[k] /\ t[k] = s[k]
        BY <1>8, <2>1, <3>2 DEF Last
      <4> QED
        BY <1>1, <1>6, <1>7, <1>8, <3>2, <4>1 DEF OnWay
    <3>3. k + 1 <= Len(s) \/ k = Len(s)
      BY <1>8, <2>1
    <3> QED
      BY <3>1, <3>2, <3>3
  <2> QED
    BY <2>1 DEF Linked
<1>10. ASSUME NEW d, d = call' \/ d = c \/ d \in Range(callers)
       PROVE  OnWay(d)'
  <2>1. CASE d = call'
    BY <1>1, <1>3, <1>6, <1>7, <1>8, <1>9, <2>1 DEF OnWay
  <2>2. CASE d = c
    BY <1>1, <1>3, <1>4, <1>6, <1>7, <2>2 DEF OnWay
  <2>3. CASE d \in Range(callers)
    <3>1. OnWay(d)
      BY <2>3 DEF AllOnWay, Calls
    <3> QED
      BY <1>3, <3>1 DEF OnWay
  <2> QED
    BY <1>10, <2>1, <2>2, <2>3
<1> QED
  BY <1>5, <1>10 DEF AllOnWay, Calls

LEMMA CyclesFoundStep ==
    Depths /\ Reached /\ AllOnWay /\ CyclesFound /\ [Next]_vars =>
        AllOnWay' /\ CyclesFound'
<1> SUFFICES ASSUME Depths, Reached, AllOnWay, CyclesFound, [Next]_vars
             PROVE  AllOnWay' /\ CyclesFound'
  OBVIOUS
<1>0. /\ TypeOK /\ call.out \in Seq(Counted) /\ call.escape \in BOOLEAN
      /\ callers \in Seq(Call) /\ params \in Seq(Param)
      /\ cycles \in Seq(Seq(Names)) /\ url \in URLs
  BY CallTypes DEF Depths, TypeOK
<1>1. ASSUME NEW n \in Token
      PROVE  /\ Raw(<<n>>) \in Seq(Counted) /\ Zero(Raw(<<n>>))
             /\ Escaped(call.escape, Raw(<<n>>)) \in Seq(Counted)
  <2>1. <<n>> \in Seq(Token)
    OBVIOUS
  <2>2. Raw(<<n>>) \in Seq(Counted) /\ Zero(Raw(<<n>>))
    BY <2>1, RawIsZero
  <2> QED
    BY <1>0, <2>2, EscapeOnce
<1>2. CASE Literal
  BY <1>1, <1>2, TokensDistinct, OnWayPut DEF Literal, reports
<1>3. ASSUME NEW n \in Token, Generate(n) \/ Miss(n)
      PROVE  AllOnWay' /\ CyclesFound'
  BY <1>1, <1>3, OnWayPut DEF Generate, Miss, reports
<1>4. ASSUME NEW n \in Token, Loop(n)
      PROVE  AllOnWay' /\ CyclesFound'
  <2>1. n \in Names /\ AtName(n) /\ OnStack(n) /\ cycles' = Note(cycles, WayBack(n))
    BY <1>4 DEF Loop, Declared
  <2>2. IsCycle(WayBack(n)) /\ WayBack(n) \in Seq(Names)
    BY <2>1, WayBackFound
  <2>3. PICK w : w = WayBack(n)
    OBVIOUS
  <2>4. Range(cycles') = Range(cycles) \cup {w}
    <3>1. cycles' = Note(cycles, w) /\ w \in Seq(Names)
      BY <2>1, <2>2, <2>3
    <3>2. Range(Note(cycles, w)) = Range(cycles) \cup {w}
      BY <1>0, <3>1, Noted
    <3> QED
      BY <3>1, <3>2
  <2>5. AllOnWay' /\ url' = url /\ variables' = variables
    BY <1>1, <1>4, OnWayPut DEF Loop
  <2>6. \A c : IsCycle(c) => IsCycle(c)'
    BY <2>5 DEF IsCycle
  <2> QED
    BY <2>2, <2>3, <2>4, <2>5, <2>6 DEF CyclesFound
<1>5. ASSUME url' = url, variables' = variables, cycles' = cycles
      PROVE  CyclesFound' /\ \A c : OnWay(c) => OnWay(c)'
  BY <1>5 DEF CyclesFound, IsCycle, OnWay
<1>6. ASSUME NEW n \in Token, Enter(n)
      PROVE  AllOnWay' /\ CyclesFound'
  <2>1. url' = url /\ variables' = variables /\ cycles' = cycles
    BY <1>6 DEF Enter, template, reports
  <2> QED
    BY <1>5, <1>6, <2>1, EnterOnWay
<1>7. CASE Return
  <2>1. /\ callers # <<>> /\ callers' = Front(callers)
        /\ url' = url /\ variables' = variables /\ cycles' = cycles
    BY <1>7 DEF Return, template, reports
  <2>2. PICK c : c = Last(callers)
    OBVIOUS
  <2>3. Range(callers) = Range(callers') \cup {c} /\ c \in Call
    BY <1>0, <2>1, <2>2, RangeOfFront
  <2>4. call' = [c EXCEPT !.out = @ \o Escaped(c.escape, call.out)]
    BY <1>7, <2>2 DEF Return
  <2>5. call'.rest = c.rest /\ call'.stack = c.stack
    BY <2>3, <2>4 DEF Call
  <2>6. \A d \in Range(callers') \cup {c} : OnWay(d)
    BY <2>3 DEF AllOnWay, Calls
  <2>7. ASSUME NEW d, d = call'
        PROVE  OnWay(d)'
    BY <2>1, <2>5, <2>6, <2>7 DEF OnWay
  <2> QED
    BY <1>5, <2>1, <2>6, <2>7 DEF AllOnWay, Calls
<1>8. ASSUME callers' = <<>>, call'.stack = <<>>
      PROVE  AllOnWay'
  <2>1. Calls' = {call'}
    BY <1>8, EmptyRange DEF Calls
  <2>2. ASSUME NEW c, c = call'
        PROVE  OnWay(c)'
    <3>1. Linked(variables, <<>>)'
      BY DEF Linked
    <3> QED
      BY <1>8, <2>2, <3>1, EmptyRange DEF OnWay
  <2> QED
    BY <2>1, <2>2 DEF AllOnWay
<1>9. CASE NextParam
  <2>1. Head(params) \in Param
    BY <1>0, <1>9, RangeOfHead DEF NextParam
  <2>2. /\ call'.stack = <<>> /\ callers' = <<>>
        /\ url' = url /\ variables' = variables /\ cycles' = cycles
    BY <1>9, <2>1, OpenFacts, OutermostFacts DEF NextParam, Ready, template, reports
  <2> QED
    BY <1>5, <1>8, <2>2
<1>10. CASE Finish
  <2>1. <<>> \in Seq(Token) /\ FALSE \in BOOLEAN
    OBVIOUS
  <2>2. /\ call'.stack = <<>> /\ callers' = <<>>
        /\ url' = url /\ variables' = variables /\ cycles' = cycles
    BY <1>10, <2>1, OutermostFacts DEF Finish, Ready, template, reports
  <2> QED
    BY <1>5, <1>8, <2>2
<1>11. ASSUME NEW n \in Names, NEW x \in ScriptTexts, ScriptSet(n, x)
       PROVE  AllOnWay' /\ CyclesFound'
  <2>1. url.base \in Seq(Token)
    BY <1>0, URLTypes
  <2>2. call'.stack = <<>> /\ callers' = <<>> /\ cycles' = <<>>
    BY <1>11, <2>1, OutermostFacts DEF ScriptSet, Depths, IdleWhenDone
  <2>3. CyclesFound'
    BY <2>2, EmptyRange DEF CyclesFound
  <2> QED
    BY <1>8, <2>2, <2>3
<1>12. CASE UNCHANGED vars
  <2>1. /\ url' = url /\ variables' = variables /\ cycles' = cycles
        /\ call' = call /\ callers' = callers
    BY <1>12 DEF vars, template, reports
  <2> QED
    BY <1>5, <2>1 DEF AllOnWay, Calls
<1> QED
  BY <1>2, <1>3, <1>4, <1>6, <1>7, <1>9, <1>10, <1>11, <1>12 DEF Next

LEMMA CyclesFoundInit == Init => AllOnWay /\ CyclesFound
<1> SUFFICES ASSUME Init
             PROVE  AllOnWay /\ CyclesFound
  OBVIOUS
<1>1. url.base \in Seq(Token)
  BY URLTypes DEF Init
<1>2. call.stack = <<>> /\ callers = <<>> /\ cycles = <<>>
  BY <1>1, OutermostFacts DEF Init
<1>3. Calls = {call}
  BY <1>2, EmptyRange DEF Calls
<1> QED
  BY <1>2, <1>3, OnWayStart, EmptyRange DEF AllOnWay, CyclesFound

-----------------------------------------------------------------------------
(* Nothing is passed over: P are the stacks there have been, and from each    *)
(* of them every declared name it leads to has been entered, reported as a   *)
(* cycle, or is still to be looked at.                                       *)
Leads(s) == IF s = <<>> THEN Start(url) ELSE Refers(variables, Last(s))

Waits(s, m) ==
    \/ \E c \in Calls : c.stack = s /\ m \in Mentions(c.rest)
    \/ s = <<>> /\ \E p \in Range(params) : m \in Mentions(Interpolated(p))

Told(s, m) ==
    \E i \in 1..Len(s) :
        s[i] = m /\ Append(SubSeq(s, i, Len(s)), m) \in Range(cycles)

Gone(P, s, m) == IF m \in Range(s) THEN Told(s, m) ELSE Append(s, m) \in P

Prefixed(P) ==
    \A p \in P : \A j \in 1..Len(p) :
        \E q \in P : Len(q) = j /\ \A i \in 1..j : q[i] = p[i]
Pursued(P) ==
    \A s \in P : \A m \in Leads(s) :
        Declared(m, variables) => Gone(P, s, m) \/ Waits(s, m)
StacksIn(P) == \A c \in Calls : c.stack \in P

Walked(P) == <<>> \in P /\ Prefixed(P) /\ Pursued(P) /\ StacksIn(P)

AllWalked == \E P \in SUBSET Seq(Names) : Walked(P)

LEMMA WalkedStart == Starting => AllWalked
<1> SUFFICES ASSUME Starting
             PROVE  AllWalked
  OBVIOUS
<1>1. url.base \in Seq(Token)
  BY URLTypes DEF Starting
<1>2. call.rest = url.base /\ call.stack = <<>> /\ params = url.query
  BY <1>1, OutermostFacts DEF Starting
<1>3. Calls = {call}
  BY EmptyRange DEF Starting, Calls
<1>4. ASSUME NEW m \in Start(url)
      PROVE  Waits(<<>>, m)
  <2>1. CASE m \in Mentions(url.base)
    BY <1>2, <1>3, <2>1 DEF Waits
  <2>2. CASE \E p \in Range(url.query) : m \in Mentions(Interpolated(p))
    BY <1>2, <2>2 DEF Waits
  <2> QED
    BY <1>4, <2>1, <2>2 DEF Start
<1>5. Prefixed({<<>>})
  BY DEF Prefixed
<1>6. Pursued({<<>>})
  BY <1>4 DEF Pursued, Leads
<1>7. StacksIn({<<>>})
  BY <1>2, <1>3 DEF StacksIn
<1>8. {<<>>} \in SUBSET Seq(Names)
  OBVIOUS
<1> QED
  BY <1>5, <1>6, <1>7, <1>8 DEF AllWalked, Walked

LEMMA GoneStays ==
    ASSUME NEW P, NEW Q, P \subseteq Q, Range(cycles) \subseteq Range(cycles'),
           NEW s, NEW m, Gone(P, s, m)
    PROVE  Gone(Q, s, m)'
<1>1. Told(s, m) => Told(s, m)'
  BY DEF Told
<1> QED
  BY <1>1 DEF Gone

LEMMA WalkedSame ==
    ASSUME NEW P \in SUBSET Seq(Names), Walked(P), url' = url,
           variables' = variables, Range(cycles) \subseteq Range(cycles'),
           StacksIn(P)',
           \A s \in P : \A m : Declared(m, variables) /\ Waits(s, m) =>
                               Gone(P, s, m)' \/ Waits(s, m)'
    PROVE  AllWalked'
<1>1. ASSUME NEW s \in P, NEW m \in Leads(s)', Declared(m, variables)'
      PROVE  Gone(P, s, m)' \/ Waits(s, m)'
  <2>1. m \in Leads(s) /\ Declared(m, variables)
    BY <1>1 DEF Leads
  <2>2. Gone(P, s, m) \/ Waits(s, m)
    BY <2>1 DEF Walked, Pursued
  <2> QED
    BY <2>1, <2>2, GoneStays
<1>2. Pursued(P)'
  BY <1>1 DEF Pursued
<1>3. Prefixed(P)'
  BY DEF Walked, Prefixed
<1>4. Walked(P)'
  BY <1>2, <1>3 DEF Walked
<1> QED
  BY <1>4 DEF AllWalked

LEMMA WalkedMore ==
    ASSUME NEW P \in SUBSET Seq(Names), Walked(P), url' = url,
           variables' = variables, Range(cycles) \subseteq Range(cycles'),
           NEW r \in P, NEW n \in Names, n \notin Range(r),
           \A c \in Calls' : c.stack \in P \cup {Append(r, n)},
           \A m \in Refers(variables, n) : Waits(Append(r, n), m)',
           \A s \in P : \A m : Declared(m, variables) /\ Waits(s, m) =>
                               (s = r /\ m = n) \/ Waits(s, m)'
    PROVE  AllWalked'
<1>1. PICK t : t = Append(r, n)
  OBVIOUS
<1>2. PICK Q : Q = P \cup {t}
  OBVIOUS
<1>3. /\ t \in Seq(Names) /\ t # <<>> /\ Len(t) = Len(r) + 1 /\ Len(r) \in Nat
      /\ \A k \in 1..Len(r) : t[k] = r[k]
      /\ Last(t) = n
  BY <1>1, RangeOfAppend
<1>4. Q \in SUBSET Seq(Names) /\ P \subseteq Q /\ <<>> \in Q
  BY <1>2, <1>3 DEF Walked
<1>5. Gone(Q, r, n)'
  BY <1>1, <1>2 DEF Gone
<1>6. ASSUME NEW s \in Q, NEW m \in Leads(s)', Declared(m, variables)'
      PROVE  Gone(Q, s, m)' \/ Waits(s, m)'
  <2>1. m \in Leads(s) /\ Declared(m, variables)
    BY <1>6 DEF Leads
  <2>2. CASE s \in P
    <3>1. Gone(P, s, m) \/ Waits(s, m)
      BY <2>1, <2>2 DEF Walked, Pursued
    <3>2. Gone(P, s, m) => Gone(Q, s, m)'
      BY <1>4, GoneStays
    <3> QED
      BY <1>5, <2>1, <2>2, <3>1, <3>2
  <2>3. CASE s = t
    <3>1. m \in Refers(variables, n)
      BY <1>3, <2>1, <2>3 DEF Leads
    <3> QED
      BY <1>1, <2>3, <3>1
  <2> QED
    BY <1>2, <2>2, <2>3
<1>7. Pursued(Q)'
  BY <1>6 DEF Pursued
<1>8. ASSUME NEW p \in Q, NEW j \in 1..Len(p)
      PROVE  \E q \in Q : Len(q) = j /\ \A i \in 1..j : q[i] = p[i]
  <2>1. CASE p \in P
    BY <1>4, <2>1 DEF Walked, Prefixed
  <2>2. CASE p = t /\ j = Len(t)
    BY <1>2, <2>2
  <2>3. CASE p = t /\ j # Len(t)
    <3>1. j \in 1..Len(r)
      BY <1>3, <2>3
    <3>2. PICK q \in P : Len(q) = j /\ \A i \in 1..j : q[i] = r[i]
      BY <3>1 DEF Walked, Prefixed
    <3>3. \A i \in 1..j : i \in 1..Len(r)
      BY <1>3, <3>1
    <3> QED
      BY <1>3, <1>4, <2>3, <3>2, <3>3
  <2> QED
    BY <1>2, <2>1, <2>2, <2>3
<1>9. Prefixed(Q)'
  BY <1>8 DEF Prefixed
<1>10. StacksIn(Q)'
  BY <1>1, <1>2 DEF StacksIn
<1>11. Walked(Q)'
  BY <1>4, <1>7, <1>9, <1>10 DEF Walked
<1> QED
  BY <1>4, <1>11 DEF AllWalked

LEMMA WaitsPut ==
    ASSUME Depths, NEW n, AtName(n), NEW o \in Seq(Counted), Put(o)
    PROVE  /\ url' = url /\ variables' = variables
           /\ \A P : StacksIn(P) => StacksIn(P)'
           /\ \A s, m : Waits(s, m) =>
                Waits(s, m)' \/ (s = call.stack /\ m = n /\ n \notin {Lit} \cup Dynamic)
<1>1. /\ callers' = callers /\ params' = params /\ call'.stack = call.stack
      /\ url' = url /\ variables' = variables
  BY PutFacts DEF Depths, template
<1>2. /\ Mentions(call.rest) \subseteq {n} \cup Mentions(call'.rest)
      /\ n \in {Lit} \cup Dynamic => Mentions(call'.rest) = Mentions(call.rest)
  BY PutMentions
<1>3. \A P : StacksIn(P) => StacksIn(P)'
  BY <1>1 DEF StacksIn, Calls
<1>4. ASSUME NEW s, NEW m, Waits(s, m),
             ~(s = call.stack /\ m = n /\ n \notin {Lit} \cup Dynamic)
      PROVE  Waits(s, m)'
  <2>1. CASE s = call.stack /\ m \in Mentions(call.rest)
    BY <1>1, <1>2, <1>4, <2>1 DEF Waits, Calls
  <2>2. CASE \E c \in Range(callers) : c.stack = s /\ m \in Mentions(c.rest)
    BY <1>1, <2>2 DEF Waits, Calls
  <2>3. CASE s = <<>> /\ \E p \in Range(params) : m \in Mentions(Interpolated(p))
    BY <1>1, <2>3 DEF Waits
  <2> QED
    BY <1>4, <2>1, <2>2, <2>3 DEF Waits, Calls
<1> QED
  BY <1>1, <1>3, <1>4

LEMMA WalkedStep ==
    Depths /\ AllOnWay /\ AllWalked /\ [Next]_vars => AllWalked'
<1> SUFFICES ASSUME Depths, AllOnWay, AllWalked, [Next]_vars
             PROVE  AllWalked'
  OBVIOUS
<1>0. /\ TypeOK /\ call.out \in Seq(Counted) /\ call.escape \in BOOLEAN
      /\ callers \in Seq(Call) /\ params \in Seq(Param)
      /\ call.stack \in Seq(Names) /\ cycles \in Seq(Seq(Names)) /\ url \in URLs
  BY CallTypes DEF Depths, TypeOK
<1>1. ASSUME NEW n \in Token
      PROVE  /\ Raw(<<n>>) \in Seq(Counted)
             /\ Escaped(call.escape, Raw(<<n>>)) \in Seq(Counted)
  <2>1. <<n>> \in Seq(Token)
    OBVIOUS
  <2>2. Raw(<<n>>) \in Seq(Counted) /\ Zero(Raw(<<n>>))
    BY <2>1, RawIsZero
  <2> QED
    BY <1>0, <2>2, EscapeOnce
<1>2. PICK P \in SUBSET Seq(Names) : Walked(P)
  BY DEF AllWalked
<1>3. StacksIn(P) /\ call.stack \in P
  BY <1>2 DEF Walked, StacksIn, Calls
(* A name that is not declared, or is not one, leads nowhere.                *)
<1>4. ASSUME NEW n, AtName(n), NEW o \in Seq(Counted), Put(o),
             n \notin {Lit} \cup Dynamic => ~Declared(n, variables),
             cycles' = cycles
      PROVE  AllWalked'
  <2>1. /\ url' = url /\ variables' = variables /\ StacksIn(P)'
        /\ \A s, m : Waits(s, m) =>
             Waits(s, m)' \/ (s = call.stack /\ m = n /\ n \notin {Lit} \cup Dynamic)
    BY <1>3, <1>4, WaitsPut
  <2>2. \A s \in P : \A m : Declared(m, variables) /\ Waits(s, m) =>
                            Gone(P, s, m)' \/ Waits(s, m)'
    BY <1>4, <2>1
  <2>3. Range(cycles) \subseteq Range(cycles')
    BY <1>4
  <2> QED
    BY <1>2, <2>1, <2>2, <2>3, WalkedSame
<1>5. CASE Literal
  BY <1>1, <1>4, <1>5, TokensDistinct DEF Literal, reports
<1>6. ASSUME NEW n \in Token, Generate(n) \/ Miss(n)
      PROVE  AllWalked'
  BY <1>1, <1>4, <1>6 DEF Generate, Miss, reports
<1>7. ASSUME NEW n \in Token, Loop(n)
      PROVE  AllWalked'
  <2>1. n \in Names /\ AtName(n) /\ OnStack(n) /\ cycles' = Note(cycles, WayBack(n))
    BY <1>7 DEF Loop, Declared
  <2>2. PICK w : w = WayBack(n)
    OBVIOUS
  <2>3. w \in Seq(Names)
    BY <2>1, <2>2, WayBackFound
  <2>4. Range(cycles') = Range(cycles) \cup {w}
    <3>1. Range(Note(cycles, w)) = Range(cycles) \cup {w}
      BY <1>0, <2>3, Noted
    <3> QED
      BY <2>1, <2>2, <3>1
  <2>5. /\ url' = url /\ variables' = variables /\ StacksIn(P)'
        /\ \A s, m : Waits(s, m) => Waits(s, m)' \/ (s = call.stack /\ m = n)
    <3>1. Raw(<<n>>) \in Seq(Counted) /\ Put(Raw(<<n>>))
      BY <1>1, <1>7 DEF Loop
    <3> QED
      BY <1>3, <2>1, <3>1, WaitsPut
  <2>6. PICK s : s = call.stack
    OBVIOUS
  <2>7. PICK i \in 1..Len(s) : s[i] = n /\ w = Append(SubSeq(s, i, Len(s)), n)
    BY <2>1, <2>2, <2>6, WayBackFound
  <2>8. Told(s, n)'
    BY <2>4, <2>7 DEF Told
  <2>9. n \in Range(s)
    BY <1>0, <2>1, <2>6, InRange DEF OnStack
  <2>10. Gone(P, s, n)'
    BY <2>8, <2>9 DEF Gone
  <2>11. \A r \in P : \A m : Declared(m, variables) /\ Waits(r, m) =>
                             Gone(P, r, m)' \/ Waits(r, m)'
    BY <2>5, <2>6, <2>10
  <2> QED
    BY <1>2, <2>4, <2>5, <2>11, WalkedSame
<1>8. ASSUME NEW n \in Token, Enter(n)
      PROVE  AllWalked'
  <2>1. PICK r : r = call.stack
    OBVIOUS
  <2>2. PICK t : t = Append(r, n)
    OBVIOUS
  <2>3. /\ n \in Names /\ n \notin Range(r)
        /\ call' = [rest |-> variables[n], stack |-> Append(call.stack, n),
                    escape |-> FALSE, out |-> <<>>]
    BY <1>0, <1>8, <2>1, EnterFacts
  <2>4. /\ call'.rest = variables[n] /\ call'.stack = t
        /\ Declared(n, variables) /\ url' = url /\ variables' = variables
        /\ params' = params /\ cycles' = cycles
    BY <1>8, <2>1, <2>2, <2>3 DEF Enter, template, reports
  <2>5. PICK c \in Call : /\ callers' = Append(callers, c) /\ c.stack = call.stack
                          /\ Range(call.rest) = {n} \cup Range(c.rest)
    BY <1>0, <1>8, EnterFacts
  <2>6. Range(callers') = Range(callers) \cup {c}
    BY <1>0, <2>5, RangeOfAppend
  <2>7. \A m \in Mentions(call.rest) : m = n \/ m \in Mentions(c.rest)
    BY <2>5 DEF Mentions
  <2>8. Mentions(call'.rest) = Refers(variables, n)
    BY <2>4 DEF Refers
  <2>9. \A m \in Refers(variables, n) : Waits(t, m)'
    BY <2>4, <2>8 DEF Waits, Calls
  <2>10. \A d \in Calls' : d.stack \in P \cup {t}
    BY <1>3, <2>4, <2>5, <2>6 DEF StacksIn, Calls
  <2>11. ASSUME NEW s \in P, NEW m, Waits(s, m)
         PROVE  (s = r /\ m = n) \/ Waits(s, m)'
    <3>1. CASE s = r /\ m \in Mentions(call.rest)
      BY <2>1, <2>5, <2>6, <2>7, <3>1 DEF Waits, Calls
    <3>2. CASE \E d \in Range(callers) : d.stack = s /\ m \in Mentions(d.rest)
      BY <2>6, <3>2 DEF Waits, Calls
    <3>3. CASE s = <<>> /\ \E p \in Range(params) : m \in Mentions(Interpolated(p))
      BY <2>4, <3>3 DEF Waits
    <3> QED
      BY <2>1, <2>11, <3>1, <3>2, <3>3 DEF Waits, Calls
  <2>12. /\ r \in P /\ Range(cycles) \subseteq Range(cycles')
    BY <1>3, <2>1, <2>4
  <2> QED
    BY <1>2, <2>2, <2>3, <2>4, <2>9, <2>10, <2>11, <2>12, WalkedMore
<1>9. ASSUME url' = url, variables' = variables, cycles' = cycles, StacksIn(P)',
             \A s, m : Waits(s, m) => Waits(s, m)'
      PROVE  AllWalked'
  BY <1>2, <1>9, WalkedSame
<1>10. CASE Return
  <2>1. /\ callers # <<>> /\ callers' = Front(callers) /\ call.rest = <<>>
        /\ url' = url /\ variables' = variables /\ cycles' = cycles
        /\ params' = params
    BY <1>10 DEF Return, template, reports
  <2>2. PICK c : c = Last(callers)
    OBVIOUS
  <2>3. Range(callers) = Range(callers') \cup {c} /\ c \in Call
    BY <1>0, <2>1, <2>2, RangeOfFront
  <2>4. call' = [c EXCEPT !.out = @ \o Escaped(c.escape, call.out)]
    BY <1>10, <2>2 DEF Return
  <2>5. call'.rest = c.rest /\ call'.stack = c.stack
    BY <2>3, <2>4 DEF Call
  <2>6. StacksIn(P)'
    BY <1>3, <2>3, <2>5 DEF StacksIn, Calls
  <2>7. ASSUME NEW s, NEW m, Waits(s, m)
        PROVE  Waits(s, m)'
    <3>1. m \notin Mentions(call.rest)
      BY <2>1, MentionsFacts
    <3>2. CASE \E d \in Range(callers) : d.stack = s /\ m \in Mentions(d.rest)
      BY <2>3, <2>5, <3>2 DEF Waits, Calls
    <3>3. CASE s = <<>> /\ \E p \in Range(params) : m \in Mentions(Interpolated(p))
      BY <2>1, <3>3 DEF Waits
    <3> QED
      BY <2>7, <3>1, <3>2, <3>3 DEF Waits, Calls
  <2> QED
    BY <1>9, <2>1, <2>6, <2>7
<1>11. CASE NextParam
  <2>1. PICK p : p = Head(params)
    OBVIOUS
  <2>2. p \in Param /\ Range(params) = {p} \cup Range(params')
    BY <1>0, <1>11, <2>1, RangeOfHead DEF NextParam
  <2>3. /\ call' = Open(p).call /\ callers' = <<>> /\ callers = <<>>
        /\ call.rest = <<>> /\ cycles' = cycles
        /\ url' = url /\ variables' = variables
    BY <1>11, <2>1 DEF NextParam, Ready, template, reports
  <2>4. call'.rest = Interpolated(p) /\ call'.stack = <<>>
    BY <2>2, <2>3, OpenFacts, OutermostFacts
  <2>5. Calls' = {call'} /\ Calls = {call}
    BY <2>3, EmptyRange DEF Calls
  <2>6. StacksIn(P)'
    BY <1>2, <2>4, <2>5 DEF StacksIn, Walked
  <2>7. ASSUME NEW s, NEW m, Waits(s, m)
        PROVE  Waits(s, m)'
    <3>1. PICK q \in Range(params) : s = <<>> /\ m \in Mentions(Interpolated(q))
      BY <2>3, <2>5, <2>7, MentionsFacts DEF Waits
    <3>2. CASE q = p
      BY <2>4, <2>5, <3>1, <3>2 DEF Waits
    <3>3. CASE q # p
      BY <2>2, <3>1, <3>3 DEF Waits
    <3> QED
      BY <3>2, <3>3
  <2> QED
    BY <1>9, <2>3, <2>6, <2>7
<1>12. CASE Finish
  <2>1. /\ call' = Outermost(<<>>, FALSE) /\ callers' = <<>> /\ callers = <<>>
        /\ call.rest = <<>> /\ cycles' = cycles /\ params' = params
        /\ url' = url /\ variables' = variables
    BY <1>12 DEF Finish, Ready, template, reports
  <2>2. call'.stack = <<>>
    <3>1. <<>> \in Seq(Token) /\ FALSE \in BOOLEAN
      OBVIOUS
    <3> QED
      BY <2>1, <3>1, OutermostFacts
  <2>3. Calls' = {call'} /\ Calls = {call}
    BY <2>1, EmptyRange DEF Calls
  <2>4. StacksIn(P)'
    BY <1>2, <2>2, <2>3 DEF StacksIn, Walked
  <2>5. ASSUME NEW s, NEW m, Waits(s, m)
        PROVE  Waits(s, m)'
    <3>1. s = <<>> /\ \E p \in Range(params) : m \in Mentions(Interpolated(p))
      BY <2>1, <2>3, <2>5, MentionsFacts DEF Waits
    <3> QED
      BY <2>1, <3>1 DEF Waits
  <2> QED
    BY <1>9, <2>1, <2>4, <2>5
<1>13. ASSUME NEW n \in Names, NEW x \in ScriptTexts, ScriptSet(n, x)
       PROVE  AllWalked'
  <2>1. /\ url' \in URLs /\ params' = url'.query /\ callers' = <<>>
        /\ call' = Outermost(url'.base, FALSE) /\ missing' = <<>>
    BY <1>0, <1>13 DEF ScriptSet, Depths, IdleWhenDone
  <2>2. variables' \in Vars
    BY <1>13, DepthsStep DEF Depths, TypeOK
  <2>3. (Starting => AllWalked)'
    BY WalkedStart, PTL
  <2> QED
    BY <2>1, <2>2, <2>3 DEF Starting
<1>14. CASE UNCHANGED vars
  <2>1. /\ url' = url /\ variables' = variables /\ cycles' = cycles
        /\ call' = call /\ callers' = callers /\ params' = params
    BY <1>14 DEF vars, template, reports
  <2>2. Calls' = Calls
    BY <2>1 DEF Calls
  <2>3. StacksIn(P)' /\ \A s, m : Waits(s, m) => Waits(s, m)'
    BY <1>3, <2>1, <2>2 DEF StacksIn, Waits
  <2> QED
    BY <1>9, <2>1, <2>3
<1> QED
  BY <1>5, <1>6, <1>7, <1>8, <1>10, <1>11, <1>12, <1>13, <1>14 DEF Next

-----------------------------------------------------------------------------
(* When nothing is left to be looked at ...                                  *)
Complete(P) ==
    /\ P \subseteq Seq(Names) /\ <<>> \in P /\ Prefixed(P)
    /\ \A s \in P : \A m \in Leads(s) : Declared(m, variables) => Gone(P, s, m)

(* ... every declared name that can be reached has been entered ...          *)
LEMMA EveryNameEntered ==
    ASSUME url \in URLs, variables \in Vars, NEW P, Complete(P),
           NEW n \in Reachable(url, variables), Declared(n, variables)
    PROVE  \E p \in P : p # <<>> /\ Last(p) = n
<1> DEFINE S == {m \in Nodes : Declared(m, variables) =>
                                 \E p \in P : p # <<>> /\ Last(p) = m}
<1>1. ASSUME NEW s \in P, NEW m \in Leads(s), Declared(m, variables)
      PROVE  \E p \in P : p # <<>> /\ Last(p) = m
  <2>1. Gone(P, s, m) /\ s \in Seq(Names) /\ m \in Names
    BY <1>1 DEF Complete, Declared
  <2>2. CASE m \notin Range(s)
    <3>1. Append(s, m) \in P /\ Append(s, m) # <<>> /\ Last(Append(s, m)) = m
      BY <2>1, <2>2, RangeOfAppend DEF Gone
    <3> QED
      BY <3>1
  <2>3. CASE m \in Range(s)
    <3>1. PICK j \in 1..Len(s) : s[j] = m
      BY <2>1, <2>3 DEF Range
    <3>2. PICK q \in P : Len(q) = j /\ \A i \in 1..j : q[i] = s[i]
      BY <3>1 DEF Complete, Prefixed
    <3>3. j \in 1..j /\ j # 0
      BY <2>1, <3>1
    <3>4. q \in Seq(Names) /\ q # <<>>
      <4>1. q \in Seq(Names)
        BY DEF Complete
      <4> QED
        BY <3>2, <3>3, <4>1
    <3> QED
      BY <3>1, <3>2, <3>3, <3>4 DEF Last
  <2> QED
    BY <2>2, <2>3
<1>2. Start(url) \subseteq S
  <2>1. ASSUME NEW m \in Start(url), Declared(m, variables)
        PROVE  \E p \in P : p # <<>> /\ Last(p) = m
    <3>1. <<>> \in P /\ m \in Leads(<<>>)
      BY DEF Complete, Leads
    <3> QED
      BY <1>1, <2>1, <3>1
  <2> QED
    BY <2>1, StartFacts
<1>3. ASSUME NEW m \in S
      PROVE  Refers(variables, m) \subseteq S
  <2>1. CASE ~Declared(m, variables)
    BY <2>1 DEF Refers
  <2>2. CASE Declared(m, variables)
    <3>1. PICK p \in P : p # <<>> /\ Last(p) = m
      BY <1>3, <2>2
    <3>2. Leads(p) = Refers(variables, m)
      BY <3>1 DEF Leads
    <3> HIDE DEF S
    <3>3. ASSUME NEW k \in Refers(variables, m)
          PROVE  k \in S
      <4>1. k \in Nodes
        BY RefersFacts
      <4>2. Declared(k, variables) => \E r \in P : r # <<>> /\ Last(r) = k
        BY <1>1, <3>2
      <4> QED
        BY <4>1, <4>2 DEF S
    <3> QED
      BY <3>3
  <2> QED
    BY <2>1, <2>2
<1> HIDE DEF S
<1>4. Closed(S, url, variables) /\ S \in SUBSET Nodes
  BY <1>2, <1>3 DEF Closed, S
<1>5. n \in S
  BY <1>4, ReachableLeast
<1> QED
  BY <1>5 DEF S

(* ... and every cycle that can be reached has been walked through, from the *)
(* name where a shortest stack enters it until it closes there.              *)
LEMMA EveryCycleTold ==
    ASSUME url \in URLs, variables \in Vars, NEW P, Complete(P),
           NEW w \in CyclesOf(url, variables)
    PROVE  \E c \in Range(cycles) : w \in Turns(Front(c))
<1>1. /\ w \in Seq(Names) /\ w # <<>> /\ IsInjective(w)
      /\ w[1] \in Reachable(url, variables) /\ Cyclic(variables, w)
  BY CyclesAre
<1>2. PICK l : l = Len(w)
  OBVIOUS
<1>3. l \in Nat /\ l > 0 /\ 1 \in 1..l /\ DOMAIN w = 1..l
  BY <1>1, <1>2
<1>4. \A k \in 1..l : Declared(w[k], variables)
  BY <1>1, <1>2 DEF Cyclic, Refers
<1>5. PICK p0 \in P : p0 # <<>> /\ Last(p0) = w[1]
  BY <1>1, <1>3, <1>4, EveryNameEntered
<1>6. \A q \in P : q \in Seq(Names) /\ Len(q) \in Nat
  BY DEF Complete
<1> DEFINE Enters(q) == q # <<>> /\ Last(q) \in Range(w)
           Lengths == {Len(q) : q \in {r \in P : Enters(r)}}
<1>7. PICK p \in P : Enters(p) /\ \A q \in P : Enters(q) => Len(p) <= Len(q)
  <2>1. w[1] \in Range(w)
    BY <1>3 DEF Range
  <2>2. Len(p0) \in Lengths /\ Lengths \subseteq Nat
    BY <1>5, <1>6, <2>1
  <2>3. PICK a \in Lengths : \A b \in Lengths : a <= b
    BY <2>2, LeastNumber
  <2> QED
    BY <2>3
<1> HIDE DEF Lengths
<1>8. p \in Seq(Names) /\ Len(p) \in Nat /\ Len(p) > 0
  <2>1. p \in Seq(Names) /\ p # <<>>
    BY <1>6, <1>7
  <2> QED
    BY <2>1
<1>9. PICK lp : lp = Len(p)
  OBVIOUS
<1>10. lp \in Nat /\ lp > 0 /\ Last(p) = p[lp]
  BY <1>8, <1>9 DEF Last
<1>11. ASSUME NEW j \in 1..lp, j < lp
       PROVE  p[j] \notin Range(w)
  <2>1. SUFFICES ASSUME p[j] \in Range(w)
                 PROVE  FALSE
    OBVIOUS
  <2>2. PICK q \in P : Len(q) = j /\ \A i \in 1..j : q[i] = p[i]
    BY <1>9 DEF Complete, Prefixed
  <2>3. j \in 1..j /\ j # 0 /\ j \in Nat
    BY <1>10
  <2>4. q # <<>>
    <3>1. q \in Seq(Names)
      BY <1>6
    <3> QED
      BY <2>2, <2>3, <3>1
  <2>5. Last(q) = p[j]
    BY <2>2, <2>3 DEF Last
  <2>6. lp <= j
    BY <1>7, <1>9, <2>1, <2>2, <2>4, <2>5
  <2> QED
    BY <1>10, <1>11, <2>3, <2>6
<1>12. PICK i \in 1..l : Last(p) = w[i]
  BY <1>3, <1>7 DEF Range
<1>13. PICK d \in 1..l : Turn(w, d)[1] = w[i]
  BY <1>1, <1>2, TurnTo
<1>14. PICK t : t = Turn(w, d)
  OBVIOUS
<1>15. /\ t \in Seq(Names) /\ Len(t) = l /\ t # <<>> /\ Range(t) \subseteq Range(w)
  BY <1>1, <1>2, <1>14, TurnShape
<1>16. IsInjective(t) /\ Cyclic(variables, t)
  BY <1>1, <1>2, <1>14, TurnInjective, TurnCyclic
<1>17. /\ DOMAIN t = 1..l /\ t[1] = p[lp]
       /\ \A k \in 1..l : t[k] \in Range(w)
  BY <1>10, <1>12, <1>13, <1>14, <1>15 DEF Range
<1>18. \A j, k \in 1..l : t[j] = t[k] => j = k
  BY <1>16, <1>17 DEF IsInjective
<1>19. \A k \in 1..l : /\ t[After(l, k)] \in Refers(variables, t[k])
                       /\ Declared(t[k], variables)
  BY <1>15, <1>16 DEF Cyclic, After, Refers
(* A stack that goes on from p along the cycle.                              *)
<1> DEFINE Along(q, k) == /\ Len(q) = lp + k
                          /\ \A j \in 1..lp : q[j] = p[j]
                          /\ \A j \in 1..l : j <= k + 1 => q[lp + j - 1] = t[j]
<1>20. ASSUME NEW q \in P, NEW k \in Nat, k < l, Along(q, k), NEW m \in 1..l,
              NEW j \in 1..Len(q), q[j] = t[m]
       PROVE  j = lp + m - 1 /\ m <= k + 1
  <2>1. CASE j < lp
    <3>1. j \in 1..lp
      BY <1>10, <1>20, <2>1
    <3> QED
      BY <1>11, <1>17, <1>20, <2>1, <3>1
  <2>2. CASE j >= lp
    <3>1. PICK a : a = j - lp + 1
      OBVIOUS
    <3>2. a \in 1..l /\ a <= k + 1 /\ j = lp + a - 1
      BY <1>3, <1>10, <1>20, <2>2, <3>1
    <3>3. q[j] = t[a]
      BY <1>20, <3>2
    <3>4. a = m
      BY <1>18, <1>20, <3>2, <3>3
    <3> QED
      BY <3>2, <3>4
  <2>3. j \in Nat
    BY <1>10, <1>20
  <2> QED
    BY <1>10, <2>1, <2>2, <2>3
<1>21. ASSUME NEW q \in P, NEW k \in Nat, k < l, Along(q, k)
       PROVE  /\ q \in Seq(Names) /\ q # <<>> /\ Len(q) = lp + k
              /\ Last(q) = t[k + 1] /\ k + 1 \in 1..l
              /\ Leads(q) = Refers(variables, t[k + 1])
  <2>1. k + 1 \in 1..l /\ lp + (k + 1) - 1 = lp + k /\ lp + k # 0
    BY <1>3, <1>10, <1>21
  <2>2. q \in Seq(Names)
    BY <1>6
  <2>3. Len(q) = lp + k /\ q[lp + k] = t[k + 1]
    BY <1>21, <2>1
  <2>4. q # <<>>
    BY <2>1, <2>2, <2>3
  <2> QED
    BY <2>1, <2>2, <2>3, <2>4 DEF Last, Leads
<1> HIDE DEF Along
<1> DEFINE S == {k \in Nat : k < l => \E q \in P : Along(q, k)}
<1>22. 0 \in S
  <2>1. Along(p, 0)
    <3>1. Len(p) = lp + 0
      BY <1>9, <1>10
    <3>2. ASSUME NEW j \in 1..l, j <= 0 + 1
          PROVE  p[lp + j - 1] = t[j]
      <4>1. j = 1 /\ lp + j - 1 = lp
        BY <1>3, <1>10, <3>2
      <4> QED
        BY <1>17, <4>1
    <3> QED
      BY <3>1, <3>2 DEF Along
  <2> QED
    BY <2>1
<1>23. ASSUME NEW k \in Nat, k \in S
       PROVE  k + 1 \in S
  <2>1. CASE ~(k + 1 < l)
    BY <2>1
  <2>2. CASE k + 1 < l
    <3>1. k < l
      BY <1>3, <2>2
    <3>2. PICK q \in P : Along(q, k)
      BY <1>23, <3>1
    <3>3. /\ q \in Seq(Names) /\ Len(q) = lp + k /\ k + 1 \in 1..l
          /\ Leads(q) = Refers(variables, t[k + 1])
      BY <1>21, <3>1, <3>2
    <3>4. k + 2 \in 1..l /\ After(l, k + 1) = k + 2
      <4>1. k + 2 \in 1..l /\ k + 1 # l /\ (k + 1) + 1 = k + 2
        BY <1>3, <2>2
      <4>2. After(l, k + 1) = IF k + 1 = l THEN 1 ELSE (k + 1) + 1
        BY <1>3, <3>3, Afters
      <4> QED
        BY <4>1, <4>2
    <3>5. PICK m : m = t[k + 2]
      OBVIOUS
    <3>6. m \in Leads(q) /\ Declared(m, variables) /\ m \in Names
      BY <1>19, <3>3, <3>4, <3>5 DEF Declared
    <3>7. m \notin Range(q)
      <4>1. SUFFICES ASSUME NEW j \in 1..Len(q), q[j] = m
                     PROVE  FALSE
        BY <3>3 DEF Range
      <4>2. k + 2 <= k + 1
        BY <1>20, <3>1, <3>2, <3>4, <3>5, <4>1
      <4> QED
        BY <4>2
    <3>8. PICK r : r = Append(q, m)
      OBVIOUS
    <3>9. r \in P
      BY <3>6, <3>7, <3>8 DEF Complete, Gone
    <3>10. /\ Len(r) = Len(q) + 1 /\ \A j \in 1..Len(q) : r[j] = q[j]
           /\ r[Len(q) + 1] = m
      BY <3>3, <3>6, <3>8, RangeOfAppend
    <3>11. Len(r) = lp + (k + 1)
      BY <1>10, <3>3, <3>10
    <3>12. ASSUME NEW j \in 1..lp
           PROVE  r[j] = p[j]
      <4>1. j \in 1..Len(q)
        BY <1>10, <3>3
      <4> QED
        BY <3>2, <3>10, <4>1 DEF Along
    <3>13. ASSUME NEW j \in 1..l, j <= (k + 1) + 1
           PROVE  r[lp + j - 1] = t[j]
      <4>1. CASE j <= k + 1
        <5>1. lp + j - 1 \in 1..Len(q)
          BY <1>3, <1>10, <3>3, <4>1
        <5> QED
          BY <3>2, <3>10, <4>1, <5>1 DEF Along
      <4>2. CASE j = k + 2
        <5>1. lp + j - 1 = Len(q) + 1
          BY <1>10, <3>3, <4>2
        <5> QED
          BY <3>5, <3>10, <4>2, <5>1
      <4>3. j <= k + 1 \/ j = k + 2
        BY <1>3, <3>13
      <4> QED
        BY <4>1, <4>2, <4>3
    <3>14. Along(r, k + 1)
      BY <3>11, <3>12, <3>13 DEF Along
    <3> QED
      BY <3>9, <3>14
  <2> QED
    BY <2>1, <2>2
<1> HIDE DEF S
<1>24. Nat \subseteq S
  BY <1>22, <1>23, Counting
<1>25. l - 1 \in Nat /\ l - 1 < l /\ (l - 1) + 1 = l /\ l \in 1..l
  BY <1>3
<1>26. PICK q \in P : Along(q, l - 1)
  BY <1>24, <1>25 DEF S
<1>27. /\ q \in Seq(Names) /\ Len(q) = lp + (l - 1)
       /\ Leads(q) = Refers(variables, t[l])
  BY <1>21, <1>25, <1>26
<1>28. t[1] \in Leads(q) /\ Declared(t[1], variables)
  <2>1. After(l, l) = 1
    BY <1>3, <1>25, Afters
  <2> QED
    BY <1>3, <1>19, <1>25, <1>27, <2>1
<1>29. Gone(P, q, t[1])
  BY <1>28 DEF Complete
<1>30. lp \in 1..Len(q) /\ q[lp] = t[1]
  <2>1. lp \in 1..Len(q) /\ lp \in 1..lp
    BY <1>3, <1>10, <1>27
  <2> QED
    BY <1>17, <1>26, <2>1 DEF Along
<1>31. t[1] \in Range(q)
  BY <1>27, <1>30 DEF Range
<1>32. PICK a \in 1..Len(q) :
         q[a] = t[1] /\ Append(SubSeq(q, a, Len(q)), t[1]) \in Range(cycles)
  BY <1>29, <1>31 DEF Gone, Told
<1>33. a = lp
  <2>1. a = lp + 1 - 1
    BY <1>3, <1>20, <1>25, <1>26, <1>32
  <2> QED
    BY <1>10, <2>1
<1>34. PICK f : f = SubSeq(q, lp, Len(q))
  OBVIOUS
<1>35. /\ f \in Seq(Names) /\ Len(f) = Len(q) - lp + 1
       /\ \A k \in 1..Len(f) : f[k] = q[lp + k - 1]
  BY <1>27, <1>30, <1>34, WayShape
<1>36. Len(f) = l
  BY <1>3, <1>10, <1>27, <1>35
<1>37. ASSUME NEW k \in 1..l
       PROVE  f[k] = t[k]
  <2>1. k <= (l - 1) + 1
    BY <1>3
  <2>2. q[lp + k - 1] = t[k]
    BY <1>26, <2>1 DEF Along
  <2> QED
    BY <1>35, <1>36, <2>2
<1>38. f = t
  BY <1>15, <1>35, <1>36, <1>37
<1>39. PICK c : c = Append(t, t[1])
  OBVIOUS
<1>40. c \in Range(cycles)
  BY <1>32, <1>33, <1>34, <1>38, <1>39
<1>41. t[1] \in Names
  BY <1>3, <1>15
<1>42. Front(c) = t
  BY <1>15, <1>39, <1>41, FrontOfAppend
<1>43. w \in Turns(t)
  <2>1. PICK e \in 1..l : w = Turn(t, e)
    BY <1>1, <1>2, <1>14, TurnBack
  <2> QED
    BY <1>17, <2>1 DEF Turns, Turn
<1> QED
  BY <1>40, <1>42, <1>43

LEMMA DoneCycles ==
    Depths /\ CyclesFound /\ AllWalked /\ phase = "done" =>
        UNION {Turns(Front(c)) : c \in Range(cycles)} = CyclesOf(url, variables)
<1> SUFFICES ASSUME Depths, CyclesFound, AllWalked, phase = "done"
             PROVE  UNION {Turns(Front(c)) : c \in Range(cycles)}
                      = CyclesOf(url, variables)
  OBVIOUS
<1>1. PICK P \in SUBSET Seq(Names) : Walked(P)
  BY DEF AllWalked
<1>2. callers = <<>> /\ params = <<>> /\ call.rest = <<>>
  BY DEF Depths, IdleWhenDone
<1>3. Calls = {call} /\ Range(params) = {} /\ Mentions(call.rest) = {}
  BY <1>2, EmptyRange, MentionsFacts DEF Calls
<1>4. \A s, m : ~Waits(s, m)
  BY <1>3 DEF Waits
<1>5. Complete(P)
  BY <1>1, <1>4 DEF Walked, Pursued, Complete
<1>6. url \in URLs /\ variables \in Vars
  BY DEF Depths, TypeOK
<1>7. ASSUME NEW w \in CyclesOf(url, variables)
      PROVE  w \in UNION {Turns(Front(c)) : c \in Range(cycles)}
  <2>1. PICK c \in Range(cycles) : w \in Turns(Front(c))
    BY <1>5, <1>6, EveryCycleTold
  <2> QED
    BY <2>1
<1>8. ASSUME NEW c \in Range(cycles)
      PROVE  Turns(Front(c)) \subseteq CyclesOf(url, variables)
  BY CyclesTurn DEF CyclesFound, IsCycle
<1> QED
  BY <1>7, <1>8

(* What ApplyURL reports as cycles are cycles, and every elementary cycle    *)
(* that the request leads to is reported from where it is entered: marking   *)
(* names by the stack of the call, and not once for all, misses none.        *)
THEOREM CyclesAreExact == Spec => []CyclesExact
<1> DEFINE Inv == Depths /\ Reached /\ Followed /\ AllOnWay /\ CyclesFound /\ AllWalked
<1>1. Init => Inv
  <2>1. Init => AllWalked
    BY WalkedStart DEF Init, Starting
  <2> QED
    BY <2>1, DepthsInit, FollowedInit, CyclesFoundInit
<1>2. Inv /\ [Next]_vars => Inv'
  BY DepthsStep, FollowedStep, CyclesFoundStep, WalkedStep
<1>3. Inv => CyclesExact
  BY DoneCycles DEF CyclesExact, CyclesFound, IsCycle
<1> QED
  BY <1>1, <1>2, <1>3, PTL DEF Spec
=============================================================================
