-------------------------- MODULE Interpolate_proofs --------------------------
(* Theorems about Interpolate: what the calls of expand do to the text and    *)
(* what they report, for any variables and any URL.                          *)
EXTENDS Interpolate, FiniteSetTheorems, Lists_proofs, TLAPS

Counted == Token \X {0, 1}
Zero(o) == \A k \in 1..Len(o) : o[k][2] = 0
Calls == {call} \cup Range(callers)

-----------------------------------------------------------------------------
(* Sequences                                                                 *)
LEMMA RangeOfHead ==
    ASSUME NEW T, NEW s \in Seq(T), s # <<>>
    PROVE  /\ Head(s) \in T /\ Tail(s) \in Seq(T)
           /\ Range(s) = {Head(s)} \cup Range(Tail(s))
<1>1. /\ Head(s) \in T /\ Tail(s) \in Seq(T) /\ Head(s) = s[1]
      /\ Len(s) \in Nat /\ Len(s) > 0 /\ Len(Tail(s)) = Len(s) - 1
      /\ DOMAIN s = 1..Len(s) /\ DOMAIN Tail(s) = 1..Len(Tail(s))
      /\ \A k \in 1..Len(Tail(s)) : Tail(s)[k] = s[k + 1]
  OBVIOUS
<1>2. ASSUME NEW x \in Range(s)
      PROVE  x \in {Head(s)} \cup Range(Tail(s))
  <2>1. PICK k \in 1..Len(s) : x = s[k]
    BY <1>1, <1>2 DEF Range
  <2>2. CASE k = 1
    BY <1>1, <2>1, <2>2
  <2>3. CASE k # 1
    <3>1. k - 1 \in 1..Len(Tail(s)) /\ (k - 1) + 1 = k
      BY <1>1, <2>3
    <3> QED
      BY <1>1, <2>1, <3>1 DEF Range
  <2> QED
    BY <2>2, <2>3
<1>3. ASSUME NEW x \in Range(Tail(s))
      PROVE  x \in Range(s)
  <2>1. PICK k \in 1..Len(Tail(s)) : x = Tail(s)[k]
    BY <1>1, <1>3 DEF Range
  <2>2. k + 1 \in 1..Len(s)
    BY <1>1, <2>1
  <2> QED
    BY <1>1, <2>1, <2>2 DEF Range
<1>4. Head(s) \in Range(s)
  BY <1>1 DEF Range
<1> QED
  BY <1>1, <1>2, <1>3, <1>4

LEMMA RangeOfAppend ==
    ASSUME NEW T, NEW s \in Seq(T), NEW x \in T
    PROVE  /\ Append(s, x) \in Seq(T) /\ Append(s, x) # <<>>
           /\ Len(Append(s, x)) = Len(s) + 1 /\ Len(s) \in Nat
           /\ \A k \in 1..Len(s) : Append(s, x)[k] = s[k]
           /\ Append(s, x)[Len(s) + 1] = x
           /\ Last(Append(s, x)) = x
           /\ Range(Append(s, x)) = Range(s) \cup {x}
<1> DEFINE t == Append(s, x)
<1>1. /\ t \in Seq(T) /\ Len(t) = Len(s) + 1 /\ Len(s) \in Nat
      /\ DOMAIN t = 1..Len(t) /\ DOMAIN s = 1..Len(s)
      /\ t[Len(s) + 1] = x /\ \A k \in 1..Len(s) : t[k] = s[k]
  OBVIOUS
<1>2. \A k \in 1..Len(t) : k \in 1..Len(s) \/ k = Len(s) + 1
  BY <1>1
<1>3. (\A k \in 1..Len(s) : k \in 1..Len(t)) /\ Len(s) + 1 \in 1..Len(t)
  BY <1>1
<1>4. Range(t) = Range(s) \cup {x}
  <2> HIDE DEF t
  <2>1. ASSUME NEW y \in Range(t) PROVE y \in Range(s) \cup {x}
    BY <1>1, <1>2, <2>1 DEF Range
  <2>2. ASSUME NEW y \in Range(s) \cup {x} PROVE y \in Range(t)
    BY <1>1, <1>3, <2>2 DEF Range
  <2> QED
    BY <2>1, <2>2
<1> QED
  BY <1>1, <1>4 DEF Last

LEMMA RangeOfFront ==
    ASSUME NEW T, NEW s \in Seq(T), s # <<>>
    PROVE  /\ Front(s) \in Seq(T) /\ Last(s) \in T /\ Last(s) \in Range(s)
           /\ Len(s) \in Nat /\ Len(s) > 0 /\ Len(Front(s)) = Len(s) - 1
           /\ \A k \in 1..Len(Front(s)) : Front(s)[k] = s[k]
           /\ Range(Front(s)) \subseteq Range(s)
           /\ Range(s) = Range(Front(s)) \cup {Last(s)}
<1>1. /\ Len(s) \in Nat /\ Len(s) > 0 /\ DOMAIN s = 1..Len(s)
      /\ Len(s) \in 1..Len(s)
  OBVIOUS
<1>2. /\ Front(s) \in Seq(T) /\ Len(Front(s)) = Len(s) - 1
      /\ Len(Front(s)) \in Nat
      /\ DOMAIN Front(s) = 1..Len(Front(s))
      /\ \A k \in 1..Len(Front(s)) : Front(s)[k] = s[k]
  BY <1>1 DEF Front
<1>3. \A k \in 1..Len(Front(s)) : k \in 1..Len(s)
  BY <1>1, <1>2
<1>4. ASSUME NEW k \in 1..Len(s), k # Len(s)
      PROVE  k \in 1..Len(Front(s))
  <2>1. k \in Nat /\ 1 <= k /\ k <= Len(s) - 1
    <3>1. Len(s) \in Nat
      OBVIOUS
    <3> QED
      BY <1>4, <3>1
  <2> QED
    BY <1>2, <2>1
<1>5. Last(s) \in T /\ Last(s) \in Range(s)
  BY <1>1 DEF Last, Range
<1>6. Range(Front(s)) \subseteq Range(s)
  BY <1>1, <1>2, <1>3 DEF Range
<1>7. ASSUME NEW x \in Range(s) PROVE x \in Range(Front(s)) \cup {Last(s)}
  BY <1>1, <1>2, <1>4, <1>7 DEF Range, Last
<1> QED
  BY <1>1, <1>2, <1>5, <1>6, <1>7

LEMMA EmptyRange == Range(<<>>) = {}
  BY DEF Range

LEMMA InRange ==
    ASSUME NEW T, NEW s \in Seq(T)
    PROVE  /\ Range(s) \subseteq T
           /\ \A x : Contains(s, x) <=> x \in Range(s)
  BY DEF Range, Contains

(* A list in which the first of each is kept.                                *)
LEMMA Noted ==
    ASSUME NEW T, NEW s \in Seq(T), NEW x \in T
    PROVE  /\ Note(s, x) \in Seq(T)
           /\ Range(Note(s, x)) = Range(s) \cup {x}
           /\ IsInjective(s) => IsInjective(Note(s, x))
<1>1. CASE Contains(s, x)
  BY <1>1, InRange DEF Note
<1>2. CASE ~Contains(s, x)
  <2>1. Note(s, x) = Append(s, x)
    BY <1>2 DEF Note
  <2>2. ASSUME IsInjective(s)
        PROVE  IsInjective(Append(s, x))
    <3> DEFINE t == Append(s, x)
    <3>1. /\ Len(t) = Len(s) + 1 /\ Len(s) \in Nat
          /\ \A k \in 1..Len(s) : t[k] = s[k] /\ t[k] # x
          /\ t[Len(s) + 1] = x /\ DOMAIN t = 1..Len(t) /\ DOMAIN s = 1..Len(s)
      BY <1>2, RangeOfAppend DEF Contains
    <3>2. \A k \in 1..Len(t) : k \in 1..Len(s) \/ k = Len(s) + 1
      BY <3>1
    <3> HIDE DEF t
    <3>3. ASSUME NEW j \in 1..Len(t), NEW k \in 1..Len(t), t[j] = t[k]
          PROVE  j = k
      BY <2>2, <3>1, <3>2, <3>3 DEF IsInjective
    <3>4. IsInjective(t)
      BY <3>1, <3>3 DEF IsInjective
    <3> QED
      BY <3>4 DEF t
  <2> QED
    BY <2>1, <2>2, RangeOfAppend
<1> QED
  BY <1>1, <1>2

LEMMA ZeroJoined ==
    ASSUME NEW o \in Seq(Counted), NEW q \in Seq(Counted), Zero(o), Zero(q)
    PROVE  Zero(o \o q)
<1>1. /\ Len(o \o q) = Len(o) + Len(q) /\ Len(o) \in Nat /\ Len(q) \in Nat
      /\ \A k \in 1..Len(o) : (o \o q)[k] = o[k]
      /\ \A k \in 1..Len(q) : (o \o q)[Len(o) + k] = q[k]
  OBVIOUS
<1>2. ASSUME NEW k \in 1..Len(o \o q)
      PROVE  (o \o q)[k][2] = 0
  <2>1. CASE k <= Len(o)
    BY <1>1, <2>1 DEF Zero
  <2>2. CASE k > Len(o)
    <3>1. k - Len(o) \in 1..Len(q) /\ k = Len(o) + (k - Len(o))
      BY <1>1, <2>2
    <3>2. (o \o q)[k] = q[k - Len(o)]
      BY <1>1, <3>1
    <3> QED
      BY <3>1, <3>2 DEF Zero
  <2> QED
    BY <1>1, <2>1, <2>2
<1> QED
  BY <1>2 DEF Zero

LEMMA RawIsZero ==
    ASSUME NEW s \in Seq(Token)
    PROVE  Raw(s) \in Seq(Counted) /\ Zero(Raw(s)) /\ Len(Raw(s)) = Len(s)
<1>1. Len(s) \in Nat /\ \A k \in 1..Len(s) : s[k] \in Token
  OBVIOUS
<1>2. Raw(s) \in [1..Len(s) -> Counted]
  BY <1>1 DEF Raw, Counted
<1>3. Raw(s) \in Seq(Counted) /\ Len(Raw(s)) = Len(s)
  BY <1>1, <1>2
<1> QED
  BY <1>3 DEF Raw, Zero

LEMMA EscapeOnce ==
    ASSUME NEW o \in Seq(Counted), Zero(o), NEW e \in BOOLEAN
    PROVE  Escaped(e, o) \in Seq(Counted) /\ (~e => Escaped(e, o) = o)
<1>1. Len(o) \in Nat /\ \A k \in 1..Len(o) : o[k] \in Counted /\ o[k][2] + 1 = 1 /\ o[k][1] \in Token
  BY DEF Zero, Counted
<1>2. Escape(o) \in [1..Len(o) -> Counted]
  BY <1>1 DEF Escape, Counted
<1>3. Escape(o) \in Seq(Counted)
  BY <1>1, <1>2
<1> QED
  BY <1>3 DEF Escaped

-----------------------------------------------------------------------------
(* The steps, as far as calls are concerned                                  *)

LEMMA TokensDistinct ==
    /\ Lit \in Token /\ Lit \notin Names /\ Lit \notin Dynamic
    /\ Nope \in Token /\ Nope \notin Names /\ Nope \notin Dynamic
    /\ Names \subseteq Token /\ Dynamic \subseteq Token
    /\ \A n \in Names : n \notin Dynamic
    /\ \A n \in Token : n \notin Dynamic \cup {Lit} => n \in Nodes
  BY TokensAssumption DEF Token, Nodes

(* What TypeOK says of a call.                                               *)
LEMMA CallTypes ==
    ASSUME NEW c \in Call
    PROVE  /\ c.rest \in Seq(Token) /\ c.stack \in Seq(Names)
           /\ c.escape \in BOOLEAN /\ c.out \in Seq(Counted)
  BY DEF Call, Counted

LEMMA PutFacts ==
    ASSUME TypeOK, NEW n, AtName(n), NEW o \in Seq(Counted), Put(o)
    PROVE  /\ n \in Token
           /\ call' \in Call /\ UNCHANGED <<callers, template, params, text, phase>>
           /\ call'.rest = Tail(call.rest) /\ call'.stack = call.stack
           /\ call'.escape = call.escape /\ call'.out = call.out \o o
           /\ Range(call.rest) = {n} \cup Range(call'.rest)
<1>1. /\ call.rest \in Seq(Token) /\ call.stack \in Seq(Names)
      /\ call.escape \in BOOLEAN /\ call.out \in Seq(Counted) /\ call \in Call
  BY CallTypes DEF TypeOK
<1>2. call' = [call EXCEPT !.rest = Tail(@), !.out = @ \o o]
  BY DEF Put
<1>3. /\ Head(call.rest) \in Token /\ Tail(call.rest) \in Seq(Token)
      /\ Range(call.rest) = {Head(call.rest)} \cup Range(Tail(call.rest))
      /\ n = Head(call.rest)
  BY <1>1, RangeOfHead DEF AtName
<1>4. call.out \o o \in Seq(Token \X {0, 1})
  BY <1>1 DEF Counted
<1>5. /\ call'.rest = Tail(call.rest) /\ call'.stack = call.stack
      /\ call'.escape = call.escape /\ call'.out = call.out \o o /\ call' \in Call
  BY <1>1, <1>2, <1>3, <1>4 DEF Call
<1> QED
  BY <1>3, <1>5 DEF Put

LEMMA EnterFacts ==
    ASSUME TypeOK, NEW n, Enter(n)
    PROVE  /\ n \in Names /\ n \in Token /\ variables[n] \in Seq(Token)
           /\ n \notin Range(call.stack)
           /\ call' = [rest |-> variables[n], stack |-> Append(call.stack, n),
                       escape |-> FALSE, out |-> <<>>]
           /\ call' \in Call
           /\ \E c \in Call :
                /\ callers' = Append(callers, c) /\ c.rest = Tail(call.rest)
                /\ c.stack = call.stack /\ c.escape = call.escape
                /\ c.out = call.out
                /\ Range(call.rest) = {n} \cup Range(c.rest)
           /\ UNCHANGED <<template, params, text, reports, phase>>
<1>1. /\ call.rest \in Seq(Token) /\ call.stack \in Seq(Names)
      /\ call.escape \in BOOLEAN /\ call.out \in Seq(Counted) /\ call \in Call
  BY CallTypes DEF TypeOK
<1>2. n \in Names /\ variables[n] \in Texts
  BY DEF Enter, Declared, TypeOK, Vars
<1>3. variables[n] \in Seq(Token) /\ n \in Token
  BY <1>2, TextsAssumption, TokensDistinct
<1>4. n \notin Range(call.stack)
  BY <1>1, InRange DEF Enter, OnStack
<1>5. call' = [rest |-> variables[n], stack |-> Append(call.stack, n),
               escape |-> FALSE, out |-> <<>>]
  BY DEF Enter, Nested
<1>6. Append(call.stack, n) \in Seq(Names) /\ <<>> \in Seq(Token \X {0, 1})
  BY <1>1, <1>2
<1>7. call' \in Call
  BY <1>3, <1>5, <1>6 DEF Call
<1> DEFINE c == [call EXCEPT !.rest = Tail(@)]
<1>8. /\ Head(call.rest) \in Token /\ Tail(call.rest) \in Seq(Token)
      /\ Range(call.rest) = {Head(call.rest)} \cup Range(Tail(call.rest))
      /\ n = Head(call.rest)
  BY <1>1, RangeOfHead DEF Enter, AtName
<1>9. /\ c \in Call /\ c.rest = Tail(call.rest) /\ c.stack = call.stack
      /\ c.escape = call.escape /\ c.out = call.out
  BY <1>1, <1>8 DEF Call
<1>10. callers' = Append(callers, c)
  BY DEF Enter
<1> HIDE DEF c
<1> QED
  BY <1>2, <1>3, <1>4, <1>5, <1>7, <1>8, <1>9, <1>10 DEF Enter

(* The caller goes on where it waited.                                       *)
LEMMA ReturnFacts ==
    ASSUME TypeOK, Return, Zero(call.out)
    PROVE  /\ callers' = Front(callers) /\ callers # <<>> /\ call.rest = <<>>
           /\ Last(callers) \in Call /\ call' \in Call
           /\ call'.rest = Last(callers).rest /\ call'.stack = Last(callers).stack
           /\ call'.escape = Last(callers).escape
           /\ call'.out = Last(callers).out \o Escaped(Last(callers).escape, call.out)
           /\ Escaped(Last(callers).escape, call.out) \in Seq(Counted)
           /\ UNCHANGED <<template, params, text, reports, phase>>
<1> DEFINE c == Last(callers)
<1>1. c \in Call
  BY RangeOfFront DEF Return, TypeOK
<1>2. /\ c.rest \in Seq(Token) /\ c.stack \in Seq(Names)
      /\ c.escape \in BOOLEAN /\ c.out \in Seq(Counted)
  BY <1>1, CallTypes
<1>3. call.out \in Seq(Counted)
  BY CallTypes DEF TypeOK
<1>4. Escaped(c.escape, call.out) \in Seq(Counted)
  BY <1>2, <1>3, EscapeOnce
<1>5. c.out \o Escaped(c.escape, call.out) \in Seq(Token \X {0, 1})
  BY <1>2, <1>4 DEF Counted
<1>6. call' = [c EXCEPT !.out = @ \o Escaped(c.escape, call.out)]
  BY DEF Return
<1> HIDE DEF c
<1>7. /\ call'.rest = c.rest /\ call'.stack = c.stack /\ call'.escape = c.escape
      /\ call'.out = c.out \o Escaped(c.escape, call.out) /\ call' \in Call
  BY <1>1, <1>2, <1>5, <1>6 DEF Call
<1> QED
  BY <1>1, <1>4, <1>7 DEF Return, c

LEMMA OutermostFacts ==
    ASSUME NEW s \in Seq(Token), NEW e \in BOOLEAN
    PROVE  /\ Outermost(s, e) \in Call /\ Outermost(s, e).rest = s
           /\ Outermost(s, e).stack = <<>> /\ Outermost(s, e).escape = e
           /\ Outermost(s, e).out = <<>>
  BY DEF Outermost, Call

LEMMA OpenFacts ==
    ASSUME NEW p \in Param
    PROVE  /\ Open(p).call = Outermost(Interpolated(p), p.hasValue)
           /\ Open(p).call \in Call
           /\ Open(p).copied \in Seq(Counted) /\ Zero(Open(p).copied)
           /\ Interpolated(p) \in Seq(Token) /\ p.hasValue \in BOOLEAN
<1>1. p.key \in Seq(Token) /\ p.value \in Seq(Token) /\ p.hasValue \in BOOLEAN
  BY DEF Param
<1>2. Interpolated(p) \in Seq(Token)
  BY <1>1 DEF Interpolated
<1>3. Zero(<<>>) /\ <<>> \in Seq(Counted)
  BY DEF Zero
<1> QED
  BY <1>1, <1>2, <1>3, RawIsZero, OutermostFacts DEF Open, Interpolated

LEMMA URLTypes ==
    ASSUME NEW u \in URLs
    PROVE  u.base \in Seq(Token) /\ u.query \in Seq(Param)
  BY URLsAssumption

-----------------------------------------------------------------------------
(* Types.  A call knows by its stack how deep it is, no name is on a stack    *)
(* twice, and only outermost calls escape, so that nothing is escaped twice. *)
Fits(c) ==
    /\ IsInjective(c.stack)
    /\ c.stack # <<>> => ~c.escape /\ Zero(c.out)

StackPerCaller == \A k \in 1..Len(callers) : Len(callers[k].stack) = k - 1
AllFit == \A c \in Calls : Fits(c)
IdleWhenDone ==
    phase = "done" => callers = <<>> /\ params = <<>> /\ call.rest = <<>>

Depths ==
    /\ TypeOK /\ StackPerCaller /\ AllFit /\ IdleWhenDone
    /\ Len(call.stack) = Len(callers)

LEMMA DepthsInit == Init => Depths
<1> SUFFICES ASSUME Init
             PROVE  Depths
  OBVIOUS
<1>1. /\ url.base \in Seq(Token) /\ url.query \in Seq(Param)
  BY URLTypes DEF Init
<1>2. /\ call \in Call /\ call.stack = <<>> /\ callers = <<>>
      /\ Calls = {call}
  BY <1>1, OutermostFacts, EmptyRange DEF Init, Calls
<1>3. /\ <<>> \in Seq(Nodes) /\ <<>> \in Seq(Seq(Names)) /\ <<>> \in Seq(Call)
      /\ <<>> \in Seq(Token \X {0, 1}) /\ 0 \in 0..MaxSets
  BY MaxSetsAssumption
<1>4. before \in [variables : Vars, missing : Seq(Nodes)]
  BY <1>3 DEF Init
<1>5. TypeOK
  BY <1>1, <1>2, <1>3, <1>4 DEF Init, TypeOK, Nodes
<1>6. IsInjective(call.stack) /\ ~(call.stack # <<>>)
  BY <1>2 DEF IsInjective
<1>7. Len(call.stack) = Len(callers) /\ \A k \in 1..Len(callers) : FALSE
  BY <1>2
<1>8. phase # "done"
  BY DEF Init
<1> QED
  BY <1>2, <1>5, <1>6, <1>7, <1>8 DEF Depths, StackPerCaller, AllFit, Fits, IdleWhenDone

(* A step that only puts something in place of a token.                      *)
LEMMA DepthsPut ==
    ASSUME Depths, NEW n, AtName(n), NEW o \in Seq(Counted), Put(o),
           call.stack # <<>> => Zero(o),
           missing' \in Seq(Nodes), cycles' \in Seq(Seq(Names))
    PROVE  Depths'
<1>0. TypeOK
  BY DEF Depths, StackPerCaller, IdleWhenDone
<1>1. /\ call' \in Call /\ callers' = callers /\ UNCHANGED <<template, params, text, phase>>
      /\ call'.stack = call.stack /\ call'.escape = call.escape
      /\ call'.out = call.out \o o
  BY <1>0, PutFacts
<1>2. TypeOK'
  BY <1>0, <1>1 DEF TypeOK, template, Nodes
<1>3. call'.stack # <<>> => ~call'.escape /\ Zero(call'.out)
  BY <1>0, <1>1, CallTypes, ZeroJoined DEF Depths, AllFit, Fits, Calls, TypeOK
<1>4. \A c \in Range(callers') : Fits(c)
  BY <1>1 DEF Depths, StackPerCaller, AllFit, Fits, IdleWhenDone, Calls
<1>5. IsInjective(call'.stack) /\ phase' # "done"
  BY <1>1 DEF Depths, AllFit, Fits, Calls, AtName
<1> QED
  BY <1>1, <1>2, <1>3, <1>4, <1>5 DEF Depths, StackPerCaller, AllFit, Fits, IdleWhenDone, Calls

LEMMA WayBackTypes ==
    ASSUME TypeOK, NEW n \in Names, OnStack(n)
    PROVE  WayBack(n) \in Seq(Names)
<1> DEFINE i == CHOOSE k \in 1..Len(call.stack) : call.stack[k] = n
<1>1. call.stack \in Seq(Names)
  BY CallTypes DEF TypeOK
<1>2. i \in 1..Len(call.stack)
  BY DEF OnStack, Contains
<1> HIDE DEF i
<1>3. SubSeq(call.stack, i, Len(call.stack)) \in Seq(Names)
  BY <1>1, <1>2
<1>4. Append(SubSeq(call.stack, i, Len(call.stack)), n) \in Seq(Names)
  BY <1>3
<1> QED
  BY <1>4 DEF WayBack, i

LEMMA DepthsStep == Depths /\ [Next]_vars => Depths'
<1> SUFFICES ASSUME Depths, [Next]_vars
             PROVE  Depths'
  OBVIOUS
<1>0. /\ TypeOK /\ missing \in Seq(Nodes) /\ cycles \in Seq(Seq(Names))
      /\ call \in Call /\ callers \in Seq(Call) /\ params \in Seq(Param)
      /\ text \in Seq(Counted) /\ call.out \in Seq(Counted)
      /\ call.escape \in BOOLEAN
  BY CallTypes DEF Depths, TypeOK, Nodes, Counted
<1>1. ASSUME NEW n \in Token
      PROVE  Raw(<<n>>) \in Seq(Counted) /\ Zero(Raw(<<n>>))
  <2>1. <<n>> \in Seq(Token)
    OBVIOUS
  <2> QED
    BY <2>1, RawIsZero
<1>2. CASE Literal
  BY <1>0, <1>1, <1>2, TokensDistinct, DepthsPut DEF Literal, reports
<1>3. ASSUME NEW n \in Token, Generate(n)
      PROVE  Depths'
  <2>1. /\ Escaped(call.escape, Raw(<<n>>)) \in Seq(Counted)
        /\ ~call.escape => Zero(Escaped(call.escape, Raw(<<n>>)))
    BY <1>0, <1>1, EscapeOnce
  <2>2. call.stack # <<>> => ~call.escape
    BY DEF Depths, StackPerCaller, AllFit, Fits, IdleWhenDone, Calls
  <2> QED
    BY <1>0, <1>3, <2>1, <2>2, DepthsPut DEF Generate, reports
<1>4. ASSUME NEW n \in Token, Miss(n)
      PROVE  Depths'
  <2>1. n \in Nodes
    BY <1>4, TokensDistinct DEF Miss
  <2>2. missing' \in Seq(Nodes) /\ cycles' = cycles
    BY <1>0, <1>4, <2>1, Noted DEF Miss
  <2> QED
    BY <1>0, <1>1, <1>4, <2>2, DepthsPut DEF Miss
<1>5. ASSUME NEW n \in Token, Loop(n)
      PROVE  Depths'
  <2>1. n \in Names /\ OnStack(n)
    BY <1>5 DEF Loop, Declared
  <2>2. cycles' \in Seq(Seq(Names)) /\ missing' = missing
    BY <1>0, <1>5, <2>1, WayBackTypes, Noted DEF Loop
  <2> QED
    BY <1>0, <1>1, <1>5, <2>2, DepthsPut DEF Loop
<1>6. ASSUME NEW n \in Token, Enter(n)
      PROVE  Depths'
  <2>1. /\ n \in Names /\ n \notin Range(call.stack)
        /\ call' = [rest |-> variables[n], stack |-> Append(call.stack, n),
                    escape |-> FALSE, out |-> <<>>]
        /\ call' \in Call /\ UNCHANGED <<template, params, text, reports, phase>>
    BY <1>0, <1>6, EnterFacts
  <2>2. PICK c \in Call : /\ callers' = Append(callers, c)
                          /\ c.stack = call.stack /\ c.escape = call.escape
                          /\ c.out = call.out
    BY <1>0, <1>6, EnterFacts
  <2>3. /\ callers' \in Seq(Call) /\ Len(callers') = Len(callers) + 1
        /\ Len(callers) \in Nat
        /\ \A k \in 1..Len(callers) : callers'[k] = callers[k]
        /\ callers'[Len(callers) + 1] = c
        /\ Range(callers') = Range(callers) \cup {c}
    BY <1>0, <2>2, RangeOfAppend
  <2>4. TypeOK'
    BY <1>0, <2>1, <2>3 DEF TypeOK, template, reports, Nodes, Counted
  <2>5. call.stack \in Seq(Names)
    BY <1>0, CallTypes
  <2>6. IsInjective(call.stack) /\ (call.stack # <<>> => ~call.escape /\ Zero(call.out))
    BY DEF Depths, StackPerCaller, AllFit, Fits, IdleWhenDone, Calls
  <2>7. /\ Len(call'.stack) = Len(callers') /\ IsInjective(call'.stack)
        /\ ~call'.escape /\ Zero(call'.out)
    <3>1. call'.stack = Append(call.stack, n) /\ call'.out = <<>> /\ ~call'.escape
      BY <2>1
    <3>2. Append(call.stack, n) = Note(call.stack, n)
      BY <2>1, <2>5, InRange DEF Note
    <3>3. IsInjective(Append(call.stack, n))
      BY <2>1, <2>5, <2>6, <3>2, Noted
    <3>4. Len(call'.stack) = Len(call.stack) + 1
      BY <2>1, <2>5, <3>1, RangeOfAppend
    <3> QED
      BY <2>3, <3>1, <3>3, <3>4 DEF Depths, Zero, Fits
  <2>8. ASSUME NEW k \in 1..Len(callers')
        PROVE  Len(callers'[k].stack) = k - 1
    <3>1. CASE k \in 1..Len(callers)
      BY <2>3, <3>1 DEF Depths, StackPerCaller, IdleWhenDone
    <3>2. CASE k = Len(callers) + 1
      BY <2>2, <2>3, <3>2 DEF Depths, StackPerCaller, IdleWhenDone
    <3> QED
      BY <2>3, <3>1, <3>2
  <2>9. \A d \in Range(callers') : Fits(d)
    BY <2>2, <2>3, <2>6 DEF Depths, StackPerCaller, AllFit, Fits, IdleWhenDone, Calls
  <2>10. \A d \in Calls' : Fits(d)
    BY <2>7, <2>9 DEF Calls, Fits
  <2>11. phase' = "done" => callers' = <<>> /\ params' = <<>> /\ call'.rest = <<>>
    BY <1>6, <2>1 DEF Enter, AtName
  <2>12. Len(call'.stack) = Len(callers')
    BY <2>7
  <2>13. \A k \in 1..Len(callers') : Len(callers'[k].stack) = k - 1
    BY <2>8
  <2> QED
    BY <2>4, <2>10, <2>11, <2>12, <2>13 DEF Depths, StackPerCaller, AllFit, IdleWhenDone
<1>7. CASE Return
  <2>0. call.stack # <<>> /\ Zero(call.out)
    <3>1. callers # <<>>
      BY <1>7 DEF Return
    <3>2. Len(call.stack) # 0
      BY <1>0, <3>1 DEF Depths, StackPerCaller, IdleWhenDone
    <3> QED
      BY <3>2 DEF Depths, StackPerCaller, AllFit, Fits, IdleWhenDone, Calls
  <2> DEFINE c == Last(callers)
  <2>1. /\ callers' = Front(callers) /\ callers # <<>> /\ c \in Call /\ call' \in Call
        /\ call'.stack = c.stack /\ call'.escape = c.escape
        /\ call'.out = c.out \o Escaped(c.escape, call.out)
        /\ Escaped(c.escape, call.out) \in Seq(Counted)
        /\ UNCHANGED <<template, params, text, reports, phase>>
    BY <1>0, <1>7, <2>0, ReturnFacts
  <2>2. /\ callers' \in Seq(Call) /\ c \in Range(callers)
        /\ Len(callers) \in Nat /\ Len(callers) > 0
        /\ Len(callers') = Len(callers) - 1
        /\ \A k \in 1..Len(callers') : callers'[k] = callers[k]
        /\ Range(callers') \subseteq Range(callers)
    BY <1>0, <2>1, RangeOfFront
  <2>3. TypeOK'
    BY <1>0, <2>1, <2>2 DEF TypeOK, template, reports, Nodes, Counted
  <2>4. IsInjective(c.stack) /\ (c.stack # <<>> => ~c.escape /\ Zero(c.out))
    BY <2>2 DEF Depths, StackPerCaller, AllFit, Fits, IdleWhenDone, Calls
  <2>5. call'.stack # <<>> => ~call'.escape /\ Zero(call'.out)
    <3>1. ASSUME c.stack # <<>>
          PROVE  Zero(call'.out)
      <4>1. Escaped(c.escape, call.out) = call.out /\ c.out \in Seq(Counted)
        BY <1>0, <2>0, <2>1, <2>4, <3>1, EscapeOnce, CallTypes
      <4> QED
        BY <1>0, <2>0, <2>1, <2>4, <3>1, <4>1, ZeroJoined
    <3> QED
      BY <2>1, <2>4, <3>1
  <2>6. Len(call'.stack) = Len(callers')
    <3>1. c = callers[Len(callers)] /\ Len(callers) \in 1..Len(callers)
      BY <2>2 DEF Last
    <3> QED
      BY <2>1, <2>2, <3>1 DEF Depths, StackPerCaller, IdleWhenDone
  <2>7. ASSUME NEW k \in 1..Len(callers')
        PROVE  Len(callers'[k].stack) = k - 1
    BY <2>2 DEF Depths, StackPerCaller, IdleWhenDone
  <2>8. \A d \in Range(callers') : Fits(d)
    BY <2>2 DEF Depths, StackPerCaller, AllFit, Fits, IdleWhenDone, Calls
  <2>9. \A d \in Calls' : Fits(d)
    BY <2>1, <2>4, <2>5, <2>8 DEF Calls, Fits
  <2>10. phase' = "done" => callers' = <<>> /\ params' = <<>> /\ call'.rest = <<>>
    BY <1>7, <2>1 DEF Return
  <2>11. \A k \in 1..Len(callers') : Len(callers'[k].stack) = k - 1
    BY <2>7
  <2> HIDE DEF c
  <2> QED
    BY <2>3, <2>6, <2>9, <2>10, <2>11 DEF Depths, StackPerCaller, AllFit, IdleWhenDone
<1>8. ASSUME callers' = <<>>, call' \in Call, call'.stack = <<>>, TypeOK',
             phase' = "done" => params' = <<>> /\ call'.rest = <<>>
      PROVE  Depths'
  <2>1. Calls' = {call'}
    BY <1>8, EmptyRange DEF Calls
  <2> QED
    BY <1>8, <2>1 DEF Depths, StackPerCaller, AllFit, Fits, IdleWhenDone, IsInjective
<1>9. CASE NextParam
  <2>1. Head(params) \in Param /\ Tail(params) \in Seq(Param)
    BY <1>0, <1>9, RangeOfHead DEF NextParam
  <2>2. /\ call' \in Call /\ call'.stack = <<>>
        /\ Open(Head(params)).copied \in Seq(Counted)
    BY <1>9, <2>1, OpenFacts, OutermostFacts DEF NextParam
  <2>3. text' \in Seq(Counted)
    BY <1>0, <1>9, <2>2 DEF NextParam
  <2>4. TypeOK'
    BY <1>0, <1>9, <2>1, <2>2, <2>3
    DEF NextParam, TypeOK, template, reports, Nodes, Counted
  <2> QED
    BY <1>8, <1>9, <2>2, <2>4 DEF NextParam, Ready
<1>10. CASE Finish
  <2>1. call' \in Call /\ call'.stack = <<>> /\ call'.rest = <<>>
    <3>1. <<>> \in Seq(Token) /\ FALSE \in BOOLEAN
      OBVIOUS
    <3> QED
      BY <1>10, <3>1, OutermostFacts DEF Finish
  <2>2. text' \in Seq(Counted)
    BY <1>0, <1>10 DEF Finish
  <2>3. TypeOK'
    BY <1>0, <1>10, <2>1, <2>2
    DEF Finish, TypeOK, template, reports, Nodes, Counted
  <2> QED
    BY <1>8, <1>10, <2>1, <2>3 DEF Finish, Ready
<1>11. ASSUME NEW n \in Names, NEW x \in ScriptTexts, ScriptSet(n, x)
       PROVE  Depths'
  <2>1. url \in URLs /\ url.base \in Seq(Token) /\ url.query \in Seq(Param)
    BY <1>0, URLTypes DEF TypeOK
  <2>2. call' \in Call /\ call'.stack = <<>>
    BY <1>11, <2>1, OutermostFacts DEF ScriptSet
  <2>3. variables' \in Vars
    BY <1>0, <1>11, TextsAssumption DEF ScriptSet, TypeOK, Vars
  <2>4. sets' \in 0..MaxSets
    BY <1>0, <1>11, MaxSetsAssumption DEF ScriptSet, TypeOK
  <2>5. before' \in [variables : Vars, missing : Seq(Nodes)]
    BY <1>0, <1>11 DEF ScriptSet, TypeOK
  <2>6. /\ <<>> \in Seq(Nodes) /\ <<>> \in Seq(Seq(Names))
        /\ <<>> \in Seq(Token \X {0, 1})
    OBVIOUS
  <2>7. TypeOK'
    BY <1>0, <1>11, <2>1, <2>2, <2>3, <2>4, <2>5, <2>6 DEF ScriptSet, TypeOK, Nodes
  <2>8. callers' = <<>> /\ phase' # "done"
    BY <1>11 DEF ScriptSet, IdleWhenDone, Depths
  <2> QED
    BY <1>8, <2>2, <2>7, <2>8
<1>12. CASE UNCHANGED vars
  <2>1. TypeOK' /\ Calls' = Calls
    BY <1>0, <1>12 DEF vars, template, reports, TypeOK, Calls
  <2> QED
    BY <1>12, <2>1 DEF vars, template, reports, Depths, StackPerCaller, AllFit, IdleWhenDone
<1> QED
  BY <1>2, <1>3, <1>4, <1>5, <1>6, <1>7, <1>9, <1>10, <1>11, <1>12 DEF Next

(* Whatever the variables and the URL are, what runs, waits and is reported  *)
(* keeps its type: no name is looked up that is not one, and nothing is      *)
(* escaped more than once.                                                   *)
THEOREM TypeCorrect == Spec => []TypeOK
<1>1. Depths => TypeOK
  BY DEF Depths
<1> QED
  BY <1>1, DepthsInit, DepthsStep, PTL DEF Spec

(* The stacks of names are as long as there are callers and have no name twice. *)
LEMMA StackShort == Depths => NestingBounded
<1> SUFFICES ASSUME Depths
             PROVE  Len(callers) <= Cardinality(Names)
  BY DEF NestingBounded
<1>1. call.stack \in Seq(Names) /\ IsInjective(call.stack)
  BY CallTypes DEF Depths, TypeOK, AllFit, Fits, Calls
<1>2. PICK s : s = call.stack
  OBVIOUS
<1>3. s \in [1..Len(s) -> Names] /\ IsInjective(s) /\ Len(s) \in Nat
  BY <1>1, <1>2
<1>4. s \in Injection(1..Len(s), Names)
  BY <1>3 DEF Injection
<1>5. Cardinality(1..Len(s)) <= Cardinality(Names)
  BY <1>4, FS_Injection, TokensAssumption
<1>6. Cardinality(1..Len(s)) = Len(s)
  <2>1. 1 \in Int /\ Len(s) \in Int
    BY <1>3
  <2>2. Cardinality(1..Len(s)) = IF 1 > Len(s) THEN 0 ELSE Len(s) - 1 + 1
    BY <2>1, FS_Interval
  <2> QED
    BY <1>3, <2>2
<1> QED
  BY <1>2, <1>5, <1>6 DEF Depths

(* expand recurses on the value of a name only while that name is not on its *)
(* stack, so its depth is bounded by the number of names, whatever cycles    *)
(* the variables form.                                                       *)
THEOREM NestingIsBounded == Spec => []NestingBounded
  BY StackShort, DepthsInit, DepthsStep, PTL DEF Spec

-----------------------------------------------------------------------------
(* While a URL has no parameter with a value, no call of expand escapes.     *)
Flag(p) == ~p.hasValue
Unescaped(c) == ~c.escape /\ Zero(c.out)

OnlyFlags == \A p \in Range(params) : Flag(p)
AllUnescaped == \A c \in Calls : Unescaped(c)
TextUnescaped == Zero(text)

NothingEscaped == OnlyFlags /\ AllUnescaped /\ TextUnescaped

LEMMA FlagsOfPlain ==
    ASSUME NEW u \in URLs, Plain(u)
    PROVE  \A p \in Range(u.query) : Flag(p)
<1>1. u.query \in Seq(Param)
  BY URLTypes
<1> QED
  BY <1>1 DEF Plain, Range, Flag

LEMMA NothingEscapedStart ==
    ASSUME url \in URLs, Plain(url), params = url.query, callers = <<>>,
           call = Outermost(url.base, FALSE), text = <<>>
    PROVE  NothingEscaped
<1>1. url.base \in Seq(Token)
  BY URLTypes
<1>2. call.escape = FALSE /\ call.out = <<>>
  BY <1>1, OutermostFacts
<1>3. Calls = {call}
  BY EmptyRange DEF Calls
<1>4. Zero(<<>>)
  BY DEF Zero
<1>5. Unescaped(call)
  BY <1>2, <1>4 DEF Unescaped
<1>6. \A p \in Range(params) : Flag(p)
  BY FlagsOfPlain
<1> QED
  BY <1>3, <1>4, <1>5, <1>6 DEF NothingEscaped, OnlyFlags, AllUnescaped, TextUnescaped

LEMMA NothingEscapedPut ==
    ASSUME TypeOK, NothingEscaped, NEW n, AtName(n), NEW o \in Seq(Counted),
           Put(o), Zero(o)
    PROVE  NothingEscaped'
<1>1. /\ UNCHANGED <<callers, params, text>>
      /\ call'.escape = call.escape /\ call'.out = call.out \o o
  BY PutFacts
<1>2. Unescaped(call) /\ call.out \in Seq(Counted)
  BY CallTypes DEF NothingEscaped, AllUnescaped, Calls, TypeOK
<1>3. Unescaped(call')
  BY <1>1, <1>2, ZeroJoined DEF Unescaped
<1>4. \A c \in Calls' : Unescaped(c)
  BY <1>1, <1>3 DEF NothingEscaped, AllUnescaped, Calls
<1> QED
  BY <1>1, <1>4 DEF NothingEscaped, OnlyFlags, AllUnescaped, TextUnescaped

LEMMA NothingEscapedStep ==
    Depths /\ Plain(url) /\ NothingEscaped /\ [Next]_vars => NothingEscaped'
<1> SUFFICES ASSUME Depths, Plain(url), NothingEscaped, [Next]_vars
             PROVE  NothingEscaped'
  OBVIOUS
<1>0. /\ TypeOK /\ call.out \in Seq(Counted) /\ call.escape = FALSE
      /\ Zero(call.out) /\ callers \in Seq(Call) /\ params \in Seq(Param)
      /\ text \in Seq(Counted) /\ Zero(text)
  BY CallTypes DEF Depths, TypeOK, Counted, NothingEscaped, AllUnescaped,
                   TextUnescaped, Unescaped, Calls
<1>1. ASSUME NEW n \in Token
      PROVE  /\ Raw(<<n>>) \in Seq(Counted) /\ Zero(Raw(<<n>>))
             /\ Escaped(call.escape, Raw(<<n>>)) = Raw(<<n>>)
  <2>1. <<n>> \in Seq(Token)
    OBVIOUS
  <2> QED
    BY <1>0, <2>1, RawIsZero, EscapeOnce
<1>2. CASE Literal
  BY <1>0, <1>1, <1>2, TokensDistinct, NothingEscapedPut DEF Literal
<1>3. ASSUME NEW n \in Token, Generate(n) \/ Miss(n) \/ Loop(n)
      PROVE  NothingEscaped'
  BY <1>0, <1>1, <1>3, NothingEscapedPut DEF Generate, Miss, Loop
<1>4. ASSUME NEW n \in Token, Enter(n)
      PROVE  NothingEscaped'
  <2>1. /\ call' = [rest |-> variables[n], stack |-> Append(call.stack, n),
                    escape |-> FALSE, out |-> <<>>]
        /\ UNCHANGED <<params, text>>
    BY <1>0, <1>4, EnterFacts
  <2>2. PICK c \in Call : /\ callers' = Append(callers, c)
                          /\ c.escape = call.escape /\ c.out = call.out
    BY <1>0, <1>4, EnterFacts
  <2>3. Range(callers') = Range(callers) \cup {c}
    BY <1>0, <2>2, RangeOfAppend
  <2>4. Unescaped(call') /\ Unescaped(c)
    BY <1>0, <2>1, <2>2 DEF Unescaped, Zero
  <2>5. \A d \in Calls' : Unescaped(d)
    BY <2>3, <2>4 DEF NothingEscaped, AllUnescaped, Calls
  <2> QED
    BY <2>1, <2>5 DEF NothingEscaped, OnlyFlags, AllUnescaped, TextUnescaped
<1>5. CASE Return
  <2> DEFINE c == Last(callers)
  <2>1. /\ callers' = Front(callers) /\ callers # <<>> /\ c \in Call
        /\ call'.escape = c.escape
        /\ call'.out = c.out \o Escaped(c.escape, call.out)
        /\ UNCHANGED <<params, text>>
    BY <1>0, <1>5, ReturnFacts
  <2>2. c \in Range(callers) /\ Range(callers') \subseteq Range(callers)
    BY <1>0, <2>1, RangeOfFront
  <2>3. c.escape = FALSE /\ Zero(c.out) /\ c.out \in Seq(Counted)
    BY <2>1, <2>2, CallTypes DEF NothingEscaped, AllUnescaped, Unescaped, Calls
  <2>4. Escaped(c.escape, call.out) = call.out
    BY <2>3 DEF Escaped
  <2> HIDE DEF c
  <2>5. Unescaped(call')
    BY <1>0, <2>1, <2>3, <2>4, ZeroJoined DEF Unescaped
  <2>6. \A d \in Calls' : Unescaped(d)
    BY <2>2, <2>5 DEF NothingEscaped, AllUnescaped, Calls
  <2> QED
    BY <2>1, <2>6 DEF NothingEscaped, OnlyFlags, AllUnescaped, TextUnescaped
<1>6. ASSUME callers' = <<>>, Unescaped(call'), OnlyFlags', Zero(text')
      PROVE  NothingEscaped'
  <2>1. Calls' = {call'}
    BY <1>6, EmptyRange DEF Calls
  <2> QED
    BY <1>6, <2>1 DEF NothingEscaped, AllUnescaped, TextUnescaped
<1>7. CASE NextParam
  <2> DEFINE p == Head(params)
  <2>1. /\ p \in Param /\ p \in Range(params)
        /\ Range(params') \subseteq Range(params)
    BY <1>0, <1>7, RangeOfHead DEF NextParam
  <2>2. Flag(p)
    BY <2>1 DEF NothingEscaped, OnlyFlags
  <2>3. /\ call' = Open(p).call /\ callers' = <<>>
        /\ text' = text \o call.out \o Open(p).copied
    BY <1>7 DEF NextParam, Ready
  <2> HIDE DEF p
  <2>4. /\ call'.escape = p.hasValue /\ call'.out = <<>>
        /\ Open(p).copied \in Seq(Counted) /\ Zero(Open(p).copied)
    BY <2>1, <2>3, OpenFacts, OutermostFacts
  <2>5. Unescaped(call')
    BY <2>2, <2>4 DEF Unescaped, Flag, Zero
  <2>6. text \o call.out \in Seq(Counted) /\ Zero(text \o call.out)
    BY <1>0, ZeroJoined
  <2>7. Zero(text')
    BY <2>3, <2>4, <2>6, ZeroJoined
  <2>8. OnlyFlags'
    BY <2>1 DEF NothingEscaped, OnlyFlags
  <2> QED
    BY <1>6, <2>3, <2>5, <2>7, <2>8
<1>8. CASE Finish
  <2>1. call'.escape = FALSE /\ call'.out = <<>>
    <3>1. <<>> \in Seq(Token) /\ FALSE \in BOOLEAN
      OBVIOUS
    <3> QED
      BY <1>8, <3>1, OutermostFacts DEF Finish
  <2>2. Unescaped(call')
    BY <2>1 DEF Unescaped, Zero
  <2>3. Zero(text')
    BY <1>0, <1>8, ZeroJoined DEF Finish
  <2>4. callers' = <<>> /\ params' = params
    BY <1>8 DEF Finish, Ready
  <2>5. OnlyFlags'
    BY <2>4 DEF NothingEscaped, OnlyFlags
  <2> QED
    BY <1>6, <2>2, <2>3, <2>4, <2>5
<1>9. ASSUME NEW n \in Names, NEW x \in ScriptTexts, ScriptSet(n, x)
      PROVE  NothingEscaped'
  <2>1. /\ url' = url /\ params' = url.query /\ text' = <<>>
        /\ call' = Outermost(url.base, FALSE) /\ callers' = callers
        /\ callers = <<>>
    BY <1>9 DEF ScriptSet, Depths, IdleWhenDone
  <2>2. url.base \in Seq(Token) /\ \A p \in Range(url.query) : Flag(p)
    BY <1>0, URLTypes, FlagsOfPlain DEF TypeOK
  <2>3. call'.escape = FALSE /\ call'.out = <<>>
    BY <2>1, <2>2, OutermostFacts
  <2>4. Unescaped(call') /\ Zero(text')
    <3>1. Zero(<<>>)
      BY DEF Zero
    <3> QED
      BY <2>1, <2>3, <3>1 DEF Unescaped
  <2>5. OnlyFlags'
    BY <2>1, <2>2 DEF OnlyFlags
  <2> QED
    BY <1>6, <2>1, <2>4, <2>5
<1>10. CASE UNCHANGED vars
  BY <1>10 DEF vars, template, NothingEscaped, OnlyFlags, AllUnescaped,
               TextUnescaped, Calls
<1> QED
  BY <1>2, <1>3, <1>4, <1>5, <1>7, <1>8, <1>9, <1>10 DEF Next

LEMMA URLFixed == [Next]_vars => url' = url
  BY DEF Next, vars, template, Literal, Generate, Miss, Loop, Enter, Return,
         NextParam, Finish, ScriptSet, Put

(* The result for a URL without query values is not escaped anywhere, and    *)
(* no part of any result is escaped twice: expand escapes what it inserts    *)
(* only at the top of a query value, never on its way back through others.   *)
THEOREM EscapingConfined == Spec => []EscapedInQueryOnly
<1> DEFINE Inv == Depths /\ (Plain(url) => NothingEscaped)
<1>1. Init => Inv
  <2>1. Init /\ Plain(url) => NothingEscaped
    BY NothingEscapedStart DEF Init
  <2> QED
    BY <2>1, DepthsInit
<1>2. Inv /\ [Next]_vars => Inv'
  <2>1. [Next]_vars => (Plain(url)' <=> Plain(url))
    BY URLFixed DEF Plain
  <2> QED
    BY <2>1, DepthsStep, NothingEscapedStep
<1>3. Inv => EscapedInQueryOnly
  <2> SUFFICES ASSUME Inv
               PROVE  EscapedInQueryOnly
    OBVIOUS
  <2>1. text \in Seq(Counted) /\ DOMAIN text = 1..Len(text)
    BY DEF Depths, TypeOK, Counted
  <2>2. \A k \in DOMAIN text : text[k][2] <= 1
    <3>1. \A k \in DOMAIN text : text[k] \in Counted
      BY <2>1
    <3>2. \A t \in Counted : t[2] <= 1
      BY DEF Counted
    <3> QED
      BY <3>1, <3>2
  <2>3. Plain(url) => \A k \in DOMAIN text : text[k][2] = 0
    BY <2>1 DEF NothingEscaped, TextUnescaped, Zero
  <2> QED
    BY <2>2, <2>3 DEF EscapedInQueryOnly
<1> QED
  BY <1>1, <1>2, <1>3, PTL DEF Spec

-----------------------------------------------------------------------------
(* Variables as a graph                                                      *)
LEMMA MentionsFacts ==
    /\ \A s \in Seq(Token) : Mentions(s) \subseteq Nodes
    /\ Mentions(<<>>) = {}
<1>1. ASSUME NEW s \in Seq(Token) PROVE Mentions(s) \subseteq Nodes
  <2>1. Range(s) \subseteq Token
    BY InRange
  <2> QED
    BY <2>1, TokensDistinct DEF Mentions
<1>2. Mentions(<<>>) = {}
  BY EmptyRange DEF Mentions
<1> QED
  BY <1>1, <1>2

LEMMA StartFacts ==
    ASSUME NEW u \in URLs
    PROVE  /\ Start(u) \subseteq Nodes /\ Mentions(u.base) \subseteq Start(u)
           /\ \A p \in Range(u.query) : Mentions(Interpolated(p)) \subseteq Start(u)
<1>1. u.base \in Seq(Token) /\ Range(u.query) \subseteq Param
  BY URLTypes, InRange
<1>2. \A p \in Range(u.query) : Mentions(Interpolated(p)) \subseteq Nodes
  BY <1>1, OpenFacts, MentionsFacts
<1> QED
  BY <1>1, <1>2, MentionsFacts DEF Start

LEMMA RefersFacts ==
    ASSUME NEW v \in Vars, NEW m
    PROVE  Refers(v, m) \subseteq Nodes
<1>1. CASE Declared(m, v)
  <2>1. v[m] \in Seq(Token)
    BY <1>1, TextsAssumption DEF Declared, Vars
  <2> QED
    BY <1>1, <2>1, MentionsFacts DEF Refers
<1>2. CASE ~Declared(m, v)
  BY <1>2 DEF Refers
<1> QED
  BY <1>1, <1>2

LEMMA ReachableLeast ==
    ASSUME NEW u, NEW v, NEW S \in SUBSET Nodes, Closed(S, u, v)
    PROVE  Reachable(u, v) \subseteq S
  BY DEF Reachable

LEMMA ReachableClosed ==
    ASSUME NEW u \in URLs, NEW v \in Vars
    PROVE  Reachable(u, v) \subseteq Nodes /\ Closed(Reachable(u, v), u, v)
<1>1. Start(u) \subseteq Reachable(u, v)
  BY StartFacts DEF Reachable, Closed
<1>2. ASSUME NEW m \in Reachable(u, v), NEW k \in Refers(v, m)
      PROVE  k \in Reachable(u, v)
  <2>1. k \in Nodes
    BY <1>2, RefersFacts
  <2>2. ASSUME NEW S \in SUBSET Nodes, Closed(S, u, v)
        PROVE  k \in S
    BY <1>2, <2>2 DEF Reachable, Closed
  <2> QED
    BY <2>1, <2>2 DEF Reachable
<1> QED
  BY <1>1, <1>2 DEF Reachable, Closed

-----------------------------------------------------------------------------
(* What has been found, and what is still to be looked at, is reachable ...  *)
Undeclared(u, v) == {m \in Reachable(u, v) : ~Declared(m, v)}

RestReached(R) == \A c \in Calls : Mentions(c.rest) \subseteq R
ParamsReached(R) ==
    \A p \in Range(params) : Mentions(Interpolated(p)) \subseteq R
MissingReached ==
    /\ Range(missing) \subseteq Undeclared(url, variables)
    /\ IsInjective(missing)

Reached ==
    /\ RestReached(Reachable(url, variables))
    /\ ParamsReached(Reachable(url, variables))
    /\ MissingReached

(* ... and what is reachable has been seen or is still to be looked at: S is *)
(* what has been seen.                                                       *)
Pending ==
    {x \in Nodes :
        \/ \E c \in Calls : x \in Mentions(c.rest)
        \/ \E p \in Range(params) : x \in Mentions(Interpolated(p))}

StartSeen(S) == Start(url) \subseteq S \cup Pending
RefersSeen(S) == \A m \in S : Refers(variables, m) \subseteq S \cup Pending
MissingSeen(S) == \A m \in S : ~Declared(m, variables) => m \in Range(missing)
StacksSeen(S) == \A c \in Calls : Range(c.stack) \subseteq S

Seen(S) == StartSeen(S) /\ RefersSeen(S) /\ MissingSeen(S) /\ StacksSeen(S)

Followed == \E S \in SUBSET Nodes : Seen(S)

Starting ==
    /\ url \in URLs /\ variables \in Vars /\ params = url.query
    /\ callers = <<>> /\ call = Outermost(url.base, FALSE) /\ missing = <<>>

LEMMA FollowedStart == Starting => Reached /\ Followed
<1> SUFFICES ASSUME Starting
             PROVE  Reached /\ Followed
  OBVIOUS
<1> USE DEF Starting
<1>1. url.base \in Seq(Token)
  BY URLTypes
<1>2. call.rest = url.base /\ call.stack = <<>>
  BY <1>1, OutermostFacts
<1>3. Calls = {call}
  BY EmptyRange DEF Calls
<1>4. Range(missing) = {} /\ IsInjective(missing) /\ Range(<<>>) = {}
  BY EmptyRange DEF IsInjective
<1>5. /\ Start(url) \subseteq Reachable(url, variables)
      /\ Mentions(url.base) \subseteq Start(url)
      /\ \A p \in Range(url.query) : Mentions(Interpolated(p)) \subseteq Start(url)
  BY StartFacts, ReachableClosed DEF Closed
<1>6. Reached
  BY <1>2, <1>3, <1>4, <1>5
  DEF Reached, RestReached, ParamsReached, MissingReached
<1>7. ASSUME NEW x \in Start(url) PROVE x \in Pending
  <2>0. x \in Nodes
    BY <1>7, StartFacts
  <2>1. CASE x \in Mentions(url.base)
    <3>1. call \in Calls /\ x \in Mentions(call.rest)
      BY <1>2, <1>3, <2>1
    <3> QED
      BY <2>0, <3>1 DEF Pending
  <2>2. CASE \E p \in Range(params) : x \in Mentions(Interpolated(p))
    BY <2>0, <2>2 DEF Pending
  <2> QED
    BY <1>7, <2>1, <2>2 DEF Start
<1>8. Seen({})
  BY <1>2, <1>3, <1>4, <1>7
  DEF Seen, StartSeen, RefersSeen, MissingSeen, StacksSeen
<1> QED
  BY <1>6, <1>8 DEF Followed

(* A step that looks at the names of T and leaves the rest to be looked at.  *)
LEMMA SeenMore ==
    ASSUME NEW S \in SUBSET Nodes, NEW T \in SUBSET Nodes, Seen(S),
           url' = url, variables' = variables,
           Pending \subseteq S \cup T \cup Pending',
           \A m \in T : Refers(variables, m) \subseteq S \cup T \cup Pending',
           \A m \in T : ~Declared(m, variables) => m \in Range(missing'),
           Range(missing) \subseteq Range(missing'),
           \A c \in Calls' : Range(c.stack) \subseteq S \cup T
    PROVE  Followed'
<1>1. StartSeen(S \cup T)'
  BY DEF Seen, StartSeen
<1>2. RefersSeen(S \cup T)'
  BY DEF Seen, RefersSeen
<1>3. MissingSeen(S \cup T)'
  BY DEF Seen, MissingSeen
<1>4. StacksSeen(S \cup T)'
  BY DEF StacksSeen
<1>5. Seen(S \cup T)'
  BY <1>1, <1>2, <1>3, <1>4 DEF Seen
<1> QED
  BY <1>5 DEF Followed

(* A step that looks at nothing new.                                         *)
LEMMA SeenSame ==
    ASSUME NEW S \in SUBSET Nodes, Seen(S), url' = url, variables' = variables,
           Pending \subseteq S \cup Pending',
           Range(missing) \subseteq Range(missing'), StacksSeen(S)'
    PROVE  Followed'
<1>1. StartSeen(S)'
  BY DEF Seen, StartSeen
<1>2. RefersSeen(S)'
  BY DEF Seen, RefersSeen
<1>3. MissingSeen(S)'
  BY DEF Seen, MissingSeen
<1>4. Seen(S)'
  BY <1>1, <1>2, <1>3 DEF Seen
<1> QED
  BY <1>4 DEF Followed

(* A step that puts something in place of the name n: of what was mentioned, *)
(* nothing but n is lost.                                                    *)
LEMMA PutMentions ==
    ASSUME Depths, NEW n, AtName(n), NEW o \in Seq(Counted), Put(o)
    PROVE  /\ Mentions(call.rest) \subseteq {n} \cup Mentions(call'.rest)
           /\ Mentions(call'.rest) \subseteq Mentions(call.rest)
           /\ n \notin {Lit} \cup Dynamic => n \in Mentions(call.rest)
           /\ n \in {Lit} \cup Dynamic => Mentions(call'.rest) = Mentions(call.rest)
           /\ \A R : RestReached(R) => RestReached(R)'
           /\ \A R : ParamsReached(R) => ParamsReached(R)'
           /\ Pending \subseteq (Mentions(call.rest) \ Mentions(call'.rest)) \cup Pending'
           /\ \A S : StacksSeen(S) => StacksSeen(S)'
           /\ url' = url /\ variables' = variables
<1>1. /\ UNCHANGED <<callers, template, params>>
      /\ Range(call.rest) = {n} \cup Range(call'.rest)
      /\ call'.stack = call.stack
  BY PutFacts DEF Depths
<1>2. /\ Mentions(call.rest) \subseteq {n} \cup Mentions(call'.rest)
      /\ Mentions(call'.rest) \subseteq Mentions(call.rest)
      /\ n \notin {Lit} \cup Dynamic => n \in Mentions(call.rest)
      /\ n \in {Lit} \cup Dynamic => Mentions(call'.rest) = Mentions(call.rest)
  BY <1>1 DEF Mentions
<1>3. url' = url /\ variables' = variables /\ params' = params /\ callers' = callers
  BY <1>1 DEF template
<1>4. \A R : RestReached(R) => RestReached(R)'
  BY <1>2, <1>3 DEF RestReached, Calls
<1>5. \A R : ParamsReached(R) => ParamsReached(R)'
  BY <1>3 DEF ParamsReached
<1>6. \A S : StacksSeen(S) => StacksSeen(S)'
  BY <1>1, <1>3 DEF StacksSeen, Calls
<1>7. ASSUME NEW x \in Pending, x \notin Mentions(call.rest) \ Mentions(call'.rest)
      PROVE  x \in Pending'
  <2>0. x \in Nodes
    BY <1>7 DEF Pending
  <2>1. CASE x \in Mentions(call'.rest)
    <3>1. call' \in Calls'
      BY DEF Calls
    <3> QED
      BY <2>0, <2>1, <3>1 DEF Pending
  <2>2. CASE x \notin Mentions(call.rest)
    <3>1. CASE \E c \in Calls : x \in Mentions(c.rest)
      <4>1. PICK c \in Range(callers) : x \in Mentions(c.rest)
        BY <2>2, <3>1 DEF Calls
      <4>2. c \in Calls'
        BY <1>3 DEF Calls
      <4> QED
        BY <2>0, <4>1, <4>2 DEF Pending
    <3>2. CASE \E p \in Range(params) : x \in Mentions(Interpolated(p))
      BY <1>3, <2>0, <3>2 DEF Pending
    <3> QED
      BY <1>7, <3>1, <3>2 DEF Pending
  <2> QED
    BY <1>7, <2>1, <2>2
<1>8. Pending \subseteq (Mentions(call.rest) \ Mentions(call'.rest)) \cup Pending'
  BY <1>7
<1> QED
  BY <1>2, <1>3, <1>4, <1>5, <1>6, <1>8

LEMMA PutFollowed ==
    ASSUME Depths, Reached, Followed, NEW n, AtName(n), NEW o \in Seq(Counted),
           Put(o),
           \/ n \in {Lit} \cup Dynamic /\ missing' = missing
           \/ n \in Range(call.stack) /\ n \in Names /\ missing' = missing
           \/ n \in Nodes /\ ~Declared(n, variables) /\ missing' = Note(missing, n)
    PROVE  Reached' /\ Followed'
<1>1. /\ Mentions(call.rest) \subseteq {n} \cup Mentions(call'.rest)
      /\ n \notin {Lit} \cup Dynamic => n \in Mentions(call.rest)
      /\ n \in {Lit} \cup Dynamic => Mentions(call'.rest) = Mentions(call.rest)
      /\ \A R : RestReached(R) => RestReached(R)'
      /\ \A R : ParamsReached(R) => ParamsReached(R)'
      /\ Pending \subseteq (Mentions(call.rest) \ Mentions(call'.rest)) \cup Pending'
      /\ \A S : StacksSeen(S) => StacksSeen(S)'
      /\ url' = url /\ variables' = variables
  BY PutMentions
<1>2. PICK S \in SUBSET Nodes : Seen(S)
  BY DEF Followed
<1>3. PICK R : R = Reachable(url, variables)
  OBVIOUS
<1>4. R' = R /\ Reachable(url, variables)' = R
  BY <1>1, <1>3
<1>5. RestReached(R) /\ ParamsReached(R) /\ RestReached(R)' /\ ParamsReached(R)'
  BY <1>1, <1>3 DEF Reached
<1>6. missing \in Seq(Nodes)
  BY DEF Depths, TypeOK, Nodes
<1>7. Range(missing) \subseteq Range(missing') /\ MissingReached'
  <2>1. CASE missing' = missing
    BY <1>1, <2>1 DEF Reached, MissingReached, Undeclared
  <2>2. CASE n \in Nodes /\ ~Declared(n, variables) /\ missing' = Note(missing, n)
    <3>1. /\ Range(missing') = Range(missing) \cup {n}
          /\ IsInjective(missing) => IsInjective(missing')
      BY <1>6, <2>2, Noted
    <3>2. n \in R
      <4>1. n \notin {Lit} \cup Dynamic
        BY <2>2, TokensAssumption DEF Nodes
      <4>2. n \in Mentions(call.rest)
        BY <1>1, <4>1
      <4> QED
        BY <1>5, <4>2 DEF RestReached, Calls
    <3>3. Range(missing') \subseteq Undeclared(url, variables)
      BY <1>3, <2>2, <3>1, <3>2 DEF Reached, MissingReached, Undeclared
    <3> QED
      BY <1>1, <3>1, <3>3 DEF Reached, MissingReached, Undeclared
  <2> QED
    BY <2>1, <2>2
<1>8. Reached'
  BY <1>4, <1>5, <1>7 DEF Reached
<1>9. StacksSeen(S) /\ StacksSeen(S)'
  BY <1>1, <1>2 DEF Seen
<1>10. CASE n \in {Lit} \cup Dynamic \/ n \in Range(call.stack)
  <2>1. Pending \subseteq S \cup Pending'
    BY <1>1, <1>9, <1>10 DEF StacksSeen, Calls
  <2> QED
    BY <1>1, <1>2, <1>7, <1>8, <1>9, <2>1, SeenSame
<1>11. CASE n \in Nodes /\ ~Declared(n, variables) /\ missing' = Note(missing, n)
  <2>1. Pending \subseteq S \cup {n} \cup Pending'
    BY <1>1
  <2>2. Refers(variables, n) = {}
    BY <1>11 DEF Refers
  <2>3. n \in Range(missing')
    BY <1>6, <1>11, Noted
  <2>4. \A c \in Calls' : Range(c.stack) \subseteq S \cup {n}
    BY <1>9 DEF StacksSeen
  <2>5. /\ {n} \in SUBSET Nodes /\ url' = url /\ variables' = variables
        /\ Range(missing) \subseteq Range(missing')
        /\ \A m \in {n} : Refers(variables, m) \subseteq S \cup {n} \cup Pending'
        /\ \A m \in {n} : ~Declared(m, variables) => m \in Range(missing')
    BY <1>1, <1>7, <1>11, <2>2, <2>3
  <2> QED
    BY <1>2, <1>8, <2>1, <2>4, <2>5, SeenMore
<1> QED
  BY <1>10, <1>11

LEMMA FollowedStep ==
    Depths /\ Reached /\ Followed /\ [Next]_vars => Reached' /\ Followed'
<1> SUFFICES ASSUME Depths, Reached, Followed, [Next]_vars
             PROVE  Reached' /\ Followed'
  OBVIOUS
<1>0. /\ TypeOK /\ call.out \in Seq(Counted) /\ call.escape \in BOOLEAN
      /\ callers \in Seq(Call) /\ params \in Seq(Param)
      /\ call.stack \in Seq(Names) /\ url \in URLs /\ variables \in Vars
  BY CallTypes DEF Depths, TypeOK
<1>1. ASSUME NEW n \in Token
      PROVE  /\ Raw(<<n>>) \in Seq(Counted) /\ Zero(Raw(<<n>>))
             /\ Escaped(call.escape, Raw(<<n>>)) \in Seq(Counted)
  <2>1. <<n>> \in Seq(Token)
    OBVIOUS
  <2>2. Raw(<<n>>) \in Seq(Counted) /\ Zero(Raw(<<n>>))
    BY <2>1, RawIsZero
  <2> QED
    BY <1>0, <2>2, EscapeOnce
<1>2. PICK S \in SUBSET Nodes : Seen(S)
  BY DEF Followed
<1>3. PICK R : R = Reachable(url, variables)
  OBVIOUS
<1>4. /\ RestReached(R) /\ ParamsReached(R) /\ Closed(R, url, variables)
      /\ R \subseteq Nodes
  BY <1>0, <1>3, ReachableClosed DEF Reached
<1>5. CASE Literal
  BY <1>1, <1>5, TokensDistinct, PutFollowed DEF Literal, reports
<1>6. ASSUME NEW n \in Token, Generate(n)
      PROVE  Reached' /\ Followed'
  BY <1>1, <1>6, PutFollowed DEF Generate, reports
<1>7. ASSUME NEW n \in Token, Miss(n)
      PROVE  Reached' /\ Followed'
  BY <1>1, <1>7, TokensDistinct, PutFollowed DEF Miss
<1>8. ASSUME NEW n \in Token, Loop(n)
      PROVE  Reached' /\ Followed'
  <2>1. n \in Range(call.stack) /\ n \in Names
    BY <1>0, <1>8, InRange DEF Loop, OnStack, Declared
  <2> QED
    BY <1>1, <1>8, <2>1, PutFollowed DEF Loop
<1>9. ASSUME url' = url, variables' = variables, missing' = missing,
             RestReached(R)', ParamsReached(R)'
      PROVE  Reached'
  BY <1>3, <1>9 DEF Reached, MissingReached, Undeclared
<1>10. ASSUME NEW n \in Token, Enter(n)
       PROVE  Reached' /\ Followed'
  <2>1. /\ n \in Names /\ Declared(n, variables)
        /\ call'.rest = variables[n] /\ call'.stack = Append(call.stack, n)
        /\ url' = url /\ variables' = variables /\ params' = params
        /\ missing' = missing
    BY <1>0, <1>10, EnterFacts DEF Enter, template, reports
  <2>2. PICK c \in Call : /\ callers' = Append(callers, c)
                          /\ c.stack = call.stack
                          /\ Range(call.rest) = {n} \cup Range(c.rest)
    BY <1>0, <1>10, EnterFacts
  <2>3. Range(callers') = Range(callers) \cup {c}
    BY <1>0, <2>2, RangeOfAppend
  <2>4. Range(call'.stack) = Range(call.stack) \cup {n}
    BY <1>0, <2>1, RangeOfAppend
  <2>5. /\ n \in Mentions(call.rest) /\ n \in Nodes
        /\ Mentions(c.rest) \subseteq Mentions(call.rest)
        /\ Mentions(call.rest) \subseteq {n} \cup Mentions(c.rest)
        /\ Mentions(call'.rest) = Refers(variables, n)
    BY <2>1, <2>2, TokensDistinct DEF Mentions, Refers, Nodes
  <2>6. Refers(variables, n) \subseteq R
    BY <1>4, <2>5 DEF RestReached, Calls, Closed
  <2>7. RestReached(R)' /\ ParamsReached(R)'
    BY <1>4, <2>1, <2>3, <2>5, <2>6 DEF RestReached, ParamsReached, Calls
  <2>8. ASSUME NEW x \in Pending
        PROVE  x \in {n} \cup Pending'
    <3>1. c \in Calls' /\ x \in Nodes
      BY <2>3 DEF Calls, Pending
    <3>2. CASE x \in Mentions(call.rest)
      BY <2>5, <3>1, <3>2 DEF Pending
    <3>3. CASE \E d \in Range(callers) : x \in Mentions(d.rest)
      BY <2>3, <3>1, <3>3 DEF Pending, Calls
    <3>4. CASE \E p \in Range(params) : x \in Mentions(Interpolated(p))
      BY <2>1, <3>1, <3>4 DEF Pending
    <3> QED
      BY <2>8, <3>2, <3>3, <3>4 DEF Pending, Calls
  <2>9. Refers(variables, n) \subseteq Pending'
    <3>1. call' \in Calls' /\ Refers(variables, n) \subseteq Nodes
      BY <1>4, <2>6 DEF Calls
    <3> QED
      BY <2>5, <3>1 DEF Pending
  <2>10. \A d \in Calls' : Range(d.stack) \subseteq S \cup {n}
    BY <1>2, <2>2, <2>3, <2>4 DEF Seen, StacksSeen, Calls
  <2> QED
    BY <1>2, <1>9, <2>1, <2>5, <2>7, <2>8, <2>9, <2>10, SeenMore
<1>11. ASSUME url' = url, variables' = variables, missing' = missing,
              Pending \subseteq Pending', StacksSeen(S)'
       PROVE  Followed'
  BY <1>2, <1>11, SeenSame
<1>12. CASE Return
  <2> DEFINE c == Last(callers)
  <2>1. callers # <<>> /\ callers' = Front(callers) /\ call.rest = <<>>
    BY <1>12 DEF Return
  <2>2. /\ call'.rest = c.rest /\ call'.stack = c.stack
        /\ url' = url /\ variables' = variables /\ params' = params
        /\ missing' = missing
    <3>1. call' = [c EXCEPT !.out = @ \o Escaped(c.escape, call.out)] /\ c \in Call
      BY <1>0, <1>12, <2>1, RangeOfFront DEF Return
    <3> QED
      BY <1>12, <3>1 DEF Return, template, reports, Call
  <2>3. Range(callers) = Range(callers') \cup {c} /\ c \in Range(callers)
    BY <1>0, <2>1, RangeOfFront
  <2> HIDE DEF c
  <2>4. RestReached(R)' /\ ParamsReached(R)'
    BY <1>4, <2>2, <2>3 DEF RestReached, ParamsReached, Calls
  <2>5. StacksSeen(S)'
    BY <1>2, <2>2, <2>3 DEF Seen, StacksSeen, Calls
  <2>6. ASSUME NEW x \in Pending
        PROVE  x \in Pending'
    <3>1. x \in Nodes /\ call' \in Calls' /\ Range(callers') \subseteq Calls'
      BY DEF Calls, Pending
    <3>2. CASE x \in Mentions(call.rest)
      BY <2>1, <3>2, MentionsFacts
    <3>3. CASE \E d \in Range(callers) : x \in Mentions(d.rest)
      <4>1. PICK d \in Range(callers') \cup {c} : x \in Mentions(d.rest)
        BY <2>3, <3>3
      <4> QED
        BY <2>2, <3>1, <4>1 DEF Pending
    <3>4. CASE \E p \in Range(params) : x \in Mentions(Interpolated(p))
      BY <2>2, <3>1, <3>4 DEF Pending
    <3> QED
      BY <2>6, <3>2, <3>3, <3>4 DEF Pending, Calls
  <2> QED
    BY <1>9, <1>11, <2>2, <2>4, <2>5, <2>6
<1>13. CASE NextParam
  <2> DEFINE p == Head(params)
  <2>1. /\ p \in Param /\ Range(params) = {p} \cup Range(params')
    BY <1>0, <1>13, RangeOfHead DEF NextParam
  <2>2. /\ call' = Open(p).call /\ callers' = <<>> /\ callers = <<>>
        /\ call.rest = <<>> /\ missing' = missing
        /\ url' = url /\ variables' = variables
    BY <1>13 DEF NextParam, Ready, template, reports
  <2> HIDE DEF p
  <2>3. call'.rest = Interpolated(p) /\ call'.stack = <<>>
    BY <2>1, <2>2, OpenFacts, OutermostFacts
  <2>4. Calls' = {call'} /\ Calls = {call}
    BY <2>2, EmptyRange DEF Calls
  <2>5. RestReached(R)' /\ ParamsReached(R)'
    BY <1>4, <2>1, <2>3, <2>4 DEF RestReached, ParamsReached
  <2>6. StacksSeen(S)'
    BY <2>3, <2>4, EmptyRange DEF StacksSeen
  <2>7. ASSUME NEW x \in Pending
        PROVE  x \in Pending'
    <3>1. x \in Nodes /\ call' \in Calls'
      BY DEF Calls, Pending
    <3>2. PICK q \in Range(params) : x \in Mentions(Interpolated(q))
      BY <2>2, <2>4, <2>7, MentionsFacts DEF Pending
    <3> QED
      BY <2>1, <2>3, <3>1, <3>2 DEF Pending
  <2> QED
    BY <1>9, <1>11, <2>2, <2>5, <2>6, <2>7
<1>14. CASE Finish
  <2>1. /\ call' = Outermost(<<>>, FALSE) /\ callers' = <<>> /\ callers = <<>>
        /\ call.rest = <<>> /\ missing' = missing /\ params' = params
        /\ url' = url /\ variables' = variables
    BY <1>14 DEF Finish, Ready, template, reports
  <2>2. call'.rest = <<>> /\ call'.stack = <<>>
    <3>1. <<>> \in Seq(Token) /\ FALSE \in BOOLEAN
      OBVIOUS
    <3> QED
      BY <2>1, <3>1, OutermostFacts
  <2>3. Calls' = {call'} /\ Calls = {call}
    BY <2>1, EmptyRange DEF Calls
  <2>4. RestReached(R)' /\ ParamsReached(R)'
    BY <1>4, <2>1, <2>2, <2>3, MentionsFacts DEF RestReached, ParamsReached
  <2>5. StacksSeen(S)'
    BY <2>2, <2>3, EmptyRange DEF StacksSeen
  <2>6. ASSUME NEW x \in Pending
        PROVE  x \in Pending'
    BY <2>1, <2>3, <2>6, MentionsFacts DEF Pending
  <2> QED
    BY <1>9, <1>11, <2>1, <2>4, <2>5, <2>6
<1>15. ASSUME NEW n \in Names, NEW x \in ScriptTexts, ScriptSet(n, x)
       PROVE  Reached' /\ Followed'
  <2>1. /\ url' \in URLs /\ params' = url'.query /\ callers' = <<>>
        /\ call' = Outermost(url'.base, FALSE) /\ missing' = <<>>
    BY <1>0, <1>15 DEF ScriptSet, Depths, IdleWhenDone
  <2>2. variables' \in Vars
    BY <1>15, DepthsStep DEF Depths, TypeOK
  <2>3. (Starting => Reached /\ Followed)'
    BY FollowedStart, PTL
  <2> QED
    BY <2>1, <2>2, <2>3 DEF Starting
<1>16. CASE UNCHANGED vars
  <2>1. /\ url' = url /\ variables' = variables /\ params' = params
        /\ call' = call /\ callers' = callers /\ missing' = missing
    BY <1>16 DEF vars, template, reports
  <2>2. Calls' = Calls /\ Pending' = Pending
    BY <2>1 DEF Calls, Pending
  <2>3. RestReached(R)' /\ ParamsReached(R)' /\ StacksSeen(S)'
    BY <1>2, <1>4, <2>1, <2>2 DEF RestReached, ParamsReached, Seen, StacksSeen
  <2> QED
    BY <1>9, <1>11, <2>1, <2>2, <2>3
<1> QED
  BY <1>5, <1>6, <1>7, <1>8, <1>10, <1>12, <1>13, <1>14, <1>15, <1>16 DEF Next

LEMMA FollowedInit == Init => Reached /\ Followed
  BY FollowedStart DEF Init, Starting

(* When nothing is left to be looked at, what has been seen is closed.       *)
LEMMA DoneExact ==
    Depths /\ Reached /\ Followed /\ phase = "done" =>
        Range(missing) = Undeclared(url, variables) /\ IsInjective(missing)
<1> SUFFICES ASSUME Depths, Reached, Followed, phase = "done"
             PROVE  Range(missing) = Undeclared(url, variables) /\ IsInjective(missing)
  OBVIOUS
<1>1. PICK S \in SUBSET Nodes : Seen(S)
  BY DEF Followed
<1>2. callers = <<>> /\ params = <<>> /\ call.rest = <<>>
  BY DEF Depths, IdleWhenDone
<1>3. Calls = {call} /\ Range(params) = {}
  BY <1>2, EmptyRange DEF Calls
<1>4. Pending = {}
  BY <1>2, <1>3, MentionsFacts DEF Pending
<1>5. Closed(S, url, variables)
  BY <1>1, <1>4 DEF Seen, StartSeen, RefersSeen, Closed
<1>6. Undeclared(url, variables) \subseteq Range(missing)
  BY <1>1, <1>5, ReachableLeast DEF Seen, MissingSeen, Undeclared
<1> QED
  BY <1>6 DEF Reached, MissingReached

(* Of what ApplyURL expands, the reported names are those that cannot be     *)
(* substituted: every undeclared one to which the values lead, found by      *)
(* whatever calls of expand, and nothing else; none is lost to a cycle on    *)
(* the way.  The keys of parameters with a value are not expanded: what      *)
(* they name is neither looked up nor reported (NoPlaceholderLeft).          *)
THEOREM MissingIsExact == Spec => []MissingExact
<1> DEFINE Inv == Depths /\ Reached /\ Followed
<1>1. Init => Inv
  BY DepthsInit, FollowedInit
<1>2. Inv /\ [Next]_vars => Inv'
  BY DepthsStep, FollowedStep
<1>3. Inv => MissingExact
  BY DoneExact DEF MissingExact, Undeclared
<1> QED
  BY <1>1, <1>2, <1>3, PTL DEF Spec

-----------------------------------------------------------------------------
(* What was reported before the last variable a script set.                  *)
BeforeExact ==
    \/ before.variables = variables
    \/ Range(before.missing) = Undeclared(url, before.variables)

(* A literal text leads nowhere: what can be reached with it could be        *)
(* reached without.                                                          *)
LEMMA LiteralLeadsNowhere ==
    ASSUME NEW u \in URLs, NEW v \in Vars, NEW w \in Vars, NEW n \in Names,
           w = [v EXCEPT ![n] = <<Lit>>]
    PROVE  Undeclared(u, w) \subseteq Undeclared(u, v) \ {n}
<1> DEFINE R == Reachable(u, v)
<1>1. R \in SUBSET Nodes /\ Closed(R, u, v)
  BY ReachableClosed
<1>2. w[n] = <<Lit>> /\ \A m \in Names \ {n} : w[m] = v[m]
  BY DEF Vars
<1>3. Declared(n, w) /\ Mentions(<<Lit>>) = {}
  <2>1. <<Lit>> \in Seq(Token)
    BY TokensDistinct
  <2>2. Range(<<Lit>>) = {Lit}
    BY DEF Range
  <2> QED
    BY <1>2, <2>1, <2>2, TextsAssumption DEF Declared, Mentions
<1>4. \A m : m # n => (Declared(m, w) <=> Declared(m, v))
  BY <1>2 DEF Declared
<1>5. ASSUME NEW m \in R
      PROVE  Refers(w, m) \subseteq R
  <2>1. CASE m = n
    BY <1>2, <1>3, <2>1 DEF Refers
  <2>2. CASE m # n
    <3>1. Refers(w, m) = Refers(v, m)
      BY <1>2, <1>4, <2>2 DEF Refers, Declared
    <3> QED
      BY <1>1, <3>1 DEF Closed
  <2> QED
    BY <2>1, <2>2
<1>6. Closed(R, u, w)
  BY <1>1, <1>5 DEF Closed
<1>7. Reachable(u, w) \subseteq R
  BY <1>1, <1>6, ReachableLeast
<1> QED
  BY <1>3, <1>4, <1>7 DEF Undeclared

LEMMA BeforeStep ==
    Depths /\ Reached /\ Followed /\ BeforeExact /\ [Next]_vars => BeforeExact'
<1> SUFFICES ASSUME Depths, Reached, Followed, BeforeExact, [Next]_vars
             PROVE  BeforeExact'
  OBVIOUS
<1>1. ASSUME NEW n \in Names, NEW x \in ScriptTexts, ScriptSet(n, x)
      PROVE  BeforeExact'
  <2>1. Range(missing) = Undeclared(url, variables)
    BY <1>1, DoneExact DEF ScriptSet
  <2>2. before' = [variables |-> variables, missing |-> missing] /\ url' = url
    BY <1>1 DEF ScriptSet
  <2> QED
    BY <2>1, <2>2 DEF BeforeExact
<1>2. CASE template' = template
  BY <1>2 DEF template, BeforeExact
<1> QED
  BY <1>1, <1>2 DEF Next, vars, Literal, Generate, Miss, Loop, Enter, Return,
                    NextParam, Finish, Put

(* Nothing that a script stores as a literal text makes a name go missing    *)
(* that was not missing before, and the name it stores is not any more.      *)
THEOREM SettingRepairs == Spec => []SetRepairs
<1> DEFINE Inv == Depths /\ Reached /\ Followed /\ BeforeExact
<1>1. Init => Inv
  BY DepthsInit, FollowedInit DEF Init, BeforeExact
<1>2. Inv /\ [Next]_vars => Inv'
  BY DepthsStep, FollowedStep, BeforeStep
<1>3. Inv => SetRepairs
  <2> SUFFICES ASSUME Inv, phase = "done", NEW n \in Names,
                      before.variables[n] # <<Lit>>,
                      variables = [before.variables EXCEPT ![n] = <<Lit>>]
               PROVE  Range(missing) \subseteq Range(before.missing) \ {n}
    BY DEF SetRepairs
  <2>1. url \in URLs /\ variables \in Vars /\ before.variables \in Vars
    BY DEF Depths, TypeOK
  <2>2. variables[n] = <<Lit>>
    BY <2>1 DEF Vars
  <2>3. Range(before.missing) = Undeclared(url, before.variables)
    BY <2>2 DEF BeforeExact
  <2>4. Range(missing) = Undeclared(url, variables)
    BY DoneExact
  <2> QED
    BY <2>1, <2>3, <2>4, LiteralLeadsNowhere
<1> QED
  BY <1>1, <1>2, <1>3, PTL DEF Spec

-----------------------------------------------------------------------------
(* The reference: substituting all placeholders of a text at once, over and   *)
(* over, treats the tokens of a text one by one.                             *)
Piece(x, v) == IF Declared(x, v) THEN v[x] ELSE <<x>>

LEMMA PieceTypes ==
    ASSUME NEW v \in Vars, NEW x \in Token
    PROVE  Piece(x, v) \in Seq(Token)
<1>1. <<x>> \in Seq(Token)
  OBVIOUS
<1>2. Declared(x, v) => v[x] \in Texts
  BY DEF Declared, Vars
<1> QED
  BY <1>1, <1>2, TextsAssumption DEF Piece

Pieces(s, v) == [k \in 1..Len(s) |-> Piece(s[k], v)]

LEMMA PiecesTypes ==
    ASSUME NEW v \in Vars, NEW s \in Seq(Token)
    PROVE  /\ Pieces(s, v) \in Seq(Seq(Token))
           /\ Len(Pieces(s, v)) = Len(s)
           /\ Substitute(s, v) = FlattenSeq(Pieces(s, v))
           /\ Substitute(s, v) \in Seq(Token)
<1>1. Len(s) \in Nat /\ \A k \in 1..Len(s) : Piece(s[k], v) \in Seq(Token)
  BY PieceTypes
<1>2. Pieces(s, v) \in [1..Len(s) -> Seq(Token)]
  BY <1>1 DEF Pieces
<1>3. Pieces(s, v) \in Seq(Seq(Token)) /\ Len(Pieces(s, v)) = Len(s)
  BY <1>1, <1>2
<1>4. Substitute(s, v) = FlattenSeq(Pieces(s, v))
  BY DEF Substitute, Pieces, Piece
<1> QED
  BY <1>3, <1>4, FlatText

(* A function of the places of a joined sequence.                            *)
LEMMA JoinedMap ==
    ASSUME NEW X, NEW f \in Seq(X), NEW g \in Seq(X), NEW h \in Seq(X),
           Len(h) = Len(f) + Len(g),
           \A k \in 1..Len(f) : h[k] = f[k],
           \A k \in 1..Len(g) : h[Len(f) + k] = g[k]
    PROVE  h = f \o g
<1>1. PICK m \in Nat, n \in Nat : m = Len(f) /\ n = Len(g)
  BY LenProperties
<1>2. PICK j \in Seq(X) : j = f \o g
  BY ConcatProperties
<1>3. Len(j) = m + n
  BY <1>1, <1>2, ConcatProperties
<1>4. \A k \in 1..(m + n) : j[k] = IF k <= m THEN f[k] ELSE g[k - m]
  BY <1>1, <1>2, ConcatProperties
<1>5. ASSUME NEW k \in 1..(m + n)
      PROVE  h[k] = j[k]
  <2>1. CASE k <= m
    <3>1. k \in 1..m
      BY <1>1, <2>1
    <3> QED
      BY <1>1, <1>4, <2>1, <3>1
  <2>2. CASE ~(k <= m)
    <3>1. k - m \in 1..n /\ m + (k - m) = k
      BY <1>1, <2>2
    <3> QED
      BY <1>1, <1>4, <2>2, <3>1
  <2> QED
    BY <2>1, <2>2
<1>6. Len(h) = m + n
  BY <1>1
<1>7. h = j
  BY <1>3, <1>5, <1>6, SeqEqual
<1> QED
  BY <1>2, <1>7

LEMMA SubstituteJoined ==
    ASSUME NEW v \in Vars, NEW s \in Seq(Token), NEW t \in Seq(Token)
    PROVE  Substitute(s \o t, v) = Substitute(s, v) \o Substitute(t, v)
<1>1. PICK u \in Seq(Token) : u = s \o t
  BY ConcatProperties
<1>2. /\ Len(s) \in Nat /\ Len(t) \in Nat /\ Len(u) = Len(s) + Len(t)
      /\ \A k \in 1..Len(s) : u[k] = s[k] /\ k \in 1..Len(u)
      /\ \A k \in 1..Len(t) : u[Len(s) + k] = t[k] /\ Len(s) + k \in 1..Len(u)
  BY <1>1
<1>3. /\ \A k \in 1..Len(s) : Pieces(u, v)[k] = Pieces(s, v)[k]
      /\ \A k \in 1..Len(t) : Pieces(u, v)[Len(s) + k] = Pieces(t, v)[k]
  BY <1>2 DEF Pieces
<1>4. PICK f \in Seq(Seq(Token)), g \in Seq(Seq(Token)), h \in Seq(Seq(Token)) :
        f = Pieces(s, v) /\ g = Pieces(t, v) /\ h = Pieces(u, v)
  BY PiecesTypes
<1>5. /\ Len(h) = Len(f) + Len(g)
      /\ \A k \in 1..Len(f) : h[k] = f[k]
      /\ \A k \in 1..Len(g) : h[Len(f) + k] = g[k]
  BY <1>2, <1>3, <1>4, PiecesTypes
<1>6. h = f \o g
  BY <1>5, JoinedMap
<1>7. FlattenSeq(h) = FlattenSeq(f) \o FlattenSeq(g)
  BY <1>6, FlatJoined
<1> QED
  BY <1>1, <1>4, <1>7, PiecesTypes

LEMMA FlatOne ==
    ASSUME NEW X, NEW x \in Seq(X)
    PROVE  FlattenSeq(<<x>>) = x
<1>1. <<>> \in Seq(Seq(X)) /\ Append(<<>>, x) = <<x>> /\ <<>> \o x = x
  BY ConcatEmptySeq
<1> QED
  BY <1>1, FlatAppend, FlatNothing

LEMMA SubstituteOne ==
    ASSUME NEW v \in Vars, NEW x \in Token
    PROVE  Substitute(<<x>>, v) = Piece(x, v)
<1>1. <<x>> \in Seq(Token) /\ Len(<<x>>) = 1 /\ <<x>>[1] = x
  OBVIOUS
<1>2. Pieces(<<x>>, v) = <<Piece(x, v)>>
  BY <1>1 DEF Pieces
<1>3. Substitute(<<x>>, v) = FlattenSeq(<<Piece(x, v)>>)
  BY <1>1, <1>2, PiecesTypes
<1>4. PICK y \in Seq(Token) : y = Piece(x, v)
  BY PieceTypes
<1>5. FlattenSeq(<<y>>) = y
  BY FlatOne
<1> QED
  BY <1>3, <1>4, <1>5

LEMMA SubstituteNothing ==
    ASSUME NEW v \in Vars
    PROVE  Substitute(<<>>, v) = <<>>
<1>1. <<>> \in Seq(Token) /\ Len(<<>>) = 0
  OBVIOUS
<1>2. Pieces(<<>>, v) = <<>>
  BY <1>1 DEF Pieces
<1> QED
  BY <1>1, <1>2, PiecesTypes, FlatNothing

LEMMA SubstitutedSteps ==
    ASSUME NEW v \in Vars, NEW s \in Seq(Token)
    PROVE  /\ Substituted(s, v)[0] = s
           /\ \A k \in Nat : /\ Substituted(s, v)[k] \in Seq(Token)
                             /\ Substituted(s, v)[k + 1] =
                                  Substitute(Substituted(s, v)[k], v)
<1> DEFINE Is(f) == f = [k \in Nat |-> IF k = 0 THEN s ELSE Substitute(f[k - 1], v)]
           g == [t \in Seq(Token) |-> Substitute(t, v)]
<1>1. g \in [Seq(Token) -> Seq(Token)]
  BY PiecesTypes
<1>2. PICK e \in [Nat -> Seq(Token)] : e[0] = s /\ \A k \in Nat : e[k + 1] = g[e[k]]
  <2> HIDE DEF g
  <2>1. PICK e \in [Nat -> Seq(Token)] : Iterates(e, s, g)
    BY <1>1, Iterated
  <2> QED
    BY <2>1 DEF Iterates
<1>3. ASSUME NEW k \in Nat
      PROVE  e[k + 1] = Substitute(e[k], v)
  BY <1>2
<1> HIDE DEF g
<1>4. Is(e)
  <2>1. ASSUME NEW k \in Nat
        PROVE  e[k] = IF k = 0 THEN s ELSE Substitute(e[k - 1], v)
    <3>1. CASE k = 0
      BY <1>2, <3>1
    <3>2. CASE k # 0
      <4>1. k - 1 \in Nat /\ (k - 1) + 1 = k
        BY <3>2
      <4> QED
        BY <1>3, <3>2, <4>1
    <3> QED
      BY <3>1, <3>2
  <2> QED
    BY <1>2, <2>1
<1>5. PICK f : f = Substituted(s, v)
  OBVIOUS
<1>6. Is(f)
  <2>1. f = CHOOSE h : Is(h)
    BY <1>5 DEF Substituted
  <2> QED
    BY <1>4, <2>1
<1>7. f[0] = s /\ \A k \in Nat : f[k + 1] = Substitute(f[k], v)
  <2>1. ASSUME NEW k \in Nat
        PROVE  k + 1 \in Nat /\ k + 1 # 0 /\ (k + 1) - 1 = k
    OBVIOUS
  <2> QED
    BY <1>6, <2>1
<1> DEFINE S == {k \in Nat : f[k] \in Seq(Token)}
<1>8. 0 \in S /\ \A k \in Nat : k \in S => k + 1 \in S
  <2>1. 0 \in S
    BY <1>7
  <2>2. ASSUME NEW k \in Nat, f[k] \in Seq(Token)
        PROVE  f[k + 1] \in Seq(Token)
    BY <1>7, <2>2, PiecesTypes
  <2>3. \A k \in Nat : k + 1 \in Nat
    OBVIOUS
  <2>4. 0 \in Nat
    OBVIOUS
  <2> QED
    BY <2>1, <2>2, <2>3, <2>4
<1>9. Nat \subseteq S
  <2> HIDE DEF S
  <2> QED
    BY <1>8, Counting
<1> QED
  BY <1>5, <1>7, <1>9

LEMMA SubstitutedJoined ==
    ASSUME NEW v \in Vars, NEW s \in Seq(Token), NEW t \in Seq(Token)
    PROVE  \A k \in Nat : Substituted(s \o t, v)[k] =
                            Substituted(s, v)[k] \o Substituted(t, v)[k]
<1> DEFINE S == {k \in Nat : Substituted(s \o t, v)[k] =
                               Substituted(s, v)[k] \o Substituted(t, v)[k]}
<1>1. s \o t \in Seq(Token)
  BY ConcatProperties
<1>2. 0 \in S
  BY <1>1, SubstitutedSteps
<1>3. ASSUME NEW k \in Nat, k \in S
      PROVE  k + 1 \in S
  <2>1. PICK a \in Seq(Token), b \in Seq(Token) :
          a = Substituted(s, v)[k] /\ b = Substituted(t, v)[k]
    BY SubstitutedSteps
  <2>2. /\ Substituted(s, v)[k + 1] = Substitute(a, v)
        /\ Substituted(t, v)[k + 1] = Substitute(b, v)
    BY <2>1, SubstitutedSteps
  <2>3. PICK u \in Seq(Token) : u = s \o t
    BY <1>1
  <2>4. Substituted(u, v)[k] = a \o b
    BY <1>3, <2>1, <2>3
  <2>5. Substituted(u, v)[k + 1] = Substitute(Substituted(u, v)[k], v)
    BY SubstitutedSteps
  <2>6. Substitute(a \o b, v) = Substitute(a, v) \o Substitute(b, v)
    BY SubstituteJoined
  <2>7. Substituted(u, v)[k + 1] = Substituted(s, v)[k + 1] \o Substituted(t, v)[k + 1]
    BY <2>2, <2>4, <2>5, <2>6
  <2>8. k + 1 \in Nat
    OBVIOUS
  <2> QED
    BY <2>3, <2>7, <2>8
<1>4. Nat \subseteq S
  BY <1>2, <1>3, Counting
<1> QED
  BY <1>4

(* A text that stays as it is.                                               *)
LEMMA SubstitutedStays ==
    ASSUME NEW v \in Vars, NEW s \in Seq(Token), Substitute(s, v) = s
    PROVE  \A k \in Nat : Substituted(s, v)[k] = s
<1> DEFINE S == {k \in Nat : Substituted(s, v)[k] = s}
<1>1. 0 \in S
  BY SubstitutedSteps
<1>2. ASSUME NEW k \in Nat, k \in S
      PROVE  k + 1 \in S
  <2>1. Substituted(s, v)[k + 1] = Substitute(Substituted(s, v)[k], v)
    BY SubstitutedSteps
  <2> QED
    BY <1>2, <2>1
<1>3. Nat \subseteq S
  BY <1>1, <1>2, Counting
<1> QED
  BY <1>3

(* What a name becomes is what its value becomes, one substitution later.    *)
LEMMA SubstitutedName ==
    ASSUME NEW v \in Vars, NEW n \in Names, Declared(n, v)
    PROVE  /\ v[n] \in Seq(Token)
           /\ \A k \in Nat : Substituted(<<n>>, v)[k + 1] = Substituted(v[n], v)[k]
<1> DEFINE S == {k \in Nat : Substituted(<<n>>, v)[k + 1] = Substituted(v[n], v)[k]}
<1>1. n \in Token /\ <<n>> \in Seq(Token)
  <2>1. n \in Token
    BY TokensDistinct
  <2> QED
    BY <2>1
<1>2. Piece(n, v) = v[n] /\ v[n] \in Seq(Token)
  BY <1>1, PieceTypes DEF Piece
<1>3. 0 \in S
  <2>1. PICK t \in Seq(Token) : t = <<n>>
    BY <1>1
  <2>2. 0 \in Nat /\ Substituted(t, v)[0] = t
    BY SubstitutedSteps
  <2>3. Substituted(t, v)[0 + 1] = Substitute(t, v)
    BY <2>2, SubstitutedSteps
  <2>4. Substitute(t, v) = v[n]
    BY <1>1, <1>2, <2>1, SubstituteOne
  <2>5. Substituted(v[n], v)[0] = v[n]
    BY <1>2, SubstitutedSteps
  <2> QED
    BY <2>1, <2>2, <2>3, <2>4, <2>5
<1>4. ASSUME NEW k \in Nat, k \in S
      PROVE  k + 1 \in S
  <2>1. PICK t \in Seq(Token), u \in Seq(Token) : t = <<n>> /\ u = v[n]
    BY <1>1, <1>2
  <2>2. k + 1 \in Nat
    OBVIOUS
  <2>3. Substituted(t, v)[(k + 1) + 1] = Substitute(Substituted(t, v)[k + 1], v)
    BY <2>2, SubstitutedSteps
  <2>4. Substituted(u, v)[k + 1] = Substitute(Substituted(u, v)[k], v)
    BY SubstitutedSteps
  <2> QED
    BY <1>4, <2>1, <2>2, <2>3, <2>4
<1>5. Nat \subseteq S
  BY <1>3, <1>4, Counting
<1> QED
  BY <1>2, <1>5

-----------------------------------------------------------------------------
(* What a call of expand is to make of a text s: at depth d as many           *)
(* substitutions are left as there are names that are not on its stack.      *)
LEMMA TimesTypes ==
    ASSUME NEW s \in Seq(Token), NEW n \in {0, 1}
    PROVE  /\ Times(s, n) \in Seq(Counted) /\ Len(Times(s, n)) = Len(s)
           /\ Times(s, 0) = Raw(s) /\ Times(s, 1) = Escape(Times(s, 0))
<1>1. Len(s) \in Nat /\ \A k \in 1..Len(s) : s[k] \in Token
  OBVIOUS
<1>2. Times(s, n) \in [1..Len(s) -> Counted]
  BY <1>1 DEF Times, Counted
<1>3. Times(s, n) \in Seq(Counted) /\ Len(Times(s, n)) = Len(s)
  BY <1>1, <1>2
<1>4. Times(s, 0) = Raw(s)
  BY DEF Times, Raw
<1>5. Len(Raw(s)) = Len(s) /\ \A k \in 1..Len(s) : Raw(s)[k] = <<s[k], 0>>
  BY RawIsZero DEF Raw
<1>6. Escape(Raw(s)) = [k \in 1..Len(s) |-> <<s[k], 1>>]
  BY <1>5 DEF Escape
<1> QED
  BY <1>3, <1>4, <1>6 DEF Times

LEMMA TimesJoined ==
    ASSUME NEW s \in Seq(Token), NEW t \in Seq(Token), NEW n \in {0, 1}
    PROVE  Times(s \o t, n) = Times(s, n) \o Times(t, n)
<1>1. PICK u \in Seq(Token) : u = s \o t
  BY ConcatProperties
<1>2. /\ Len(s) \in Nat /\ Len(t) \in Nat /\ Len(u) = Len(s) + Len(t)
      /\ \A k \in 1..Len(s) : u[k] = s[k] /\ k \in 1..Len(u)
      /\ \A k \in 1..Len(t) : u[Len(s) + k] = t[k] /\ Len(s) + k \in 1..Len(u)
  BY <1>1
<1>3. /\ \A k \in 1..Len(s) : Times(u, n)[k] = Times(s, n)[k]
      /\ \A k \in 1..Len(t) : Times(u, n)[Len(s) + k] = Times(t, n)[k]
  BY <1>2 DEF Times
<1>4. PICK f \in Seq(Counted), g \in Seq(Counted), h \in Seq(Counted) :
        f = Times(s, n) /\ g = Times(t, n) /\ h = Times(u, n)
  BY TimesTypes
<1>5. /\ Len(h) = Len(f) + Len(g)
      /\ \A k \in 1..Len(f) : h[k] = f[k]
      /\ \A k \in 1..Len(g) : h[Len(f) + k] = g[k]
  BY <1>2, <1>3, <1>4, TimesTypes
<1>6. h = f \o g
  BY <1>5, JoinedMap
<1> QED
  BY <1>1, <1>4, <1>6

Made(s, v, d) == Times(Substituted(s, v)[Cardinality(Names) - d], 0)

Wanted(s, e, v, d) == IF e THEN ExpectedOfValue(s, v) ELSE Made(s, v, d)

LEMMA NamesCounted == Cardinality(Names) \in Nat
  BY FS_CardinalityType, TokensAssumption

LEMMA MadeTypes ==
    ASSUME NEW v \in Vars, NEW s \in Seq(Token), NEW d \in 0..Cardinality(Names)
    PROVE  /\ Made(s, v, d) \in Seq(Counted)
           /\ Substituted(s, v)[Cardinality(Names) - d] \in Seq(Token)
<1>1. Cardinality(Names) - d \in Nat
  BY NamesCounted
<1>2. Substituted(s, v)[Cardinality(Names) - d] \in Seq(Token)
  BY <1>1, SubstitutedSteps
<1> QED
  BY <1>2, TimesTypes DEF Made

LEMMA MadeJoined ==
    ASSUME NEW v \in Vars, NEW s \in Seq(Token), NEW t \in Seq(Token),
           NEW d \in 0..Cardinality(Names)
    PROVE  Made(s \o t, v, d) = Made(s, v, d) \o Made(t, v, d)
<1>1. PICK k \in Nat : k = Cardinality(Names) - d
  BY NamesCounted
<1>2. PICK a \in Seq(Token), b \in Seq(Token) :
        a = Substituted(s, v)[k] /\ b = Substituted(t, v)[k]
  BY SubstitutedSteps
<1>3. Substituted(s \o t, v)[k] = a \o b
  BY <1>2, SubstitutedJoined
<1>4. 0 \in {0, 1}
  OBVIOUS
<1>5. Times(a \o b, 0) = Times(a, 0) \o Times(b, 0)
  BY <1>4, TimesJoined
<1> QED
  BY <1>1, <1>2, <1>3, <1>5 DEF Made

(* A token that no variable is declared for, and a text without tokens.      *)
LEMMA MadeSame ==
    ASSUME NEW v \in Vars, NEW d \in 0..Cardinality(Names)
    PROVE  /\ Made(<<>>, v, d) = <<>>
           /\ \A x \in Token : ~Declared(x, v) => Made(<<x>>, v, d) = Raw(<<x>>)
<1>1. PICK k \in Nat : k = Cardinality(Names) - d
  BY NamesCounted
<1>2. ASSUME NEW s \in Seq(Token), Substitute(s, v) = s
      PROVE  Made(s, v, d) = Raw(s)
  <2>1. Substituted(s, v)[k] = s
    BY <1>2, SubstitutedStays
  <2>2. Times(s, 0) = Raw(s)
    BY DEF Times, Raw
  <2> QED
    BY <1>1, <2>1, <2>2 DEF Made
<1>3. <<>> \in Seq(Token) /\ Raw(<<>>) = <<>>
  BY DEF Raw
<1>4. Made(<<>>, v, d) = <<>>
  BY <1>2, <1>3, SubstituteNothing
<1>5. ASSUME NEW x \in Token, ~Declared(x, v)
      PROVE  Made(<<x>>, v, d) = Raw(<<x>>)
  <2>1. <<x>> \in Seq(Token)
    OBVIOUS
  <2>2. Substitute(<<x>>, v) = <<x>>
    BY <1>5, SubstituteOne DEF Piece
  <2> QED
    BY <1>2, <2>1, <2>2
<1> QED
  BY <1>4, <1>5

LEMMA MadeName ==
    ASSUME NEW v \in Vars, NEW n \in Names, Declared(n, v),
           NEW d \in Nat, d + 1 <= Cardinality(Names)
    PROVE  v[n] \in Seq(Token) /\ Made(<<n>>, v, d) = Made(v[n], v, d + 1)
<1>1. PICK k \in Nat : k = Cardinality(Names) - (d + 1)
  BY NamesCounted
<1>2. Cardinality(Names) - d = k + 1
  BY <1>1, NamesCounted
<1>3. v[n] \in Seq(Token) /\ Substituted(<<n>>, v)[k + 1] = Substituted(v[n], v)[k]
  BY SubstitutedName
<1> QED
  BY <1>1, <1>2, <1>3 DEF Made

-----------------------------------------------------------------------------
ValuePiece(x, v) == Times(FullySubstituted(<<x>>, v), IF x = Lit THEN 0 ELSE 1)
ValuePieces(s, v) == [k \in 1..Len(s) |-> ValuePiece(s[k], v)]

LEMMA ValuePieceTypes ==
    ASSUME NEW v \in Vars, NEW x \in Token
    PROVE  /\ ValuePiece(x, v) \in Seq(Counted)
           /\ ValuePiece(x, v) = Escaped(x # Lit, Made(<<x>>, v, 0))
<1>1. <<x>> \in Seq(Token) /\ Cardinality(Names) \in Nat
  BY NamesCounted
<1>2. PICK t \in Seq(Token) : t = FullySubstituted(<<x>>, v)
  BY <1>1, SubstitutedSteps DEF FullySubstituted
<1>3. Cardinality(Names) - 0 = Cardinality(Names)
  BY <1>1
<1>4. Made(<<x>>, v, 0) = Times(t, 0)
  BY <1>2, <1>3 DEF Made, FullySubstituted
<1>5. /\ Times(t, 0) \in Seq(Counted) /\ Times(t, 1) \in Seq(Counted)
      /\ Times(t, 1) = Escape(Times(t, 0))
  <2>1. 0 \in {0, 1} /\ 1 \in {0, 1}
    OBVIOUS
  <2> QED
    BY <2>1, TimesTypes
<1>6. CASE x = Lit
  BY <1>2, <1>4, <1>5, <1>6 DEF ValuePiece, Escaped
<1>7. CASE x # Lit
  BY <1>2, <1>4, <1>5, <1>7 DEF ValuePiece, Escaped
<1> QED
  BY <1>6, <1>7

LEMMA ValuePiecesTypes ==
    ASSUME NEW v \in Vars, NEW s \in Seq(Token)
    PROVE  /\ ValuePieces(s, v) \in Seq(Seq(Counted))
           /\ Len(ValuePieces(s, v)) = Len(s)
           /\ ExpectedOfValue(s, v) = FlattenSeq(ValuePieces(s, v))
           /\ ExpectedOfValue(s, v) \in Seq(Counted)
<1>1. Len(s) \in Nat /\ \A k \in 1..Len(s) : ValuePiece(s[k], v) \in Seq(Counted)
  <2>1. Len(s) \in Nat /\ \A k \in 1..Len(s) : s[k] \in Token
    OBVIOUS
  <2>2. \A x \in Token : ValuePiece(x, v) \in Seq(Counted)
    BY ValuePieceTypes
  <2> QED
    BY <2>1, <2>2
<1>2. ValuePieces(s, v) \in [1..Len(s) -> Seq(Counted)]
  BY <1>1 DEF ValuePieces
<1>3. ValuePieces(s, v) \in Seq(Seq(Counted)) /\ Len(ValuePieces(s, v)) = Len(s)
  BY <1>1, <1>2
<1>4. ExpectedOfValue(s, v) = FlattenSeq(ValuePieces(s, v))
  BY DEF ExpectedOfValue, ValuePieces, ValuePiece
<1> QED
  BY <1>3, <1>4, FlatText

LEMMA ValueJoined ==
    ASSUME NEW v \in Vars, NEW s \in Seq(Token), NEW t \in Seq(Token)
    PROVE  ExpectedOfValue(s \o t, v) = ExpectedOfValue(s, v) \o ExpectedOfValue(t, v)
<1>1. PICK u \in Seq(Token) : u = s \o t
  BY ConcatProperties
<1>2. /\ Len(s) \in Nat /\ Len(t) \in Nat /\ Len(u) = Len(s) + Len(t)
      /\ \A k \in 1..Len(s) : u[k] = s[k] /\ k \in 1..Len(u)
      /\ \A k \in 1..Len(t) : u[Len(s) + k] = t[k] /\ Len(s) + k \in 1..Len(u)
  BY <1>1
<1>3. /\ \A k \in 1..Len(s) : ValuePieces(u, v)[k] = ValuePieces(s, v)[k]
      /\ \A k \in 1..Len(t) : ValuePieces(u, v)[Len(s) + k] = ValuePieces(t, v)[k]
  BY <1>2 DEF ValuePieces
<1>4. PICK f \in Seq(Seq(Counted)), g \in Seq(Seq(Counted)), h \in Seq(Seq(Counted)) :
        f = ValuePieces(s, v) /\ g = ValuePieces(t, v) /\ h = ValuePieces(u, v)
  BY ValuePiecesTypes
<1>5. /\ Len(h) = Len(f) + Len(g)
      /\ \A k \in 1..Len(f) : h[k] = f[k]
      /\ \A k \in 1..Len(g) : h[Len(f) + k] = g[k]
  BY <1>2, <1>3, <1>4, ValuePiecesTypes
<1>6. h = f \o g
  BY <1>5, JoinedMap
<1>7. FlattenSeq(h) = FlattenSeq(f) \o FlattenSeq(g)
  BY <1>6, FlatJoined
<1> QED
  BY <1>1, <1>4, <1>7, ValuePiecesTypes

LEMMA ValueSmall ==
    ASSUME NEW v \in Vars
    PROVE  /\ ExpectedOfValue(<<>>, v) = <<>>
           /\ \A x \in Token : ExpectedOfValue(<<x>>, v) = ValuePiece(x, v)
<1>1. <<>> \in Seq(Token) /\ Len(<<>>) = 0
  OBVIOUS
<1>2. ValuePieces(<<>>, v) = <<>>
  BY <1>1 DEF ValuePieces
<1>3. ExpectedOfValue(<<>>, v) = <<>>
  BY <1>1, <1>2, ValuePiecesTypes, FlatNothing
<1>4. ASSUME NEW x \in Token
      PROVE  ExpectedOfValue(<<x>>, v) = ValuePiece(x, v)
  <2>1. <<x>> \in Seq(Token) /\ Len(<<x>>) = 1 /\ <<x>>[1] = x
    OBVIOUS
  <2>2. ValuePieces(<<x>>, v) = <<ValuePiece(x, v)>>
    BY <2>1 DEF ValuePieces
  <2>3. ExpectedOfValue(<<x>>, v) = FlattenSeq(<<ValuePiece(x, v)>>)
    BY <2>1, <2>2, ValuePiecesTypes
  <2>4. PICK y \in Seq(Counted) : y = ValuePiece(x, v)
    BY ValuePieceTypes
  <2>5. FlattenSeq(<<y>>) = y
    BY FlatOne
  <2> QED
    BY <2>3, <2>4, <2>5
<1> QED
  BY <1>3, <1>4

-----------------------------------------------------------------------------
(* What is wanted of a text is wanted of its tokens.                         *)
LEMMA WantedHead ==
    ASSUME NEW v \in Vars, NEW s \in Seq(Token), s # <<>>, NEW e \in BOOLEAN,
           NEW d \in 0..Cardinality(Names)
    PROVE  /\ Head(s) \in Token /\ Tail(s) \in Seq(Token)
           /\ Wanted(<<Head(s)>>, e, v, d) \in Seq(Counted)
           /\ Wanted(Tail(s), e, v, d) \in Seq(Counted)
           /\ Wanted(s, e, v, d) = Wanted(<<Head(s)>>, e, v, d) \o Wanted(Tail(s), e, v, d)
<1>1. PICK x \in Token, t \in Seq(Token) : x = Head(s) /\ t = Tail(s)
  BY RangeOfHead
<1>2. s = <<x>> \o t /\ <<x>> \in Seq(Token)
  BY <1>1
<1>3. PICK h \in Seq(Token) : h = <<x>>
  BY <1>2
<1>4. Made(s, v, d) = Made(h, v, d) \o Made(t, v, d)
  BY <1>2, <1>3, MadeJoined
<1>5. ExpectedOfValue(s, v) = ExpectedOfValue(h, v) \o ExpectedOfValue(t, v)
  BY <1>2, <1>3, ValueJoined
<1>6. /\ Made(h, v, d) \in Seq(Counted) /\ Made(t, v, d) \in Seq(Counted)
      /\ ExpectedOfValue(h, v) \in Seq(Counted) /\ ExpectedOfValue(t, v) \in Seq(Counted)
  BY MadeTypes, ValuePiecesTypes
<1> QED
  BY <1>1, <1>3, <1>4, <1>5, <1>6 DEF Wanted

LEMMA WantedNothing ==
    ASSUME NEW v \in Vars, NEW e \in BOOLEAN, NEW d \in 0..Cardinality(Names)
    PROVE  Wanted(<<>>, e, v, d) = <<>>
  BY MadeSame, ValueSmall DEF Wanted

LEMMA WantedPlain ==
    ASSUME NEW v \in Vars, NEW e \in BOOLEAN, NEW d \in 0..Cardinality(Names),
           NEW x \in Token, ~Declared(x, v), e => d = 0
    PROVE  Wanted(<<x>>, e, v, d) = Escaped(e /\ x # Lit, Raw(<<x>>))
<1>1. Made(<<x>>, v, d) = Raw(<<x>>)
  BY MadeSame
<1>2. CASE e
  <2>1. ExpectedOfValue(<<x>>, v) = Escaped(x # Lit, Made(<<x>>, v, 0))
    BY ValueSmall, ValuePieceTypes
  <2> QED
    BY <1>1, <1>2, <2>1 DEF Wanted
<1>3. CASE ~e
  BY <1>1, <1>3 DEF Wanted, Escaped
<1> QED
  BY <1>2, <1>3

LEMMA WantedName ==
    ASSUME NEW v \in Vars, NEW e \in BOOLEAN, NEW n \in Names, Declared(n, v),
           NEW d \in Nat, d + 1 <= Cardinality(Names), e => d = 0
    PROVE  /\ v[n] \in Seq(Token)
           /\ Wanted(<<n>>, e, v, d) = Escaped(e, Made(v[n], v, d + 1))
<1>1. v[n] \in Seq(Token) /\ Made(<<n>>, v, d) = Made(v[n], v, d + 1)
  BY MadeName
<1>2. n \in Token /\ n # Lit
  BY TokensDistinct
<1>3. CASE e
  <2>1. ExpectedOfValue(<<n>>, v) = Escaped(n # Lit, Made(<<n>>, v, 0))
    BY <1>2, ValueSmall, ValuePieceTypes
  <2> QED
    BY <1>1, <1>2, <1>3, <2>1 DEF Wanted, Escaped
<1>4. CASE ~e
  BY <1>1, <1>4 DEF Wanted, Escaped
<1> QED
  BY <1>1, <1>3, <1>4

-----------------------------------------------------------------------------
(* While nothing is reported, each call is on the way to what is wanted of    *)
(* it: what it has, with what is wanted of the name it waits for and of the   *)
(* rest, makes what its caller waits for, or what ApplyURL is to return.      *)
Silent == missing = <<>> /\ cycles = <<>>

Depth(c) == Len(c.stack)
RestOf(c, v) == Wanted(c.rest, c.escape, v, Depth(c))

Delivers(c, o, u, v, q, t) ==
    IF c.stack = <<>> THEN (t \o o) \o ExpectedOfAll(q, v) = Expected(u, v)
    ELSE o = Made(v[Last(c.stack)], v, Depth(c))

Runs(c, u, v, q, t) == Delivers(c, c.out \o RestOf(c, v), u, v, q, t)

WaitsFor(c, n, u, v, q, t) ==
    /\ n \in Names /\ Declared(n, v)
    /\ Delivers(c, (c.out \o Wanted(<<n>>, c.escape, v, Depth(c))) \o RestOf(c, v), u, v, q, t)

Running == Runs(call, url, variables, params, text)

AllWait ==
    \A k \in 1..Len(callers) :
        WaitsFor(callers[k], call.stack[k], url, variables, params, text)

StacksAgree ==
    \A k \in 1..Len(callers) : \A j \in 1..(k - 1) :
        callers[k].stack[j] = call.stack[j]

(* Some facts about sequences of escaped tokens.                             *)
LEMMA CountedJoined ==
    ASSUME NEW o \in Seq(Counted), NEW p \in Seq(Counted)
    PROVE  o \o p \in Seq(Counted) /\ o \o <<>> = o /\ <<>> \o o = o
  BY ConcatProperties, ConcatEmptySeq

LEMMA CountedGrouped ==
    ASSUME NEW o \in Seq(Counted), NEW p \in Seq(Counted), NEW q \in Seq(Counted)
    PROVE  Grouped(o, p, q)
  BY Grouping

LEMMA Going ==
    ASSUME Depths
    PROVE  /\ variables \in Vars /\ url \in URLs /\ params \in Seq(Param)
           /\ text \in Seq(Counted) /\ call \in Call /\ callers \in Seq(Call)
           /\ Len(callers) \in 0..Cardinality(Names)
           /\ \A c \in Calls :
                /\ c \in Call /\ c.rest \in Seq(Token) /\ c.out \in Seq(Counted)
                /\ c.stack \in Seq(Names) /\ c.escape \in BOOLEAN
                /\ c.stack # <<>> => ~c.escape /\ Zero(c.out)
                /\ c.escape => Depth(c) = 0
                /\ Depth(c) \in 0..Cardinality(Names)
           /\ Depth(call) = Len(callers)
<1>1. /\ TypeOK /\ StackPerCaller /\ AllFit /\ Len(call.stack) = Len(callers)
  BY DEF Depths
<1>2. /\ variables \in Vars /\ url \in URLs /\ params \in Seq(Param)
      /\ text \in Seq(Counted) /\ call \in Call /\ callers \in Seq(Call)
  BY <1>1 DEF TypeOK, Counted
<1>3. Len(callers) \in 0..Cardinality(Names)
  BY <1>2, StackShort, NamesCounted DEF NestingBounded
<1>4. ASSUME NEW c \in Calls
      PROVE  /\ c \in Call /\ c.rest \in Seq(Token) /\ c.out \in Seq(Counted)
             /\ c.stack \in Seq(Names) /\ c.escape \in BOOLEAN
             /\ c.stack # <<>> => ~c.escape /\ Zero(c.out)
             /\ c.escape => Depth(c) = 0
             /\ Depth(c) \in 0..Cardinality(Names)
  <2>1. c \in Call
    BY <1>2, InRange DEF Calls
  <2>2. /\ c.rest \in Seq(Token) /\ c.out \in Seq(Counted)
        /\ c.stack \in Seq(Names) /\ c.escape \in BOOLEAN
    BY <2>1, CallTypes
  <2>3. c.stack # <<>> => ~c.escape /\ Zero(c.out)
    BY <1>1 DEF AllFit, Fits
  <2>4. Len(c.stack) \in 0..Len(callers)
    <3>1. CASE c = call
      BY <1>1, <1>3, <3>1
    <3>2. CASE c \in Range(callers)
      <4>1. PICK k \in 1..Len(callers) : c = callers[k]
        BY <1>2, <3>2 DEF Range
      <4> QED
        BY <1>1, <1>3, <4>1 DEF StackPerCaller
    <3> QED
      BY <3>1, <3>2 DEF Calls
  <2>5. c.escape => Len(c.stack) = 0
    <3>1. Len(<<>>) = 0
      OBVIOUS
    <3> QED
      BY <2>3, <3>1
  <2>6. Len(c.stack) \in 0..Cardinality(Names)
    BY <1>3, <2>4, NamesCounted
  <2> QED
    BY <2>1, <2>2, <2>3, <2>5, <2>6 DEF Depth
<1>5. Depth(call) = Len(callers)
  BY <1>1 DEF Depth
<1> QED
  BY <1>2, <1>3, <1>4, <1>5

(* Expected, as the steps of ApplyURL build it.                              *)
LEMMA ExpectedTypes ==
    ASSUME NEW v \in Vars, NEW p \in Param
    PROVE  /\ ExpectedOf(p, v) \in Seq(Counted)
           /\ ExpectedOf(p, v) = Open(p).copied \o Wanted(Interpolated(p), p.hasValue, v, 0)
           /\ Wanted(Interpolated(p), p.hasValue, v, 0) \in Seq(Counted)
<1>1. /\ p.key \in Seq(Token) /\ p.value \in Seq(Token) /\ p.hasValue \in BOOLEAN
  BY DEF Param
<1>2. 0 \in 0..Cardinality(Names) /\ Cardinality(Names) - 0 = Cardinality(Names)
  BY NamesCounted
<1>3. CASE p.hasValue
  <2>1. Open(p).copied = Times(p.key, 0)
    BY <1>3 DEF Open, Times, Raw
  <2>2. Times(p.key, 0) \in Seq(Counted)
    BY <1>1, TimesTypes
  <2>3. ExpectedOfValue(p.value, v) \in Seq(Counted)
    BY <1>1, ValuePiecesTypes
  <2> QED
    BY <1>3, <2>1, <2>2, <2>3, CountedJoined DEF ExpectedOf, Wanted, Interpolated
<1>4. CASE ~p.hasValue
  <2>1. Open(p).copied = <<>>
    BY <1>4 DEF Open
  <2>2. Made(p.key, v, 0) \in Seq(Counted)
    BY <1>1, <1>2, MadeTypes
  <2>3. ExpectedOf(p, v) = Made(p.key, v, 0)
    BY <1>2, <1>4 DEF ExpectedOf, FullySubstituted, Made
  <2>4. <<>> \o Made(p.key, v, 0) = Made(p.key, v, 0)
    BY <2>2, CountedJoined
  <2> QED
    BY <1>4, <2>1, <2>2, <2>3, <2>4 DEF Wanted, Interpolated
<1> QED
  BY <1>1, <1>3, <1>4

ParamPieces(q, v) == [k \in 1..Len(q) |-> ExpectedOf(q[k], v)]

LEMMA ParamPiecesTypes ==
    ASSUME NEW v \in Vars, NEW q \in Seq(Param)
    PROVE  /\ ParamPieces(q, v) \in Seq(Seq(Counted))
           /\ Len(ParamPieces(q, v)) = Len(q)
           /\ ExpectedOfAll(q, v) = FlattenSeq(ParamPieces(q, v))
           /\ ExpectedOfAll(q, v) \in Seq(Counted)
<1>1. Len(q) \in Nat /\ \A k \in 1..Len(q) : ExpectedOf(q[k], v) \in Seq(Counted)
  <2>1. Len(q) \in Nat /\ \A k \in 1..Len(q) : q[k] \in Param
    OBVIOUS
  <2>2. \A p \in Param : ExpectedOf(p, v) \in Seq(Counted)
    BY ExpectedTypes
  <2> QED
    BY <2>1, <2>2
<1>2. ParamPieces(q, v) \in [1..Len(q) -> Seq(Counted)]
  BY <1>1 DEF ParamPieces
<1>3. ParamPieces(q, v) \in Seq(Seq(Counted)) /\ Len(ParamPieces(q, v)) = Len(q)
  BY <1>1, <1>2
<1>4. ExpectedOfAll(q, v) = FlattenSeq(ParamPieces(q, v))
  BY DEF ExpectedOfAll, ParamPieces
<1> QED
  BY <1>3, <1>4, FlatText

LEMMA ExpectedHead ==
    ASSUME NEW v \in Vars, NEW q \in Seq(Param)
    PROVE  /\ q = <<>> => ExpectedOfAll(q, v) = <<>>
           /\ q # <<>> => /\ Head(q) \in Param /\ Tail(q) \in Seq(Param)
                          /\ ExpectedOfAll(q, v) =
                               ExpectedOf(Head(q), v) \o ExpectedOfAll(Tail(q), v)
<1>1. CASE q = <<>>
  <2>1. ParamPieces(q, v) = <<>>
    BY <1>1 DEF ParamPieces
  <2> QED
    BY <1>1, <2>1, ParamPiecesTypes, FlatNothing
<1>2. CASE q # <<>>
  <2>1. PICK p \in Param, t \in Seq(Param) : p = Head(q) /\ t = Tail(q)
    BY <1>2, RangeOfHead
  <2>2. /\ Len(t) \in Nat /\ Len(q) = Len(t) + 1 /\ q[1] = p
        /\ \A k \in 1..Len(t) : q[k + 1] = t[k] /\ k + 1 \in 1..Len(q)
        /\ 1 \in 1..Len(q)
    BY <1>2, <2>1
  <2>3. PICK y \in Seq(Counted) : y = ExpectedOf(p, v)
    BY ExpectedTypes
  <2>4. PICK f \in Seq(Seq(Counted)), g \in Seq(Seq(Counted)), h \in Seq(Seq(Counted)) :
          f = <<y>> /\ g = ParamPieces(t, v) /\ h = ParamPieces(q, v)
    <3>1. <<y>> \in Seq(Seq(Counted))
      OBVIOUS
    <3> QED
      BY <3>1, ParamPiecesTypes
  <2>5. Len(f) = 1 /\ f[1] = y /\ Len(g) = Len(t) /\ Len(h) = Len(q)
    BY <2>4, ParamPiecesTypes
  <2>6. h[1] = y /\ \A k \in 1..Len(t) : h[1 + k] = g[k]
    <3>1. \A k \in 1..Len(t) : 1 + k = k + 1
      BY <2>2
    <3> QED
      BY <2>2, <2>3, <2>4, <2>1, <3>1 DEF ParamPieces
  <2>7. h = f \o g
    <3>1. \A k \in 1..Len(f) : h[k] = f[k]
      BY <2>5, <2>6
    <3>2. Len(h) = Len(f) + Len(g)
      BY <2>2, <2>5
    <3>3. \A k \in 1..Len(g) : h[Len(f) + k] = g[k]
      BY <2>5, <2>6
    <3> QED
      BY <3>1, <3>2, <3>3, JoinedMap
  <2>8. FlattenSeq(h) = FlattenSeq(f) \o FlattenSeq(g)
    BY <2>7, FlatJoined
  <2>9. FlattenSeq(f) = y
    BY <2>4, FlatOne
  <2> QED
    BY <1>2, <2>1, <2>3, <2>4, <2>8, <2>9, ParamPiecesTypes
<1> QED
  BY <1>1, <1>2

Sane(c) ==
    /\ c.rest \in Seq(Token) /\ c.out \in Seq(Counted)
    /\ c.stack \in Seq(Names) /\ c.escape \in BOOLEAN
    /\ c.escape => Depth(c) = 0
    /\ Depth(c) \in 0..Cardinality(Names)

(* The three things that happen to a call, whatever the rest of the state is. *)
LEMMA RunsPut ==
    ASSUME NEW u, NEW v \in Vars, NEW q, NEW t, NEW c, NEW d, Sane(c), c.rest # <<>>,
           d.stack = c.stack, d.escape = c.escape, d.rest = Tail(c.rest),
           d.out = c.out \o Wanted(<<Head(c.rest)>>, c.escape, v, Depth(c)),
           Runs(c, u, v, q, t)
    PROVE  Runs(d, u, v, q, t)
<1>1. PICK w \in Seq(Counted), r \in Seq(Counted) :
        /\ w = Wanted(<<Head(c.rest)>>, c.escape, v, Depth(c))
        /\ r = Wanted(Tail(c.rest), c.escape, v, Depth(c))
        /\ Wanted(c.rest, c.escape, v, Depth(c)) = w \o r
  BY WantedHead DEF Sane
<1>2. (c.out \o w) \o r = c.out \o (w \o r)
  <2>1. c.out \in Seq(Counted)
    BY DEF Sane
  <2>2. Grouped(c.out, w, r)
    BY <2>1, CountedGrouped
  <2> QED
    BY <2>2 DEF Grouped
<1>3. RestOf(c, v) = w \o r /\ RestOf(d, v) = r /\ d.out = c.out \o w
  BY <1>1 DEF RestOf, Depth
<1> QED
  BY <1>2, <1>3 DEF Runs, Delivers, Depth

LEMMA RunsEnter ==
    ASSUME NEW u, NEW v \in Vars, NEW q, NEW t, NEW c, NEW d, NEW n, Sane(c), c.rest # <<>>,
           n = Head(c.rest), n \in Names, Declared(n, v),
           d.stack = c.stack, d.escape = c.escape, d.rest = Tail(c.rest),
           d.out = c.out, Runs(c, u, v, q, t)
    PROVE  WaitsFor(d, n, u, v, q, t)
<1>1. PICK w \in Seq(Counted), r \in Seq(Counted) :
        /\ w = Wanted(<<n>>, c.escape, v, Depth(c))
        /\ r = Wanted(Tail(c.rest), c.escape, v, Depth(c))
        /\ Wanted(c.rest, c.escape, v, Depth(c)) = w \o r
  <2>1. PICK s \in Seq(Token), e \in BOOLEAN, k \in 0..Cardinality(Names) :
          s = c.rest /\ e = c.escape /\ k = Depth(c)
    BY DEF Sane
  <2>2. /\ Wanted(<<Head(s)>>, e, v, k) \in Seq(Counted)
        /\ Wanted(Tail(s), e, v, k) \in Seq(Counted)
        /\ Wanted(s, e, v, k) = Wanted(<<Head(s)>>, e, v, k) \o Wanted(Tail(s), e, v, k)
    BY <2>1, WantedHead
  <2> QED
    BY <2>1, <2>2
<1>2. (c.out \o w) \o r = c.out \o (w \o r)
  <2>1. c.out \in Seq(Counted)
    BY DEF Sane
  <2>2. Grouped(c.out, w, r)
    BY <2>1, CountedGrouped
  <2> QED
    BY <2>2 DEF Grouped
<1>3. /\ RestOf(c, v) = w \o r /\ RestOf(d, v) = r /\ d.out = c.out
      /\ Wanted(<<n>>, d.escape, v, Depth(d)) = w
  BY <1>1 DEF RestOf, Depth
<1> QED
  BY <1>2, <1>3 DEF Runs, WaitsFor, Delivers, Depth

LEMMA RunsNested ==
    ASSUME NEW u, NEW v \in Vars, NEW q, NEW t, NEW d, Sane(d), NEW n \in Names,
           Declared(n, v), d.stack # <<>>, Last(d.stack) = n, ~d.escape,
           d.rest = v[n], d.out = <<>>
    PROVE  Runs(d, u, v, q, t)
<1>1. RestOf(d, v) = Made(v[n], v, Depth(d))
  BY DEF RestOf, Wanted
<1>2. Made(v[n], v, Depth(d)) \in Seq(Counted)
  BY MadeTypes DEF Sane
<1>3. <<>> \o Made(v[n], v, Depth(d)) = Made(v[n], v, Depth(d))
  BY <1>2, CountedJoined
<1> QED
  BY <1>1, <1>3 DEF Runs, Delivers

LEMMA RunsReturned ==
    ASSUME NEW u, NEW v \in Vars, NEW q, NEW t, NEW c, NEW d, NEW e, NEW n,
           Sane(c), Sane(d), e.stack = c.stack, e.escape = c.escape, e.rest = c.rest,
           e.out = c.out \o Escaped(c.escape, d.out),
           Last(d.stack) = n, d.stack # <<>>, Depth(d) = Depth(c) + 1, d.rest = <<>>,
           ~d.escape, Runs(d, u, v, q, t), WaitsFor(c, n, u, v, q, t)
    PROVE  Runs(e, u, v, q, t)
<1>1. n \in Names /\ Declared(n, v)
  BY DEF WaitsFor
<1>2. RestOf(d, v) = <<>>
  BY WantedNothing DEF RestOf, Sane
<1>3. d.out = Made(v[n], v, Depth(c) + 1)
  BY <1>2, CountedJoined DEF Runs, Delivers, Sane
<1>4. Wanted(<<n>>, c.escape, v, Depth(c)) = Escaped(c.escape, Made(v[n], v, Depth(c) + 1))
  <2>1. Depth(c) \in Nat /\ Depth(c) + 1 <= Cardinality(Names)
    BY NamesCounted DEF Sane
  <2> QED
    BY <1>1, <2>1, WantedName DEF Sane
<1>5. e.out = c.out \o Wanted(<<n>>, c.escape, v, Depth(c)) /\ RestOf(e, v) = RestOf(c, v)
  BY <1>3, <1>4 DEF RestOf, Depth
<1> QED
  BY <1>5 DEF Runs, WaitsFor, Delivers, Depth

LEMMA SaneCalls == Depths => \A c \in Calls : Sane(c)
  BY Going DEF Sane

(* The first call of a resolution, and the first for a parameter.            *)
LEMMA RunsFirst ==
    ASSUME NEW u \in URLs, NEW v \in Vars
    PROVE  Runs(Outermost(u.base, FALSE), u, v, u.query, <<>>)
<1>1. u.base \in Seq(Token) /\ u.query \in Seq(Param) /\ FALSE \in BOOLEAN
  BY URLTypes
<1>2. PICK c : c = Outermost(u.base, FALSE)
  OBVIOUS
<1>3. c.stack = <<>> /\ c.rest = u.base /\ c.escape = FALSE /\ c.out = <<>>
  BY <1>1, <1>2, OutermostFacts
<1>4. /\ 0 \in 0..Cardinality(Names) /\ Cardinality(Names) - 0 = Cardinality(Names)
      /\ Len(<<>>) = 0
  BY NamesCounted
<1>5. RestOf(c, v) = Made(u.base, v, 0) /\ Made(u.base, v, 0) \in Seq(Counted)
  BY <1>1, <1>3, <1>4, MadeTypes DEF RestOf, Wanted, Depth
<1>6. Expected(u, v) = Made(u.base, v, 0) \o ExpectedOfAll(u.query, v)
  BY <1>4 DEF Expected, Made, FullySubstituted
<1>7. <<>> \in Seq(Counted) /\ <<>> \o Made(u.base, v, 0) = Made(u.base, v, 0)
  BY <1>5, CountedJoined
<1> QED
  BY <1>2, <1>3, <1>5, <1>6, <1>7 DEF Runs, Delivers

Regrouped(a, k, w, z) == a \o ((k \o w) \o z) = ((a \o k) \o w) \o z

LEMMA CountedRegrouped ==
    ASSUME NEW a \in Seq(Counted), NEW k \in Seq(Counted), NEW w \in Seq(Counted),
           NEW z \in Seq(Counted)
    PROVE  Regrouped(a, k, w, z)
<1>1. w \o z \in Seq(Counted) /\ a \o k \in Seq(Counted)
  BY CountedJoined
<1>2. Grouped(k, w, z)
  BY CountedGrouped
<1>3. Grouped(a, k, w \o z)
  BY <1>1, CountedGrouped
<1>4. Grouped(a \o k, w, z)
  BY <1>1, CountedGrouped
<1> QED
  BY <1>2, <1>3, <1>4 DEF Grouped, Regrouped

LEMMA RunsOpened ==
    ASSUME NEW u, NEW v \in Vars, NEW q \in Seq(Param), q # <<>>,
           NEW t \in Seq(Counted), NEW c, Sane(c), c.stack = <<>>, c.rest = <<>>,
           Runs(c, u, v, q, t)
    PROVE  Runs(Open(Head(q)).call, u, v, Tail(q), t \o c.out \o Open(Head(q)).copied)
<1>1. PICK p \in Param, r \in Seq(Param) : p = Head(q) /\ r = Tail(q)
  BY ExpectedHead
<1>2. PICK later \in Seq(Counted) : later = ExpectedOfAll(r, v)
  BY ParamPiecesTypes
<1>3. PICK k \in Seq(Counted), w \in Seq(Counted) :
        /\ k = Open(p).copied /\ w = Wanted(Interpolated(p), p.hasValue, v, 0)
        /\ ExpectedOf(p, v) = k \o w
  BY OpenFacts, ExpectedTypes
<1>4. PICK d : d = Open(p).call
  OBVIOUS
<1>5. d.stack = <<>> /\ d.out = <<>> /\ RestOf(d, v) = w
  <2>1. /\ d.rest = Interpolated(p) /\ d.escape = p.hasValue
        /\ d.stack = <<>> /\ d.out = <<>>
    BY <1>4, OpenFacts, OutermostFacts
  <2>2. Len(<<>>) = 0
    OBVIOUS
  <2> QED
    BY <1>3, <2>1, <2>2 DEF RestOf, Depth
<1>6. RestOf(c, v) = <<>>
  BY WantedNothing DEF RestOf, Sane
<1>7. PICK o \in Seq(Counted) : o = c.out
  BY DEF Sane
<1>8. (t \o o) \o ((k \o w) \o later) = Expected(u, v)
  <2>1. o \o <<>> = o
    BY CountedJoined
  <2>2. ExpectedOfAll(q, v) = (k \o w) \o later
    BY <1>1, <1>2, <1>3, ExpectedHead
  <2> QED
    BY <1>6, <1>7, <2>1, <2>2 DEF Runs, Delivers
<1>9. (t \o o) \o ((k \o w) \o later) = (((t \o o) \o k) \o w) \o later
  <2>1. t \o o \in Seq(Counted)
    BY <1>7, CountedJoined
  <2>2. k \in Seq(Counted) /\ w \in Seq(Counted) /\ later \in Seq(Counted)
    BY <1>2, <1>3
  <2>3. PICK a \in Seq(Counted) : a = t \o o
    BY <2>1
  <2>4. Regrouped(a, k, w, later)
    BY <2>2, <2>3, CountedRegrouped
  <2> QED
    BY <2>3, <2>4 DEF Regrouped
<1>10. <<>> \o w = w
  BY CountedJoined
<1> QED
  BY <1>1, <1>2, <1>3, <1>4, <1>5, <1>7, <1>8, <1>9, <1>10 DEF Runs, Delivers

LEMMA RunsOver ==
    ASSUME NEW u, NEW v \in Vars, NEW t \in Seq(Counted), NEW c, Sane(c),
           c.stack = <<>>, c.rest = <<>>, Runs(c, u, v, <<>>, t)
    PROVE  t \o c.out = Expected(u, v)
<1>1. RestOf(c, v) = <<>>
  BY WantedNothing DEF RestOf, Sane
<1>2. <<>> \in Seq(Param) /\ ExpectedOfAll(<<>>, v) = <<>>
  <2>1. <<>> \in Seq(Param)
    OBVIOUS
  <2> QED
    BY <2>1, ExpectedHead
<1>3. c.out \o <<>> = c.out /\ t \o c.out \in Seq(Counted)
  BY CountedJoined DEF Sane
<1>4. (t \o c.out) \o <<>> = t \o c.out
  BY <1>3, CountedJoined
<1> QED
  BY <1>1, <1>2, <1>3, <1>4 DEF Runs, Delivers

LEMMA AgreeInit == Init => StacksAgree
  BY DEF Init, StacksAgree

LEMMA AgreeStep == Depths /\ StacksAgree /\ [Next]_vars => StacksAgree'
<1> SUFFICES ASSUME Depths, StacksAgree, [Next]_vars
             PROVE  StacksAgree'
  OBVIOUS
<1>0. /\ TypeOK /\ callers \in Seq(Call) /\ call \in Call
      /\ call.stack \in Seq(Names) /\ Len(call.stack) = Len(callers)
      /\ Len(callers) \in Nat
  BY CallTypes DEF Depths, TypeOK
<1>1. ASSUME callers' = callers, call'.stack = call.stack
      PROVE  StacksAgree'
  BY <1>1 DEF StacksAgree
<1>2. ASSUME NEW n, AtName(n), NEW o \in Seq(Counted), Put(o)
      PROVE  StacksAgree'
  BY <1>0, <1>1, <1>2, PutFacts
<1>3. ASSUME NEW n \in Token
      PROVE  Raw(<<n>>) \in Seq(Counted) /\ Escaped(call.escape, Raw(<<n>>)) \in Seq(Counted)
  <2>1. <<n>> \in Seq(Token) /\ call.escape \in BOOLEAN
    BY <1>0, CallTypes
  <2> QED
    BY <2>1, RawIsZero, EscapeOnce
<1>4. CASE Literal
  BY <1>2, <1>3, <1>4, TokensDistinct DEF Literal
<1>5. ASSUME NEW n \in Token, Generate(n) \/ Miss(n) \/ Loop(n)
      PROVE  StacksAgree'
  BY <1>2, <1>3, <1>5 DEF Generate, Miss, Loop
<1>6. ASSUME NEW n \in Token, Enter(n)
      PROVE  StacksAgree'
  <2>1. /\ n \in Names /\ call'.stack = Append(call.stack, n)
    BY <1>0, <1>6, EnterFacts
  <2>2. PICK c \in Call : callers' = Append(callers, c) /\ c.stack = call.stack
    BY <1>0, <1>6, EnterFacts
  <2>3. /\ Len(callers') = Len(callers) + 1
        /\ \A k \in 1..Len(callers) : callers'[k] = callers[k]
        /\ callers'[Len(callers) + 1] = c
    BY <1>0, <2>2, RangeOfAppend
  <2>4. \A j \in 1..Len(callers) : call'.stack[j] = call.stack[j]
    BY <1>0, <2>1, RangeOfAppend
  <2>5. ASSUME NEW k \in 1..Len(callers'), NEW j \in 1..(k - 1)
        PROVE  callers'[k].stack[j] = call'.stack[j]
    <3>1. j \in 1..Len(callers)
      BY <1>0, <2>3
    <3>2. CASE k \in 1..Len(callers)
      BY <2>3, <2>4, <3>1, <3>2 DEF StacksAgree
    <3>3. CASE k = Len(callers) + 1
      BY <2>2, <2>3, <2>4, <3>1, <3>3
    <3> QED
      BY <1>0, <2>3, <3>2, <3>3
  <2> QED
    BY <2>5 DEF StacksAgree
<1>7. CASE Return
  <2>1. callers' = Front(callers) /\ callers # <<>> /\ call'.stack = Last(callers).stack
    <3>1. callers # <<>>
      BY <1>7 DEF Return
    <3>2. call.stack # <<>>
      BY <1>0, <3>1
    <3>3. Zero(call.out)
      BY <3>2 DEF Depths, AllFit, Fits, Calls
    <3> QED
      BY <1>0, <1>7, <3>3, ReturnFacts
  <2>2. /\ Len(callers) > 0 /\ Len(callers') = Len(callers) - 1
        /\ \A k \in 1..Len(callers') : callers'[k] = callers[k]
    BY <1>0, <2>1, RangeOfFront
  <2>3. Last(callers) = callers[Len(callers)] /\ Len(callers) \in 1..Len(callers)
    BY <1>0, <2>2 DEF Last
  <2>4. ASSUME NEW k \in 1..Len(callers'), NEW j \in 1..(k - 1)
        PROVE  callers'[k].stack[j] = call'.stack[j]
    <3>1. k \in 1..Len(callers) /\ j \in 1..(Len(callers) - 1)
      BY <1>0, <2>2
    <3>2. callers[k].stack[j] = call.stack[j]
      BY <3>1 DEF StacksAgree
    <3>3. callers[Len(callers)].stack[j] = call.stack[j]
      BY <2>3, <3>1 DEF StacksAgree
    <3> QED
      BY <2>1, <2>2, <2>3, <3>2, <3>3
  <2> QED
    BY <2>4 DEF StacksAgree
<1>8. ASSUME callers' = <<>>
      PROVE  StacksAgree'
  BY <1>8 DEF StacksAgree
<1>9. CASE NextParam \/ Finish
  BY <1>8, <1>9 DEF NextParam, Finish, Ready
<1>10. ASSUME NEW n \in Names, NEW x \in ScriptTexts, ScriptSet(n, x)
       PROVE  StacksAgree'
  BY <1>8, <1>10 DEF ScriptSet, Depths, IdleWhenDone
<1>11. CASE UNCHANGED vars
  BY <1>1, <1>11 DEF vars
<1> QED
  BY <1>4, <1>5, <1>6, <1>7, <1>9, <1>10, <1>11 DEF Next

-----------------------------------------------------------------------------
(* What a report that is empty says of what has been read.                   *)
LEMMA NoteTells ==
    ASSUME NEW T, NEW s \in Seq(T), NEW x \in T
    PROVE  Note(s, x) # <<>>
<1>1. CASE Contains(s, x)
  <2>1. s # <<>>
    BY <1>1 DEF Contains
  <2> QED
    BY <1>1, <2>1 DEF Note
<1>2. CASE ~Contains(s, x)
  BY <1>2, RangeOfAppend DEF Note
<1> QED
  BY <1>1, <1>2

(* A token put in its place as the reference has it.                         *)
LEMMA RunningPut ==
    ASSUME Depths, Running, AllWait, NEW n, AtName(n), NEW o \in Seq(Counted),
           Put(o), o = Wanted(<<n>>, call.escape, variables, Depth(call))
    PROVE  Running' /\ AllWait'
<1>1. TypeOK /\ variables \in Vars /\ Sane(call)
  BY Going, SaneCalls DEF Depths, Calls
<1>2. PICK c, d : c = call /\ d = call'
  OBVIOUS
<1>3. /\ d.stack = c.stack /\ d.escape = c.escape /\ d.rest = Tail(c.rest)
      /\ d.out = c.out \o o
      /\ UNCHANGED <<callers, template, params, text, phase>>
  BY <1>1, <1>2, PutFacts
<1>4. c.rest # <<>> /\ Head(c.rest) = n
  BY <1>2 DEF AtName
<1>5. PICK u, v, q, t :
        /\ u = url /\ v = variables /\ q = params /\ t = text
        /\ v \in Vars
  BY <1>1, Zenon
<1>6. d.out = c.out \o Wanted(<<Head(c.rest)>>, c.escape, v, Depth(c))
  BY <1>2, <1>3, <1>4, <1>5
<1>7. Runs(c, u, v, q, t) /\ Sane(c)
  BY <1>1, <1>2, <1>5 DEF Running
<1>8. Runs(d, u, v, q, t)
  BY <1>3, <1>4, <1>5, <1>6, <1>7, RunsPut
<1>9. Running'
  BY <1>2, <1>3, <1>5, <1>8 DEF Running, template
<1>10. AllWait'
  BY <1>2, <1>3 DEF AllWait, template
<1> QED
  BY <1>9, <1>10

LEMMA RunningEnter ==
    ASSUME Depths, NestingBounded', Running, AllWait, NEW n, Enter(n)
    PROVE  Running' /\ AllWait'
<1>1. /\ TypeOK /\ variables \in Vars /\ Sane(call) /\ callers \in Seq(Call)
      /\ Len(callers) \in Nat /\ Depth(call) = Len(callers)
      /\ call.stack \in Seq(Names)
  BY Going, SaneCalls DEF Depths, Calls
<1>2. /\ n \in Names /\ variables[n] \in Seq(Token)
      /\ call' = [rest |-> variables[n], stack |-> Append(call.stack, n),
                  escape |-> FALSE, out |-> <<>>]
      /\ UNCHANGED <<template, params, text, reports, phase>>
  BY <1>1, EnterFacts
<1>3. PICK e \in Call :
        /\ callers' = Append(callers, e) /\ e.rest = Tail(call.rest)
        /\ e.stack = call.stack /\ e.escape = call.escape /\ e.out = call.out
  BY <1>1, EnterFacts
<1>4. /\ Len(callers') = Len(callers) + 1
      /\ \A k \in 1..Len(callers) : callers'[k] = callers[k]
      /\ callers'[Len(callers) + 1] = e
  BY <1>1, <1>3, RangeOfAppend
<1>5. PICK u, v, q, t :
        /\ u = url /\ v = variables /\ q = params /\ t = text
        /\ v \in Vars
  BY <1>1, Zenon
<1>6. PICK c, d : c = call /\ d = call'
  OBVIOUS
<1>7. /\ d.rest = v[n] /\ d.stack = Append(c.stack, n) /\ d.escape = FALSE
      /\ d.out = <<>>
  BY <1>2, <1>5, <1>6
<1>8. /\ c.rest # <<>> /\ n = Head(c.rest) /\ Declared(n, v) /\ Sane(c)
      /\ Runs(c, u, v, q, t)
  BY <1>1, <1>5, <1>6 DEF Enter, AtName, Running
<1>9. WaitsFor(e, n, u, v, q, t)
  BY <1>2, <1>3, <1>5, <1>6, <1>8, RunsEnter
<1>10. /\ d.stack \in Seq(Names) /\ d.stack # <<>> /\ Last(d.stack) = n
       /\ Len(d.stack) = Len(callers) + 1 /\ d.stack[Len(callers) + 1] = n
       /\ \A k \in 1..Len(callers) : d.stack[k] = call.stack[k]
  BY <1>1, <1>2, <1>6, <1>7, RangeOfAppend DEF Depth
<1>11. Sane(d)
  <2>1. Depth(d) \in 0..Cardinality(Names)
    BY <1>1, <1>4, <1>10, NamesCounted DEF NestingBounded, Depth
  <2>2. <<>> \in Seq(Counted) /\ v[n] \in Seq(Token)
    BY <1>2, <1>5
  <2> QED
    BY <1>7, <1>10, <2>1, <2>2 DEF Sane
<1>12. Runs(d, u, v, q, t)
  BY <1>2, <1>5, <1>7, <1>8, <1>10, <1>11, RunsNested
<1>13. Running'
  BY <1>2, <1>5, <1>6, <1>12 DEF Running, template
<1>14. ASSUME NEW k \in 1..Len(callers')
       PROVE  WaitsFor(callers'[k], d.stack[k], u, v, q, t)
  <2>1. CASE k \in 1..Len(callers)
    BY <1>4, <1>5, <1>10, <2>1 DEF AllWait
  <2>2. CASE k = Len(callers) + 1
    BY <1>4, <1>9, <1>10, <2>2
  <2> QED
    BY <1>1, <1>4, <2>1, <2>2
<1>15. AllWait'
  BY <1>2, <1>5, <1>6, <1>14 DEF AllWait, template
<1> QED
  BY <1>13, <1>15

LEMMA RunningReturn ==
    ASSUME Depths, StacksAgree, Running, AllWait, Return
    PROVE  Running' /\ AllWait'
<1>1. /\ TypeOK /\ variables \in Vars /\ callers \in Seq(Call)
      /\ Len(callers) \in Nat /\ Depth(call) = Len(callers)
      /\ call.stack \in Seq(Names)
      /\ \A c \in Calls : Sane(c)
      /\ callers # <<>>
  BY Going, SaneCalls DEF Depths, Calls, Return
<1>2. call.stack # <<>> /\ Zero(call.out) /\ ~call.escape
  <2>1. call.stack # <<>>
    BY <1>1 DEF Depth
  <2> QED
    BY <2>1 DEF Depths, AllFit, Fits, Calls
<1>3. PICK c, d, e : c = Last(callers) /\ d = call /\ e = call'
  OBVIOUS
<1>4. /\ callers' = Front(callers) /\ d.rest = <<>>
      /\ e.rest = c.rest /\ e.stack = c.stack /\ e.escape = c.escape
      /\ e.out = c.out \o Escaped(c.escape, d.out)
      /\ UNCHANGED <<template, params, text, reports, phase>>
  BY <1>1, <1>2, <1>3, ReturnFacts
<1>5. /\ c \in Range(callers) /\ Len(callers) > 0 /\ Len(callers') = Len(callers) - 1
      /\ \A k \in 1..Len(callers') : callers'[k] = callers[k]
  BY <1>1, <1>3, <1>4, RangeOfFront
<1>6. PICK m \in Nat : m = Len(callers)
  BY <1>1
<1>7. m \in 1..Len(callers) /\ c = callers[m] /\ Len(c.stack) = m - 1
  BY <1>3, <1>5, <1>6 DEF Last, Depths, StackPerCaller
<1>8. PICK u, v, q, t :
        /\ u = url /\ v = variables /\ q = params /\ t = text
        /\ v \in Vars
  BY <1>1, Zenon
<1>9. PICK n : n = d.stack[m]
  OBVIOUS
<1>10. /\ Sane(c) /\ Sane(d) /\ Depth(d) = Depth(c) + 1 /\ Last(d.stack) = n
       /\ d.stack # <<>> /\ ~d.escape
  <2>1. Sane(c) /\ Sane(d)
    BY <1>1, <1>3, <1>5 DEF Calls
  <2>2. Len(d.stack) = m /\ (m - 1) + 1 = m
    BY <1>1, <1>3, <1>6 DEF Depth
  <2> QED
    BY <1>2, <1>3, <1>7, <1>9, <2>1, <2>2 DEF Depth, Last
<1>11. Runs(d, u, v, q, t) /\ WaitsFor(c, n, u, v, q, t)
  BY <1>3, <1>7, <1>8, <1>9 DEF Running, AllWait
<1>12. Runs(e, u, v, q, t)
  BY <1>4, <1>8, <1>10, <1>11, RunsReturned
<1>13. Running'
  BY <1>3, <1>4, <1>8, <1>12 DEF Running, template
<1>14. ASSUME NEW k \in 1..Len(callers')
       PROVE  WaitsFor(callers'[k], e.stack[k], u, v, q, t)
  <2>1. k \in 1..Len(callers) /\ k \in 1..(m - 1)
    BY <1>5, <1>6
  <2>2. e.stack[k] = call.stack[k]
    BY <1>4, <1>7, <2>1 DEF StacksAgree
  <2>3. WaitsFor(callers[k], call.stack[k], u, v, q, t)
    BY <1>8, <2>1 DEF AllWait
  <2> QED
    BY <1>5, <2>2, <2>3
<1>15. AllWait'
  BY <1>3, <1>4, <1>8, <1>14 DEF AllWait, template
<1> QED
  BY <1>13, <1>15

LEMMA RunningStart ==
    ASSUME url \in URLs, variables \in Vars, params = url.query,
           call = Outermost(url.base, FALSE), callers = <<>>, text = <<>>
    PROVE  Running /\ AllWait
<1>1. Runs(Outermost(url.base, FALSE), url, variables, url.query, <<>>)
  BY RunsFirst
<1>2. \A k \in 1..Len(callers) : FALSE
  OBVIOUS
<1> QED
  BY <1>1, <1>2 DEF Running, AllWait

(* While nothing is reported the calls of expand are on the way to what is    *)
(* wanted of them, and once ApplyURL has returned the result is there.       *)
OnTheWay ==
    /\ phase = "expand" /\ Silent => Running /\ AllWait
    /\ CompleteWhenSilent

LEMMA OnTheWayInit == Init => OnTheWay
  BY RunningStart DEF Init, OnTheWay, CompleteWhenSilent

LEMMA OnTheWayStep ==
    /\ Depths /\ NestingBounded' /\ StacksAgree /\ OnTheWay /\ [Next]_vars
    => OnTheWay'
<1> SUFFICES ASSUME Depths, NestingBounded', StacksAgree, OnTheWay, [Next]_vars
             PROVE  OnTheWay'
  OBVIOUS
<1>0. /\ TypeOK /\ variables \in Vars /\ url \in URLs /\ params \in Seq(Param)
      /\ text \in Seq(Counted) /\ Sane(call) /\ call.escape \in BOOLEAN
      /\ missing \in Seq(Nodes) /\ cycles \in Seq(Seq(Names))
      /\ Depth(call) \in 0..Cardinality(Names) /\ (call.escape => Depth(call) = 0)
  BY Going, SaneCalls DEF Depths, Calls, Sane, TypeOK, Nodes
<1>1. ASSUME phase' = "expand", Running' /\ AllWait'
      PROVE  OnTheWay'
  BY <1>1 DEF OnTheWay, CompleteWhenSilent
<1>2. ASSUME phase' = "expand", ~Silent'
      PROVE  OnTheWay'
  BY <1>2 DEF OnTheWay, CompleteWhenSilent
<1>3. ASSUME NEW n, AtName(n), NEW o \in Seq(Counted), Put(o),
             UNCHANGED reports,
             o = Wanted(<<n>>, call.escape, variables, Depth(call))
      PROVE  OnTheWay'
  <2>1. phase = "expand" /\ phase' = "expand" /\ (Silent' <=> Silent)
    BY <1>3 DEF AtName, Put, reports, Silent
  <2>2. CASE Silent
    BY <1>1, <1>3, <2>1, <2>2, RunningPut DEF OnTheWay
  <2>3. CASE ~Silent
    BY <1>2, <2>1, <2>3
  <2> QED
    BY <2>2, <2>3
<1>4. ASSUME NEW n \in Token, ~Declared(n, variables)
      PROVE  /\ Wanted(<<n>>, call.escape, variables, Depth(call)) =
                  Escaped(call.escape /\ n # Lit, Raw(<<n>>))
             /\ Escaped(call.escape /\ n # Lit, Raw(<<n>>)) \in Seq(Counted)
  <2>1. <<n>> \in Seq(Token)
    OBVIOUS
  <2>2. (call.escape /\ n # Lit) \in BOOLEAN
    OBVIOUS
  <2> QED
    BY <1>0, <1>4, <2>1, <2>2, WantedPlain, RawIsZero, EscapeOnce
<1>5. CASE Literal
  <2>1. Lit \in Token /\ ~Declared(Lit, variables)
    BY TokensDistinct DEF Declared
  <2>2. Escaped(call.escape /\ Lit # Lit, Raw(<<Lit>>)) = Raw(<<Lit>>)
    BY DEF Escaped
  <2> QED
    BY <1>3, <1>4, <1>5, <2>1, <2>2 DEF Literal
<1>6. ASSUME NEW n \in Token, Generate(n)
      PROVE  OnTheWay'
  <2>1. ~Declared(n, variables) /\ n # Lit
    BY <1>6, TokensDistinct DEF Declared, Generate
  <2>2. Escaped(call.escape /\ n # Lit, Raw(<<n>>)) = Escaped(call.escape, Raw(<<n>>))
    BY <2>1 DEF Escaped
  <2> QED
    BY <1>3, <1>4, <1>6, <2>1, <2>2 DEF Generate
<1>7. ASSUME NEW n \in Token, Miss(n)
      PROVE  OnTheWay'
  <2>1. n \in Nodes
    BY <1>7, TokensDistinct DEF Miss
  <2>2. missing' # <<>>
    BY <1>0, <1>7, <2>1, NoteTells DEF Miss
  <2> QED
    BY <1>2, <1>7, <2>2 DEF Miss, Put, AtName, Silent
<1>8. ASSUME NEW n \in Token, Loop(n)
      PROVE  OnTheWay'
  <2>1. n \in Names /\ OnStack(n)
    BY <1>8 DEF Loop, Declared
  <2>2. cycles' # <<>>
    BY <1>0, <1>8, <2>1, WayBackTypes, NoteTells DEF Loop
  <2> QED
    BY <1>2, <1>8, <2>2 DEF Loop, Put, AtName, Silent
<1>9. ASSUME phase = "expand", phase' = "expand", UNCHANGED reports,
             Running /\ AllWait => Running' /\ AllWait'
      PROVE  OnTheWay'
  <2>1. Silent' <=> Silent
    BY <1>9 DEF reports, Silent
  <2>2. CASE Silent
    BY <1>1, <1>9, <2>2 DEF OnTheWay
  <2>3. CASE ~Silent
    BY <1>2, <1>9, <2>1, <2>3
  <2> QED
    BY <2>2, <2>3
<1>10. ASSUME NEW n \in Token, Enter(n)
       PROVE  OnTheWay'
  BY <1>9, <1>10, RunningEnter DEF Enter, AtName
<1>11. CASE Return
  BY <1>9, <1>11, RunningReturn DEF Return
<1>12. ASSUME Ready
       PROVE  /\ call.stack = <<>> /\ call.rest = <<>>
              /\ Running => Runs(call, url, variables, params, text)
  <2>1. Len(call.stack) = 0
    BY <1>12 DEF Ready, Depths
  <2> QED
    BY <1>0, <1>12, <2>1 DEF Ready, Running, Sane
<1>13. CASE NextParam
  <2>1. /\ Ready /\ params # <<>> /\ params' = Tail(params) /\ callers' = <<>>
        /\ text' = text \o call.out \o Open(Head(params)).copied
        /\ call' = Open(Head(params)).call /\ UNCHANGED <<url, variables>>
    BY <1>13 DEF NextParam, Ready, template
  <2>2. ASSUME Running
        PROVE  Running'
    <3>1. PICK c : c = call
      OBVIOUS
    <3>2. Sane(c) /\ c.stack = <<>> /\ c.rest = <<>> /\ Runs(c, url, variables, params, text)
      BY <1>0, <1>12, <2>1, <2>2, <3>1
    <3>3. Runs(Open(Head(params)).call, url, variables, Tail(params),
               text \o c.out \o Open(Head(params)).copied)
      BY <1>0, <2>1, <3>2, RunsOpened
    <3> QED
      BY <2>1, <3>1, <3>3 DEF Running
  <2>3. AllWait'
    <3>1. \A k \in 1..Len(callers') : FALSE
      BY <2>1
    <3> QED
      BY <3>1 DEF AllWait
  <2> QED
    BY <1>9, <1>13, <2>2, <2>3 DEF NextParam, Ready
<1>14. CASE Finish
  <2>1. /\ Ready /\ params = <<>> /\ phase' = "done"
        /\ text' = text \o call.out /\ UNCHANGED <<url, variables, missing, cycles>>
    BY <1>14 DEF Finish, template, reports
  <2>2. ASSUME Silent
        PROVE  text' = Expected(url, variables)
    <3>1. PICK c : c = call
      OBVIOUS
    <3>2. Running
      BY <2>1, <2>2 DEF OnTheWay, Ready
    <3>3. Sane(c) /\ c.stack = <<>> /\ c.rest = <<>> /\ Runs(c, url, variables, <<>>, text)
      BY <1>0, <1>12, <2>1, <3>1, <3>2
    <3>4. text \o c.out = Expected(url, variables)
      BY <1>0, <3>3, RunsOver
    <3> QED
      BY <2>1, <3>1, <3>4
  <2>3. CompleteWhenSilent'
    <3>1. phase' = "done" /\ missing' = <<>> /\ cycles' = <<>> =>
            text' = Expected(url', variables')
      BY <2>1, <2>2 DEF Silent
    <3> QED
      BY <3>1 DEF CompleteWhenSilent
  <2> QED
    BY <2>1, <2>3 DEF OnTheWay
<1>15. ASSUME NEW n \in Names, NEW x \in ScriptTexts, ScriptSet(n, x)
       PROVE  OnTheWay'
  <2>1. /\ url' \in URLs /\ variables' \in Vars /\ params' = url'.query
        /\ call' = Outermost(url'.base, FALSE) /\ callers' = <<>> /\ text' = <<>>
        /\ phase' = "expand"
    BY <1>0, <1>15, TextsAssumption DEF ScriptSet, Depths, IdleWhenDone, Vars
  <2>2. Running' /\ AllWait'
    <3>1. PICK u \in URLs, v \in Vars : u = url' /\ v = variables'
      BY <2>1
    <3>2. Runs(Outermost(u.base, FALSE), u, v, u.query, <<>>)
      BY RunsFirst
    <3>3. \A k \in 1..Len(callers') : FALSE
      BY <2>1
    <3> QED
      BY <2>1, <3>1, <3>2, <3>3 DEF Running, AllWait
  <2> QED
    BY <1>1, <2>1, <2>2
<1>16. CASE UNCHANGED vars
  <2>1. /\ UNCHANGED <<phase, missing, cycles, call, callers>>
        /\ UNCHANGED <<url, variables, params, text>>
    BY <1>16 DEF vars, template, reports
  <2>2. (Silent' <=> Silent) /\ (Running' <=> Running) /\ (AllWait' <=> AllWait)
    BY <2>1 DEF Silent, Running, AllWait
  <2>3. CompleteWhenSilent' <=> CompleteWhenSilent
    BY <2>1 DEF CompleteWhenSilent
  <2> QED
    BY <2>1, <2>2, <2>3 DEF OnTheWay
<1> QED
  BY <1>5, <1>6, <1>7, <1>8, <1>10, <1>11, <1>13, <1>14, <1>15, <1>16 DEF Next

(* When nothing is undefined and nothing is a cycle, what ApplyURL returns is *)
(* the URL with every placeholder replaced that it expands, however deeply    *)
(* values refer to others, and escaped once in the values of the query.  The  *)
(* keys of parameters with a value are returned as they were written, braces  *)
(* included (NoPlaceholderLeft).                                             *)
THEOREM ExpandsCompletely == Spec => []CompleteWhenSilent
<1> DEFINE Inv == Depths /\ StacksAgree /\ OnTheWay
<1>1. Init => Inv
  BY DepthsInit, AgreeInit, OnTheWayInit
<1>2. Inv /\ [Next]_vars => Inv'
  <2>1. Depths' => NestingBounded'
    BY StackShort, PTL
  <2> QED
    BY <2>1, DepthsStep, AgreeStep, OnTheWayStep
<1>3. Inv => CompleteWhenSilent
  BY DEF OnTheWay
<1> QED
  BY <1>1, <1>2, <1>3, PTL DEF Spec
=============================================================================
