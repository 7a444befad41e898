---------------------------- MODULE Words_proofs ----------------------------
(* Theorems about Words: on any text, of any length, the tokenizer keeps its *)
(* indices inside the text, ends, and gives the arguments a shell takes.     *)
EXTENDS Words, Lists_proofs

-----------------------------------------------------------------------------
(* Types                                                                    *)
(* A piece between two positions of a text is a word.                        *)
LEMMA PieceOfText ==
    ASSUME NEW t \in Word, NEW m \in Nat \ {0}, NEW n \in Nat, n <= Len(t)
    PROVE  SubSeq(t, m, n) \in Word
  BY DEF Word

LEMMA CharacterOfText ==
    ASSUME NEW t \in Word, NEW k \in 1..Len(t)
    PROVE  t[k] \in Chars
  BY DEF Word

LEMMA LongerWord ==
    ASSUME NEW w \in Word, NEW ch \in Chars
    PROVE  Append(w, ch) \in Word
  BY DEF Word

LEMMA JoinedWords ==
    ASSUME NEW v \in Word, NEW w \in Word
    PROVE  v \o w \in Word
  BY ConcatProperties DEF Word

LEMMA TwoCharacters ==
    ASSUME NEW a \in Chars, NEW b \in Chars
    PROVE  <<a>> \o <<b>> = <<a, b>>
<1>1. <<a>> \in Seq(Chars) /\ <<b>> \in Seq(Chars) /\ <<a, b>> \in Seq(Chars)
  OBVIOUS
<1>2. PICK s : s = <<a>> \o <<b>>
  OBVIOUS
<1>3. s \in Seq(Chars) /\ Len(s) = 2 /\ s[1] = a /\ s[2] = b
  BY <1>1, <1>2, ConcatProperties
<1>4. Len(<<a, b>>) = 2 /\ <<a, b>>[1] = a /\ <<a, b>>[2] = b
  OBVIOUS
<1>5. \A k \in 1..Len(s) : s[k] = <<a, b>>[k]
  <2> SUFFICES ASSUME NEW k \in 1..Len(s)
               PROVE  s[k] = <<a, b>>[k]
    OBVIOUS
  <2>1. k = 1 \/ k = 2
    BY <1>3
  <2> QED
    BY <1>3, <1>4, <2>1
<1> QED
  BY <1>1, <1>2, <1>3, <1>4, <1>5, SeqEqual

LEMMA BoundedWords ==
    ASSUME NEW X, NEW n \in Nat, NEW w \in BoundedSeq(X, n)
    PROVE  w \in Seq(X)
<1>1. PICK m \in 0..n : w \in [1..m -> X]
  BY DEF BoundedSeq, SeqOf
<1> QED
  BY <1>1

(* What each character of an argument is written as.                         *)
Written(w) ==
    [k \in 1..Len(w) |->
        IF w[k] = "quote" THEN <<"quote", "backslash", "quote", "quote">>
        ELSE <<w[k]>>]

LEMMA WrittenType ==
    ASSUME NEW w \in Word
    PROVE  Written(w) \in Seq(Seq(Chars)) /\ Len(Written(w)) = Len(w)
<1>1. Len(w) \in Nat
  BY DEF Word
<1>2. <<"quote", "backslash", "quote", "quote">> \in Seq(Chars)
  BY DEF Chars
<1>3. ASSUME NEW k \in 1..Len(w)
      PROVE  Written(w)[k] \in Seq(Chars)
  <2>1. w[k] \in Chars
    BY CharacterOfText
  <2>2. <<w[k]>> \in Seq(Chars)
    BY <2>1
  <2> QED
    BY <1>2, <2>2 DEF Written
<1> QED
  BY <1>1, <1>3 DEF Written

LEMMA QuoteType ==
    ASSUME NEW w \in Word
    PROVE  /\ FlattenSeq(Written(w)) \in Word
           /\ ShellQuote(w) = (<<"quote">> \o FlattenSeq(Written(w))) \o <<"quote">>
           /\ ShellQuote(w) \in Word
<1>1. FlattenSeq(Written(w)) \in Seq(Chars)
  BY WrittenType, FlatText
<1>2. <<"quote">> \in Seq(Chars)
  BY DEF Chars
<1>3. (<<"quote">> \o FlattenSeq(Written(w))) \o <<"quote">> \in Seq(Chars)
  BY <1>1, <1>2
<1>4. ShellQuote(w) = (<<"quote">> \o FlattenSeq(Written(w))) \o <<"quote">>
  BY DEF ShellQuote, Written
<1> QED
  BY <1>1, <1>3, <1>4 DEF Word

(* What each argument is written as.                                         *)
Lines(args) ==
    [k \in 1..Len(args) |->
        Line(args[k]) \o IF k < Len(args) THEN Continued ELSE <<"newline">>]
Pairs(args) == [k \in 1..Len(args) |-> <<<<"other">>, args[k]>>]

LEMMA PieceTypes ==
    /\ <<"other">> \in Word /\ <<"blank">> \in Word /\ <<"newline">> \in Word
    /\ <<"other", "blank">> \in Word /\ Continued \in Word
<1>1. <<"other">> \in Seq(Chars) /\ <<"blank">> \in Seq(Chars) /\ <<"newline">> \in Seq(Chars)
  BY DEF Chars
<1>2. <<"other", "blank">> \in Seq(Chars)
  BY DEF Chars
<1>3. Continued \in Seq(Chars)
  BY DEF Chars, Continued
<1> QED
  BY <1>1, <1>2, <1>3 DEF Word

LEMMA LineType ==
    ASSUME NEW w \in Word
    PROVE  Line(w) \in Word
  BY QuoteType, PieceTypes DEF Line, Word

LEMMA CommandTypes ==
    ASSUME NEW args \in Seq(Word)
    PROVE  /\ Lines(args) \in Seq(Seq(Chars)) /\ Len(Lines(args)) = Len(args)
           /\ Pairs(args) \in Seq(Seq(Word)) /\ Len(Pairs(args)) = Len(args)
           /\ ToCurl(args) = FlattenSeq(Lines(args)) /\ ToCurl(args) \in Word
           /\ Arguments(args) = FlattenSeq(Pairs(args)) /\ Arguments(args) \in Seq(Word)
<1>1. Len(args) \in Nat
  OBVIOUS
<1>2. ASSUME NEW k \in 1..Len(args)
      PROVE  Lines(args)[k] \in Seq(Chars) /\ Pairs(args)[k] \in Seq(Word)
  <2>1. args[k] \in Word
    OBVIOUS
  <2>2. Line(args[k]) \in Seq(Chars) /\ Continued \in Seq(Chars) /\ <<"newline">> \in Seq(Chars)
    BY <2>1, LineType, PieceTypes DEF Word
  <2>3. (Line(args[k]) \o IF k < Len(args) THEN Continued ELSE <<"newline">>) \in Seq(Chars)
    BY <2>2
  <2>4. <<<<"other">>, args[k]>> \in Seq(Word)
    BY <2>1, PieceTypes
  <2> QED
    BY <2>3, <2>4 DEF Lines, Pairs
<1>3. Lines(args) \in Seq(Seq(Chars)) /\ Len(Lines(args)) = Len(args)
  BY <1>1, <1>2 DEF Lines
<1>4. Pairs(args) \in Seq(Seq(Word)) /\ Len(Pairs(args)) = Len(args)
  BY <1>1, <1>2 DEF Pairs
<1>5. ToCurl(args) = FlattenSeq(Lines(args)) /\ Arguments(args) = FlattenSeq(Pairs(args))
  BY DEF ToCurl, Lines, Arguments, Pairs
<1> QED
  BY <1>3, <1>4, <1>5, FlatText DEF Word

LEMMA BoundedArguments ==
    ASSUME NEW args \in BoundedSeq(BoundedSeq(Chars, MaxWord), MaxLines)
    PROVE  args \in Seq(Word)
<1>1. args \in Seq(BoundedSeq(Chars, MaxWord))
  BY WordsBounds, BoundedWords
<1>2. BoundedSeq(Chars, MaxWord) \subseteq Word
  BY WordsBounds, BoundedWords DEF Word
<1> QED
  BY <1>1, <1>2, SeqMonotonic

LEMMA TextTypes == Init => text \in Word /\ written \in Seq(Word)
<1> SUFFICES ASSUME Init
             PROVE  text \in Word /\ written \in Seq(Word)
  OBVIOUS
<1>1. CASE text \in BoundedSeq(Chars, MaxText) /\ written = <<>>
  BY <1>1, WordsBounds, BoundedWords, EmptySeq DEF Word
<1>2. ASSUME NEW args \in BoundedSeq(BoundedSeq(Chars, MaxWord), MaxLines),
             text = ToCurl(args), written = Arguments(args)
      PROVE  text \in Word /\ written \in Seq(Word)
  <2>1. args \in Seq(Word)
    BY BoundedArguments
  <2> QED
    BY <1>2, <2>1, CommandTypes
<1> QED
  BY <1>1, <1>2 DEF Init

(* A double quote is read inside a token, which is why an empty "" counts.   *)
Inside == TypeOK /\ (mode = "double" => inToken)

LEMMA InsideInit == Init => Inside
<1> SUFFICES ASSUME Init
             PROVE  Inside
  OBVIOUS
<1>1. Start /\ text \in Word /\ written \in Seq(Word)
  BY TextTypes DEF Init
<1>2. tokens \in Seq(Word) /\ cur \in Word
  BY <1>1 DEF Start, Word
<1>3. i \in 1..(Len(text) + 1)
  BY <1>1 DEF Start, Word
<1> QED
  BY <1>1, <1>2, <1>3 DEF Start, Inside, TypeOK

LEMMA InsideStep == Inside /\ [Next]_vars => Inside'
<1> SUFFICES ASSUME Inside, [Next]_vars
             PROVE  Inside'
  OBVIOUS
<1>0. text \in Word /\ cur \in Word /\ Len(text) \in Nat /\ i \in Nat \ {0}
  BY DEF Inside, TypeOK, Word
<1> DEFINE Bounded == i' \in 1..(Len(text) + 1)
<1>1. CASE Continue
  <2>1. Bounded
    BY <1>0, <1>1 DEF Continue, Continuation, ContinuationCRLF, Follows
  <2> QED
    BY <1>1, <2>1 DEF Continue, Inside, TypeOK
<1>2. CASE SingleQuoted
  <2>1. PICK j \in Closing :
          cur' = cur \o SubSeq(text, i + 1, j - 1) /\ i' = j + 1
    BY <1>2 DEF SingleQuoted
  <2>2. j \in (i + 1)..Len(text)
    BY DEF Closing
  <2>3. SubSeq(text, i + 1, j - 1) \in Word
    BY <1>0, <2>2, PieceOfText
  <2>4. cur' \in Word
    BY <1>0, <2>1, <2>3 DEF Word
  <2>5. Bounded
    BY <1>0, <2>1, <2>2
  <2> QED
    BY <1>2, <2>4, <2>5 DEF SingleQuoted, Inside, TypeOK
<1>3. CASE SingleUnterminated
  BY <1>3 DEF SingleUnterminated, Inside, TypeOK
<1>4. CASE OpenDouble
  <2>1. Bounded
    BY <1>0, <1>4 DEF OpenDouble, Looping
  <2> QED
    BY <1>4, <2>1 DEF OpenDouble, Inside, TypeOK
<1>5. CASE DoubleEscape
  <2>1. i + 1 \in 1..Len(text)
    BY <1>0, <1>5 DEF DoubleEscape, EscapedInDouble, Follows
  <2>2. Bounded
    BY <1>0, <1>5, <2>1 DEF DoubleEscape
  <2>3. cur' \in Word
    BY <1>0, <1>5, <2>1, CharacterOfText, LongerWord DEF DoubleEscape
  <2> QED
    BY <1>5, <2>2, <2>3 DEF DoubleEscape, InDouble, Inside, TypeOK
<1>6. CASE DoubleChar
  <2>1. Bounded
    BY <1>0, <1>6 DEF DoubleChar, InDouble
  <2>2. cur' \in Word
    BY <1>0, <1>6, CharacterOfText, LongerWord DEF DoubleChar, InDouble, c
  <2> QED
    BY <1>6, <2>1, <2>2 DEF DoubleChar, InDouble, Inside, TypeOK
<1>7. CASE CloseDouble
  <2>1. Bounded
    BY <1>0, <1>7 DEF CloseDouble, InDouble
  <2> QED
    BY <1>7, <2>1 DEF CloseDouble, Inside, TypeOK
<1>8. CASE DoubleUnterminated
  BY <1>8 DEF DoubleUnterminated, Inside, TypeOK
<1>9. CASE Flush /\ UNCHANGED <<text, written>> /\ mode' \in {"loop", "done"} /\ Bounded
  <2>1. tokens' \in Seq(Word) /\ cur' \in Word
    BY <1>0, <1>9 DEF Flush, Inside, TypeOK, Word
  <2> QED
    BY <1>9, <2>1 DEF Flush, Inside, TypeOK
<1>10. CASE Space
  BY <1>0, <1>9, <1>10 DEF Space, Looping
<1>11. CASE Return
  BY <1>0, <1>9, <1>11 DEF Return, Inside, TypeOK
<1>12. CASE Escaped
  <2>1. i + 1 \in 1..Len(text)
    BY <1>0, <1>12 DEF Escaped
  <2>2. Bounded
    BY <1>0, <1>12, <2>1 DEF Escaped
  <2>3. cur' \in Word
    BY <1>0, <1>12, <2>1, CharacterOfText, LongerWord DEF Escaped
  <2> QED
    BY <1>12, <2>2, <2>3 DEF Escaped, Inside, TypeOK
<1>13. CASE Ordinary
  <2>1. Bounded
    BY <1>0, <1>13 DEF Ordinary, Looping
  <2>2. cur' \in Word
    BY <1>0, <1>13, CharacterOfText, LongerWord DEF Ordinary, Looping, c
  <2> QED
    BY <1>13, <2>1, <2>2 DEF Ordinary, Inside, TypeOK
<1>14. CASE Returned \/ UNCHANGED vars
  BY <1>14 DEF Returned, vars, Inside, TypeOK
<1> QED
  BY <1>1, <1>2, <1>3, <1>4, <1>5, <1>6, <1>7, <1>8, <1>10, <1>11, <1>12,
     <1>13, <1>14 DEF Next

(* For a text of any length no index leaves it, although the continuations,  *)
(* the escapes and the search for a closing quote look ahead, and a token    *)
(* that was not begun has collected nothing.                                 *)
THEOREM TypeCorrect == Spec => []TypeOK
<1>1. Inside => TypeOK
  BY DEF Inside
<1> QED
  BY <1>1, InsideInit, InsideStep, PTL DEF Spec

-----------------------------------------------------------------------------
Advance ==
    mode \in {"loop", "double"} => (i' > i \/ mode' \in {"done", "failed"})

(* Every step that reads moves on, so that the loop ends.                    *)
LEMMA Advances ==
    ASSUME Inside, Next
    PROVE  Advance
<1>0. i \in Nat
  BY DEF Inside, TypeOK
<1>1. CASE SingleQuoted
  <2>1. \E j \in (i + 1)..Len(text) : i' = j + 1
    BY <1>1 DEF SingleQuoted, Closing
  <2> QED
    BY <1>0, <2>1 DEF Advance, Inside, TypeOK, Word
<1>2. CASE ~SingleQuoted
  BY <1>0, <1>2 DEF Advance, Next, Continue, SingleUnterminated, OpenDouble,
     DoubleEscape, DoubleChar, CloseDouble, DoubleUnterminated, Space, Escaped,
     Ordinary, Return, Returned
<1> QED
  BY <1>1, <1>2

(* Tokenize makes progress with every step, on every text.                   *)
THEOREM LoopAdvances == Spec => [][Advance]_vars
<1>1. Inside /\ [Next]_vars => [Advance]_vars
  BY Advances
<1> QED
  BY <1>1, InsideInit, InsideStep, PTL DEF Spec

-----------------------------------------------------------------------------
(* The shell                                                                *)
(* f tells what the shell is after each of the first n characters of t.      *)
Tells(f, t, n) ==
    f = [k \in 0..n |-> IF k = 0 THEN Fresh ELSE Read(f[k - 1], t, k)]

LEMMA SomethingTells ==
    ASSUME NEW t, NEW n \in Nat
    PROVE  \E f : Tells(f, t, n)
<1> DEFINE S == {m \in Nat : \E f : Tells(f, t, m)}
<1>1. 0 \in S
  <2>1. Tells([k \in 0..0 |-> Fresh], t, 0)
    BY DEF Tells
  <2> QED
    BY <2>1
<1>2. ASSUME NEW m \in Nat, m \in S
      PROVE  m + 1 \in S
  <2>1. PICK f : Tells(f, t, m)
    BY <1>2
  <2> DEFINE g == [k \in 0..(m + 1) |-> IF k <= m THEN f[k] ELSE Read(f[m], t, m + 1)]
  <2>2. /\ f[0] = Fresh
        /\ \A k \in 1..m : f[k] = Read(f[k - 1], t, k)
    BY <2>1 DEF Tells
  <2>3. ASSUME NEW k \in 0..(m + 1)
        PROVE  g[k] = IF k = 0 THEN Fresh ELSE Read(g[k - 1], t, k)
    <3>1. CASE k = 0
      BY <2>2, <3>1
    <3>2. CASE k \in 1..m
      <4>1. g[k] = f[k] /\ g[k - 1] = f[k - 1]
        BY <3>2
      <4> QED
        BY <2>2, <3>2, <4>1
    <3>3. CASE k = m + 1
      <4>1. g[k] = Read(f[m], t, m + 1) /\ g[m] = f[m] /\ k - 1 = m
        BY <3>3
      <4> QED
        BY <3>3, <4>1
    <3> QED
      BY <3>1, <3>2, <3>3
  <2>4. Tells(g, t, m + 1)
    BY <2>3 DEF Tells
  <2> QED
    BY <2>4
<1>3. Nat \subseteq S
  BY <1>1, <1>2, Counting
<1> QED
  BY <1>3

LEMMA StatesAre ==
    ASSUME NEW t \in Word
    PROVE  /\ ShellStates(t)[0] = Fresh
           /\ \A k \in 1..Len(t) :
                ShellStates(t)[k] = Read(ShellStates(t)[k - 1], t, k)
<1>1. Len(t) \in Nat
  BY DEF Word
<1>2. Tells(ShellStates(t), t, Len(t))
  <2>1. ShellStates(t) = CHOOSE f : Tells(f, t, Len(t))
    BY DEF ShellStates, Tells
  <2> QED
    BY <1>1, <2>1, SomethingTells
<1> QED
  BY <1>1, <1>2 DEF Tells

(* The shell at a place, with a word begun and the words finished.           *)
Here(at, w, ws) == [at |-> at, word |-> w, words |-> ws]

LEMMA OneMore ==
    ASSUME NEW w \in Word, NEW ch \in Chars
    PROVE  w \o <<ch>> = Append(w, ch)
  BY AppendIsConcat DEF Word

LEMMA NoMore ==
    ASSUME NEW w \in Word
    PROVE  w \o <<>> = w
  BY ConcatEmptySeq DEF Word

LEMMA ReadPlain ==
    ASSUME NEW w \in Word, NEW ws, NEW at \in {"gap", "word"}, NEW ch \in Chars
    PROVE  /\ ch = "quote" => ShellStep(Here(at, w, ws), ch) = Here("single", w, ws)
           /\ ch = "dquote" => ShellStep(Here(at, w, ws), ch) = Here("double", w, ws)
           /\ ch = "backslash" => ShellStep(Here(at, w, ws), ch) =
                Here(IF at = "gap" THEN "back" ELSE "esc", w, ws)
           /\ ch \in Blanks => ShellStep(Here(at, w, ws), ch) =
                Here("gap", <<>>, IF at = "gap" THEN ws ELSE Append(ws, w))
           /\ ch \in {"dollar", "other"} =>
                ShellStep(Here(at, w, ws), ch) = Here("word", Append(w, ch), ws)
<1>1. ShellStep(Here(at, w, ws), ch) = InPlain(Here(at, w, ws), ch)
  BY DEF ShellStep, Here
<1>2. CASE ch = "quote"
  BY <1>1, <1>2, NoMore DEF InPlain, Blanks, Add, Here
<1>3. CASE ch = "dquote"
  BY <1>1, <1>3, NoMore DEF InPlain, Blanks, Add, Here
<1>4. CASE ch = "backslash"
  <2>1. Here(at, w, ws).at = at
    BY DEF Here
  <2> QED
    BY <1>1, <1>4, <2>1, NoMore DEF InPlain, Blanks, Add, Here
<1>5. CASE ch \in Blanks
  BY <1>1, <1>5 DEF InPlain, Blanks, Here
<1>6. CASE ch \in {"dollar", "other"}
  BY <1>1, <1>6, OneMore DEF InPlain, Blanks, Add, Here
<1> QED
  BY <1>2, <1>3, <1>4, <1>5, <1>6 DEF Blanks

LEMMA ReadEscaped ==
    ASSUME NEW w \in Word, NEW ws, NEW at \in {"back", "esc"}, NEW ch \in Chars
    PROVE  /\ ch = "newline" => ShellStep(Here(at, w, ws), ch) =
                Here(IF at = "back" THEN "gap" ELSE "word", w, ws)
           /\ ch # "newline" =>
                ShellStep(Here(at, w, ws), ch) = Here("word", Append(w, ch), ws)
<1>1. /\ ShellStep(Here(at, w, ws), ch) = AfterBackslash(Here(at, w, ws), ch)
      /\ Here(at, w, ws).at = at
  BY DEF ShellStep, Here
<1> QED
  BY <1>1, NoMore, OneMore DEF AfterBackslash, Add, Here

Escapable == {"backslash", "dollar", "dquote", "newline"}

LEMMA ReadQuoted ==
    ASSUME NEW w \in Word, NEW ws, NEW ch \in Chars
    PROVE  /\ ch = "quote" => ShellStep(Here("single", w, ws), ch) = Here("word", w, ws)
           /\ ch # "quote" =>
                ShellStep(Here("single", w, ws), ch) = Here("single", Append(w, ch), ws)
           /\ ch = "dquote" => ShellStep(Here("double", w, ws), ch) = Here("word", w, ws)
           /\ ch = "backslash" =>
                ShellStep(Here("double", w, ws), ch) = Here("dback", w, ws)
           /\ ch \notin {"dquote", "backslash"} =>
                ShellStep(Here("double", w, ws), ch) = Here("double", Append(w, ch), ws)
<1>1. ASSUME NEW at \in Open
      PROVE  /\ ShellStep(Here(at, w, ws), ch) = InQuotes(Here(at, w, ws), ch)
             /\ Here(at, w, ws).at = at
  BY DEF ShellStep, Here, Open
<1>2. ch = "quote" => InQuotes(Here("single", w, ws), ch) = Here("word", w, ws)
  BY <1>1, NoMore DEF InQuotes, Open, Add, Here
<1>3. ch # "quote" => InQuotes(Here("single", w, ws), ch) = Here("single", Append(w, ch), ws)
  BY <1>1, OneMore DEF InQuotes, Open, Add, Here
<1>4. ch = "dquote" => InQuotes(Here("double", w, ws), ch) = Here("word", w, ws)
  BY <1>1, NoMore DEF InQuotes, Open, Add, Here
<1>5. ch = "backslash" => InQuotes(Here("double", w, ws), ch) = Here("dback", w, ws)
  BY <1>1, NoMore DEF InQuotes, Open, Add, Here
<1>6. ch \notin {"dquote", "backslash"} =>
        InQuotes(Here("double", w, ws), ch) = Here("double", Append(w, ch), ws)
  BY <1>1, OneMore DEF InQuotes, Open, Add, Here
<1> QED
  BY <1>1, <1>2, <1>3, <1>4, <1>5, <1>6 DEF Open

LEMMA ReadQuotedEscape ==
    ASSUME NEW w \in Word, NEW ws, NEW ch \in Chars
    PROVE  /\ ch = "newline" => ShellStep(Here("dback", w, ws), ch) = Here("double", w, ws)
           /\ ch \in Escapable \ {"newline"} =>
                ShellStep(Here("dback", w, ws), ch) = Here("double", Append(w, ch), ws)
           /\ ch \notin Escapable => ShellStep(Here("dback", w, ws), ch) =
                Here("double", Append(Append(w, "backslash"), ch), ws)
<1>1. /\ ShellStep(Here("dback", w, ws), ch) = InQuotes(Here("dback", w, ws), ch)
      /\ Here("dback", w, ws).at = "dback"
  BY DEF ShellStep, Here
<1>2. ch = "newline" => InQuotes(Here("dback", w, ws), ch) = Here("double", w, ws)
  BY <1>1, NoMore DEF InQuotes, Add, Here
<1>3. ch \in Escapable \ {"newline"} =>
        InQuotes(Here("dback", w, ws), ch) = Here("double", Append(w, ch), ws)
  BY <1>1, OneMore DEF InQuotes, Escapable, Add, Here
<1>4. ch \notin Escapable => InQuotes(Here("dback", w, ws), ch) =
        Here("double", Append(Append(w, "backslash"), ch), ws)
  <2>1. w \o <<"backslash", ch>> = Append(Append(w, "backslash"), ch)
    BY DEF Word, Chars
  <2> QED
    BY <1>1, <2>1 DEF InQuotes, Escapable, Add, Here
<1> QED
  BY <1>1, <1>2, <1>3, <1>4

-----------------------------------------------------------------------------
(* Tokenize and the shell, side by side                                     *)
At(k) == ShellStates(text)[k]

Position == IF mode = "double" THEN "double" ELSE IF inToken THEN "word" ELSE "gap"

(* The two agree, ...                                                        *)
Level(s) == s = Here(Position, cur, tokens)

(* ... or Tokenize has read a backslash as a character that the shell still   *)
(* remembers, in double quotes or at the end of the text, ...                 *)
LoneInDouble(s) ==
    /\ mode = "double"
    /\ i <= Len(text) => text[i] \notin Escapable
    /\ \E w \in Word : s = Here("dback", w, tokens) /\ cur = Append(w, "backslash")

LoneAtEnd(s) ==
    /\ mode = "loop" /\ inToken /\ i > Len(text)
    /\ \E w \in Word, at \in {"back", "esc"} :
         s = Here(at, w, tokens) /\ cur = Append(w, "backslash")

(* ... or it has ended a word at a carriage return.                           *)
EndedEarly(s) ==
    /\ mode = "loop" /\ ~inToken /\ cur = <<>>
    /\ i <= Len(text) /\ text[i] = "newline"
    /\ \E w \in Word, ws \in Seq(Word) :
         s = Here("word", w, ws) /\ tokens = Append(ws, w)

Agreed(s) == Level(s) \/ LoneInDouble(s) \/ LoneAtEnd(s) \/ EndedEarly(s)

Reading == mode \in {"loop", "double"} => Agreed(At(i - 1))
WordsGiven ==
    mode = "done" => tokens = ShellWords(text) /\ Shell(text).at \notin Open
LeftOpen == mode = "failed" => Shell(text).at \in Open

Matched == Reading /\ WordsGiven /\ LeftOpen

(* What the shell makes of the next character.                               *)
LEMMA NextState ==
    ASSUME NEW t \in Word, Comparable(t), NEW k \in 1..Len(t)
    PROVE  /\ t[k] = "return" /\ ShellStates(t)[k - 1].at \notin Open =>
                /\ ShellStates(t)[k] = ShellStates(t)[k - 1]
                /\ k < Len(t) /\ t[k + 1] = "newline"
           /\ t[k] # "return" \/ ShellStates(t)[k - 1].at \in Open =>
                ShellStates(t)[k] = ShellStep(ShellStates(t)[k - 1], t[k])
  BY StatesAre DEF Read, LineEnd, Comparable

(* A carriage return outside quotes.                                         *)
LEMMA AtReturn ==
    ASSUME NEW t \in Word, Comparable(t), NEW k \in 1..Len(t), t[k] = "return",
           NEW at \in {"gap", "word", "back", "esc"}, NEW w, NEW ws,
           ShellStates(t)[k - 1] = Here(at, w, ws)
    PROVE  ShellStates(t)[k] = Here(at, w, ws) /\ k < Len(t) /\ t[k + 1] = "newline"
<1>1. Here(at, w, ws).at = at /\ at \notin Open
  BY DEF Here, Open
<1> QED
  BY <1>1, NextState

(* Between quotes the shell collects whatever comes.                         *)
LEMMA Quoted ==
    ASSUME NEW t \in Word, Comparable(t), NEW w \in Word, NEW ws,
           NEW at \in {"gap", "word"}, NEW p \in 1..Len(t), NEW n \in p..Len(t),
           t[p] = "quote", ShellStates(t)[p - 1] = Here(at, w, ws),
           \A k \in (p + 1)..n : t[k] # "quote"
    PROVE  ShellStates(t)[n] = Here("single", w \o SubSeq(t, p + 1, n), ws)
<1> DEFINE S == {d \in Nat : p + d <= n =>
                   ShellStates(t)[p + d] = Here("single", w \o SubSeq(t, p + 1, p + d), ws)}
<1>0. /\ p \in Nat /\ n \in Nat /\ Len(t) \in Nat /\ n <= Len(t) /\ p >= 1
      /\ t \in Seq(Chars) /\ w \in Seq(Chars)
  BY DEF Word
<1>1. 0 \in S
  <2>1. ShellStates(t)[p] = Here("single", w, ws)
    <3>1. t[p] \in Chars /\ t[p] # "return"
      BY DEF Chars
    <3> QED
      BY <3>1, NextState, ReadPlain
  <2>2. w \o SubSeq(t, p + 1, p) = w
    BY <1>0, SubSeqEmpty, ConcatEmptySeq
  <2>3. p + 0 = p
    BY <1>0
  <2> QED
    BY <2>1, <2>2, <2>3
<1>2. ASSUME NEW d \in Nat, d \in S
      PROVE  d + 1 \in S
  <2> SUFFICES ASSUME p + (d + 1) <= n
               PROVE  ShellStates(t)[p + (d + 1)] =
                        Here("single", w \o SubSeq(t, p + 1, p + (d + 1)), ws)
    OBVIOUS
  <2>1. PICK m : m = p + (d + 1)
    OBVIOUS
  <2>2. /\ m \in 1..Len(t) /\ m \in (p + 1)..Len(t) /\ m - 1 = p + d /\ p + d <= n
        /\ p + 1 \in 1..Len(t) /\ m \in (p + 1)..n
    BY <1>0, <2>1
  <2>3. PICK piece : piece = SubSeq(t, p + 1, m - 1)
    OBVIOUS
  <2>4. piece \in Word
    <3>1. p + 1 \in Nat \ {0} /\ m - 1 \in Nat /\ m - 1 <= Len(t)
      BY <1>0, <2>2
    <3> QED
      BY <2>3, <3>1, PieceOfText
  <2>5. SubSeq(t, p + 1, m) = piece \o <<t[m]>>
    BY <1>0, <2>2, <2>3, SubSeqRecursiveSecond
  <2>6. t[m] \in Chars /\ t[m] # "quote"
    BY <2>2, CharacterOfText
  <2>7. /\ w \o piece \in Word
        /\ w \o (piece \o <<t[m]>>) = Append(w \o piece, t[m])
    <3>1. w \o piece \in Word
      BY <2>4 DEF Word
    <3>2. <<t[m]>> \in Seq(Chars)
      BY <2>6
    <3>3. Grouped(w, piece, <<t[m]>>)
      BY <1>0, <2>4, <3>2, Grouping DEF Word
    <3>4. w \o (piece \o <<t[m]>>) = (w \o piece) \o <<t[m]>>
      BY <3>3 DEF Grouped
    <3> QED
      BY <2>6, <3>1, <3>4, OneMore
  <2>8. ShellStates(t)[m - 1] = Here("single", w \o piece, ws)
    BY <1>2, <2>2, <2>3
  <2>9. ShellStates(t)[m] = Here("single", Append(w \o piece, t[m]), ws)
    <3>1. Here("single", w \o piece, ws).at \in Open
      BY DEF Here, Open
    <3> QED
      BY <2>2, <2>6, <2>7, <2>8, <3>1, NextState, ReadQuoted
  <2> QED
    BY <2>1, <2>5, <2>7, <2>9
<1>3. Nat \subseteq S
  BY <1>1, <1>2, Counting
<1>4. n - p \in Nat /\ p + (n - p) = n
  BY <1>0
<1> QED
  BY <1>0, <1>3, <1>4

LEMMA MatchedStart == Start /\ text \in Word => Matched
<1> SUFFICES ASSUME Start, text \in Word
             PROVE  Matched
  OBVIOUS
<1>1. At(i - 1) = Fresh
  <2>1. i - 1 = 0
    BY DEF Start
  <2> QED
    BY <2>1, StatesAre DEF At
<1>2. Level(At(i - 1))
  BY <1>1 DEF Start, Level, Fresh, Here, Position
<1> QED
  BY <1>2 DEF Start, Matched, Reading, WordsGiven, LeftOpen, Agreed

(* What Tokenize has before a step.                                          *)
Met(s) == Inside /\ Comparable(text) /\ Matched /\ s = At(i - 1)

LEMMA LoopMet ==
    ASSUME NEW s, Met(s), Looping
    PROVE  /\ Level(s) \/ EndedEarly(s)
           /\ s = Here(IF inToken THEN "word" ELSE "gap", cur, tokens) \/ EndedEarly(s)
           /\ EndedEarly(s) => c = "newline"
           /\ i \in 1..Len(text) /\ text \in Word /\ c \in Chars
           /\ cur \in Word /\ tokens \in Seq(Word)
<1>1. /\ i \in 1..Len(text) /\ text \in Word /\ mode = "loop"
      /\ cur \in Word /\ tokens \in Seq(Word)
  BY DEF Met, Inside, TypeOK, Looping, Word
<1>2. c \in Chars
  BY <1>1, CharacterOfText DEF c
<1>3. Agreed(s)
  BY <1>1 DEF Met, Matched, Reading
<1>4. ~LoneInDouble(s) /\ ~LoneAtEnd(s)
  <2>1. i <= Len(text) /\ ~(i > Len(text))
    BY <1>1 DEF Word
  <2> QED
    BY <1>1, <2>1 DEF LoneInDouble, LoneAtEnd
<1> QED
  BY <1>1, <1>2, <1>3, <1>4 DEF Agreed, Level, Position, EndedEarly, c

(* What has to be shown after it.                                            *)
LEMMA Meets ==
    ASSUME NEW s, text' = text, s = ShellStates(text)[i' - 1], Agreed(s)',
           mode' \in {"loop", "double"}
    PROVE  Matched'
<1>1. At(i - 1)' = s
  BY DEF At
<1> QED
  BY <1>1 DEF Matched, Reading, WordsGiven, LeftOpen

LEMMA SpaceMet ==
    ASSUME NEW s, Met(s), Space
    PROVE  Matched'
<1>0. /\ Looping /\ c \in {"blank", "newline", "return"} /\ text' = text
      /\ i' = i + 1 /\ mode' = "loop" /\ ~inToken' /\ cur' = <<>>
      /\ tokens' = IF inToken THEN Append(tokens, cur) ELSE tokens
  BY DEF Space, Flush, Looping
<1>1. /\ s = Here(IF inToken THEN "word" ELSE "gap", cur, tokens) \/ EndedEarly(s)
      /\ EndedEarly(s) => c = "newline"
      /\ i \in 1..Len(text) /\ text \in Word /\ c \in Chars
      /\ cur \in Word /\ tokens \in Seq(Word)
  BY <1>0, LoopMet
<1>2. PICK z : z = ShellStates(text)[i]
  OBVIOUS
<1>3. /\ c = "return" => z = s /\ i < Len(text) /\ text[i + 1] = "newline"
      /\ c # "return" => z = ShellStep(s, c)
  <2>1. /\ s = ShellStates(text)[i - 1] /\ c = text[i] /\ Comparable(text)
        /\ text \in Word /\ i \in 1..Len(text)
    BY <1>1 DEF Met, At, c
  <2>2. c # "return" => z = ShellStep(s, c)
    BY <1>2, <2>1, NextState
  <2>3. ASSUME c = "return"
        PROVE  z = s /\ i < Len(text) /\ text[i + 1] = "newline"
    <3>1. PICK at \in {"gap", "word"} : s = Here(at, cur, tokens)
      BY <1>1, <2>3
    <3>2. ShellStates(text)[i - 1] = Here(at, cur, tokens) /\ text[i] = "return"
      BY <2>1, <2>3, <3>1
    <3>3. /\ ShellStates(text)[i] = Here(at, cur, tokens)
          /\ i < Len(text) /\ text[i + 1] = "newline"
      BY <2>1, <3>2, AtReturn
    <3> QED
      BY <1>2, <3>1, <3>3
  <2> QED
    BY <2>2, <2>3
<1>4. i' - 1 = i
  BY <1>0, <1>1
<1>5. Agreed(z)'
  <2>1. CASE c # "return" /\ s = Here(IF inToken THEN "word" ELSE "gap", cur, tokens)
    <3>1. z = Here("gap", <<>>, IF inToken THEN Append(tokens, cur) ELSE tokens)
      BY <1>0, <1>1, <1>3, <2>1, ReadPlain DEF Blanks
    <3> QED
      BY <1>0, <3>1 DEF Agreed, Level, Position
  <2>2. CASE c # "return" /\ EndedEarly(s)
    <3>1. PICK w \in Word, ws \in Seq(Word) :
            s = Here("word", w, ws) /\ tokens = Append(ws, w) /\ ~inToken
      BY <2>2 DEF EndedEarly
    <3>2. z = Here("gap", <<>>, Append(ws, w))
      BY <1>0, <1>1, <1>3, <2>2, <3>1, ReadPlain DEF Blanks
    <3> QED
      BY <1>0, <3>1, <3>2 DEF Agreed, Level, Position
  <2>3. CASE c = "return"
    <3>1. /\ z = Here(IF inToken THEN "word" ELSE "gap", cur, tokens)
          /\ text'[i'] = "newline" /\ i' <= Len(text')
      <4>1. i + 1 <= Len(text)
        BY <1>1, <1>3, <2>3 DEF Word
      <4> QED
        BY <1>0, <1>1, <1>3, <2>3, <4>1
    <3>2. CASE inToken
      <4>1. EndedEarly(z)'
        BY <1>0, <1>1, <3>1, <3>2 DEF EndedEarly
      <4> QED
        BY <4>1 DEF Agreed
    <3>3. CASE ~inToken
      <4>1. cur = <<>>
        BY <3>3 DEF Met, Inside, TypeOK
      <4> QED
        BY <1>0, <3>1, <3>3, <4>1 DEF Agreed, Level, Position
    <3> QED
      BY <3>2, <3>3
  <2> QED
    BY <1>1, <2>1, <2>2, <2>3
<1> QED
  BY <1>0, <1>2, <1>4, <1>5, Meets

(* "\" and a line end change nothing for either.                             *)
LEMMA ContinueMet ==
    ASSUME NEW s, Met(s), Continue
    PROVE  Matched'
<1>0. /\ Looping /\ c = "backslash" /\ text' = text
      /\ UNCHANGED <<tokens, cur, inToken, mode>> /\ mode' = "loop"
  BY DEF Continue, Looping, Continuation, ContinuationCRLF
<1>1. /\ s = Here(IF inToken THEN "word" ELSE "gap", cur, tokens)
      /\ i \in 1..Len(text) /\ text \in Word /\ Len(text) \in Nat
      /\ cur \in Word /\ tokens \in Seq(Word) /\ Comparable(text)
  BY <1>0, LoopMet DEF Word, Met
<1>2. ShellStates(text)[i] = Here(IF inToken THEN "esc" ELSE "back", cur, tokens)
  <2>1. ShellStates(text)[i] = ShellStep(s, c)
    BY <1>0, <1>1, NextState DEF Met, At, c
  <2>2. c \in Chars
    BY <1>0 DEF Chars
  <2> QED
    BY <1>0, <1>1, <2>1, <2>2, ReadPlain
<1>3. ASSUME NEW n \in (i + 1)..Len(text), text[n] = "newline", i' = n + 1,
             ShellStates(text)[n - 1] = ShellStates(text)[i]
      PROVE  Matched'
  <2>1. n \in 1..Len(text) /\ i' - 1 = n
    BY <1>1, <1>3
  <2>2. ShellStates(text)[n] = Here(IF inToken THEN "word" ELSE "gap", cur, tokens)
    <3>1. "newline" \in Chars /\ "newline" # "return"
      BY DEF Chars
    <3>2. ShellStates(text)[n] = ShellStep(ShellStates(text)[i], "newline")
      BY <1>1, <1>3, <2>1, <3>1, NextState
    <3> QED
      BY <1>1, <1>2, <3>1, <3>2, ReadEscaped
  <2>3. PICK z : z = ShellStates(text)[n]
    OBVIOUS
  <2>4. Agreed(z)'
    BY <1>0, <2>2, <2>3 DEF Agreed, Level, Position
  <2> QED
    BY <1>0, <2>1, <2>3, <2>4, Meets
<1>4. CASE Continuation /\ i' = i + 2
  <2>1. i + 1 \in (i + 1)..Len(text) /\ (i + 1) - 1 = i /\ (i + 1) + 1 = i + 2
    BY <1>1, <1>4 DEF Continuation, Follows
  <2> QED
    BY <1>3, <1>4, <2>1 DEF Continuation, Follows
<1>5. CASE ContinuationCRLF /\ i' = i + 3
  <2>1. /\ i + 2 \in (i + 1)..Len(text) /\ (i + 2) - 1 = i + 1 /\ (i + 2) + 1 = i + 3
        /\ i + 1 \in 1..Len(text) /\ (i + 1) - 1 = i
    BY <1>1, <1>5 DEF ContinuationCRLF, Follows
  <2>2. text[i + 1] = "return" /\ text[i + 2] = "newline"
    BY <1>5 DEF ContinuationCRLF, Follows
  <2>3. ShellStates(text)[i + 1] = ShellStates(text)[i]
    <3>1. PICK at \in {"back", "esc"} : at = IF inToken THEN "esc" ELSE "back"
      OBVIOUS
    <3>2. ShellStates(text)[(i + 1) - 1] = Here(at, cur, tokens)
      BY <1>2, <2>1, <3>1
    <3> QED
      BY <1>1, <2>1, <2>2, <3>2, AtReturn
  <2> QED
    BY <1>3, <1>5, <2>1, <2>2, <2>3
<1> QED
  BY <1>4, <1>5 DEF Continue

LEMMA PlainMet ==
    ASSUME NEW s, Met(s), Escaped \/ Ordinary
    PROVE  Matched'
<1>0. /\ Looping /\ text' = text /\ UNCHANGED <<tokens, mode>> /\ mode' = "loop"
      /\ inToken' = TRUE /\ c # "newline" /\ c # "return"
  BY DEF Escaped, Ordinary, Looping
<1>1. /\ s = Here(IF inToken THEN "word" ELSE "gap", cur, tokens)
      /\ i \in 1..Len(text) /\ text \in Word /\ Len(text) \in Nat /\ c \in Chars
      /\ cur \in Word /\ tokens \in Seq(Word) /\ Comparable(text)
  BY <1>0, LoopMet DEF Word, Met
<1>2. ShellStates(text)[i] = ShellStep(s, c)
  BY <1>0, <1>1, NextState DEF Met, At, c
<1>3. c = "backslash" =>
        ShellStates(text)[i] = Here(IF inToken THEN "esc" ELSE "back", cur, tokens)
  BY <1>1, <1>2, ReadPlain
<1>4. CASE Escaped
  <2>1. /\ i + 1 \in 1..Len(text) /\ i' - 1 = i + 1 /\ (i + 1) - 1 = i
        /\ c = "backslash" /\ text[i + 1] # "newline" /\ cur' = Append(cur, text[i + 1])
    BY <1>1, <1>4 DEF Escaped, Continuation, Follows
  <2>2. text[i + 1] # "return"
    <3>1. SUFFICES ASSUME text[i + 1] = "return"
                   PROVE  FALSE
      OBVIOUS
    <3>2. i + 1 < Len(text) /\ text[(i + 1) + 1] = "newline"
      <4>1. PICK at \in {"back", "esc"} : at = IF inToken THEN "esc" ELSE "back"
        OBVIOUS
      <4>2. ShellStates(text)[(i + 1) - 1] = Here(at, cur, tokens)
        BY <1>3, <2>1, <4>1
      <4> QED
        BY <1>1, <2>1, <3>1, <4>2, AtReturn
    <3>3. i + 2 <= Len(text) /\ text[i + 2] = "newline" /\ i + 1 <= Len(text)
      BY <1>1, <3>2
    <3> QED
      BY <1>4, <2>1, <3>1, <3>3 DEF Escaped, ContinuationCRLF, Follows
  <2>3. text[i + 1] \in Chars
    BY <1>1, <2>1, CharacterOfText
  <2>4. PICK z : z = ShellStates(text)[i + 1]
    OBVIOUS
  <2>5. z = ShellStep(ShellStates(text)[i], text[i + 1])
    BY <1>1, <2>1, <2>2, <2>4, NextState
  <2>6. z = Here("word", Append(cur, text[i + 1]), tokens)
    <3>1. PICK at \in {"back", "esc"} : at = IF inToken THEN "esc" ELSE "back"
      OBVIOUS
    <3>2. z = ShellStep(Here(at, cur, tokens), text[i + 1])
      BY <1>3, <2>1, <2>5, <3>1
    <3> QED
      BY <1>1, <2>1, <2>3, <3>2, ReadEscaped
  <2>7. Agreed(z)'
    BY <1>0, <2>1, <2>6 DEF Agreed, Level, Position
  <2> QED
    BY <1>0, <2>1, <2>4, <2>7, Meets
<1>5. CASE Ordinary
  <2>1. /\ i' = i + 1 /\ i' - 1 = i /\ cur' = Append(cur, c)
        /\ c \in {"dollar", "other"} \/ (c = "backslash" /\ i = Len(text))
    BY <1>1, <1>5 DEF Ordinary
  <2>2. PICK z : z = ShellStates(text)[i]
    OBVIOUS
  <2>3. Agreed(z)'
    <3>1. CASE c \in {"dollar", "other"}
      <4>1. z = Here("word", Append(cur, c), tokens)
        BY <1>1, <1>2, <2>2, <3>1, ReadPlain
      <4> QED
        BY <1>0, <2>1, <4>1 DEF Agreed, Level, Position
    <3>2. CASE c = "backslash" /\ i = Len(text)
      <4>1. PICK w \in Word : w = cur
        BY <1>1
      <4>2. PICK at \in {"back", "esc"} : at = IF inToken THEN "esc" ELSE "back"
        OBVIOUS
      <4>3. z = Here(at, w, tokens') /\ cur' = Append(w, "backslash")
        BY <1>0, <1>3, <2>1, <2>2, <3>2, <4>1, <4>2
      <4>4. i' > Len(text')
        BY <1>0, <1>1, <2>1, <3>2
      <4>5. LoneAtEnd(z)'
        BY <1>0, <4>3, <4>4 DEF LoneAtEnd
      <4> QED
        BY <4>5 DEF Agreed
    <3> QED
      BY <2>1, <3>1, <3>2
  <2> QED
    BY <1>0, <2>1, <2>2, <2>3, Meets
<1> QED
  BY <1>4, <1>5

LEMMA SingleMet ==
    ASSUME NEW s, Met(s), SingleQuoted \/ SingleUnterminated
    PROVE  Matched'
<1>0. Looping /\ c = "quote" /\ text' = text
  BY DEF SingleQuoted, SingleUnterminated
<1>1. /\ s = Here(IF inToken THEN "word" ELSE "gap", cur, tokens)
      /\ i \in 1..Len(text) /\ text \in Word /\ Len(text) \in Nat
      /\ cur \in Word /\ tokens \in Seq(Word) /\ Comparable(text)
      /\ text[i] = "quote" /\ s = ShellStates(text)[i - 1]
  BY <1>0, LoopMet DEF Word, Met, At, c
<1>2. PICK at \in {"gap", "word"} : at = IF inToken THEN "word" ELSE "gap"
  OBVIOUS
<1>3. ASSUME NEW n \in i..Len(text), \A k \in (i + 1)..n : text[k] # "quote"
      PROVE  ShellStates(text)[n] =
               Here("single", cur \o SubSeq(text, i + 1, n), tokens)
  BY <1>1, <1>2, <1>3, Quoted
<1>4. CASE SingleQuoted
  <2>1. PICK j \in Closing :
          /\ \A k \in Closing : j <= k
          /\ cur' = cur \o SubSeq(text, i + 1, j - 1) /\ i' = j + 1
    BY <1>4 DEF SingleQuoted
  <2>2. /\ j \in (i + 1)..Len(text) /\ j \in 1..Len(text) /\ text[j] = "quote"
        /\ j - 1 \in i..Len(text) /\ i' - 1 = j
    BY <1>1, <2>1 DEF Closing
  <2>3. \A k \in (i + 1)..(j - 1) : text[k] # "quote"
    BY <1>1, <2>1, <2>2 DEF Closing
  <2>4. ShellStates(text)[j - 1] =
          Here("single", cur \o SubSeq(text, i + 1, j - 1), tokens)
    BY <1>3, <2>2, <2>3
  <2>5. cur' \in Word
    <3>1. i + 1 \in Nat \ {0} /\ j - 1 \in Nat /\ j - 1 <= Len(text)
      BY <1>1, <2>2
    <3>2. SubSeq(text, i + 1, j - 1) \in Word
      BY <1>1, <3>1, PieceOfText
    <3> QED
      BY <1>1, <2>1, <3>2 DEF Word
  <2>6. PICK z : z = ShellStates(text)[j]
    OBVIOUS
  <2>7. z = Here("word", cur', tokens)
    <3>1. "quote" \in Chars /\ "quote" # "return"
      BY DEF Chars
    <3>2. PICK w \in Word : w = cur'
      BY <2>5
    <3>3. ShellStates(text)[j - 1] = Here("single", w, tokens)
      BY <2>1, <2>4, <3>2
    <3>4. z = ShellStep(Here("single", w, tokens), "quote")
      BY <1>1, <2>2, <2>6, <3>1, <3>3, NextState
    <3> QED
      BY <3>1, <3>2, <3>4, ReadQuoted
  <2>8. tokens' = tokens /\ mode' = "loop" /\ inToken' = TRUE
    BY <1>4 DEF SingleQuoted, Looping
  <2>9. Agreed(z)'
    BY <2>7, <2>8 DEF Agreed, Level, Position
  <2> QED
    BY <1>0, <2>2, <2>6, <2>8, <2>9, Meets
<1>5. CASE SingleUnterminated
  <2>1. Len(text) \in i..Len(text) /\ \A k \in (i + 1)..Len(text) : text[k] # "quote"
    BY <1>1, <1>5 DEF SingleUnterminated, Closing
  <2>2. Shell(text) = Here("single", cur \o SubSeq(text, i + 1, Len(text)), tokens)
    BY <1>3, <2>1 DEF Shell
  <2>3. Shell(text').at \in Open
    BY <1>0, <2>2 DEF Here, Open
  <2> QED
    BY <1>5, <2>3 DEF SingleUnterminated, Matched, Reading, WordsGiven, LeftOpen
<1> QED
  BY <1>4, <1>5

LEMMA DoubleMet ==
    ASSUME NEW s, Met(s), mode = "double"
    PROVE  /\ \/ s = Here("double", cur, tokens)
              \/ \E w \in Word : s = Here("dback", w, tokens) /\ cur = Append(w, "backslash")
           /\ s # Here("double", cur, tokens) /\ i <= Len(text) => c \notin Escapable
           /\ s = ShellStates(text)[i - 1] /\ inToken
           /\ i \in Nat /\ text \in Word /\ Len(text) \in Nat /\ Comparable(text)
           /\ cur \in Word /\ tokens \in Seq(Word)
<1>1. /\ i \in Nat /\ text \in Word /\ Len(text) \in Nat /\ inToken
      /\ cur \in Word /\ tokens \in Seq(Word)
  BY DEF Met, Inside, TypeOK, Word
<1>2. Level(s) \/ LoneInDouble(s)
  BY DEF Met, Matched, Reading, Agreed, LoneAtEnd, EndedEarly
<1> QED
  BY <1>1, <1>2 DEF Level, LoneInDouble, Position, Met, At, c

LEMMA OpenDoubleMet ==
    ASSUME NEW s, Met(s), OpenDouble
    PROVE  Matched'
<1>0. /\ Looping /\ c = "dquote" /\ text' = text /\ i' = i + 1 /\ mode' = "double"
      /\ UNCHANGED <<tokens, cur>>
  BY DEF OpenDouble
<1>1. /\ s = Here(IF inToken THEN "word" ELSE "gap", cur, tokens)
      /\ i \in 1..Len(text) /\ text \in Word /\ c \in Chars
      /\ cur \in Word /\ tokens \in Seq(Word) /\ Comparable(text)
  BY <1>0, LoopMet DEF Met
<1>2. PICK z : z = ShellStates(text)[i]
  OBVIOUS
<1>3. z = ShellStep(s, c)
  BY <1>0, <1>1, <1>2, NextState DEF Met, At, c
<1>4. z = Here("double", cur, tokens)
  BY <1>0, <1>1, <1>3, ReadPlain
<1>5. i' - 1 = i
  BY <1>0, <1>1
<1>6. Agreed(z)'
  BY <1>0, <1>4 DEF Agreed, Level, Position
<1> QED
  BY <1>0, <1>2, <1>5, <1>6, Meets

LEMMA DoubleNext ==
    ASSUME NEW s, Met(s), InDouble
    PROVE  i \in 1..Len(text) /\ c \in Chars /\ ShellStates(text)[i] = ShellStep(s, c)
<1>1. /\ s = ShellStates(text)[i - 1] /\ text \in Word /\ Len(text) \in Nat
      /\ Comparable(text) /\ i \in 1..Len(text)
  BY DoubleMet DEF InDouble, Met, Inside, TypeOK
<1>2. s.at \in Open
  BY DoubleMet DEF InDouble, Here, Open
<1> QED
  BY <1>1, <1>2, CharacterOfText, NextState DEF c

LEMMA DoubleCharMet ==
    ASSUME NEW s, Met(s), DoubleChar
    PROVE  Matched'
<1>0. /\ mode = "double" /\ i <= Len(text) /\ InDouble /\ text' = text /\ i' = i + 1
      /\ UNCHANGED <<tokens, mode>> /\ mode' = "double" /\ cur' = Append(cur, c)
      /\ c # "dquote" /\ ~EscapedInDouble
  BY DEF DoubleChar, InDouble
<1>1. PICK z : z = ShellStates(text)[i]
  OBVIOUS
<1>2. /\ i \in 1..Len(text) /\ c \in Chars /\ z = ShellStep(s, c)
      /\ cur \in Word /\ Len(text) \in Nat
  BY <1>0, <1>1, DoubleNext, DoubleMet
<1>3. i' - 1 = i
  BY <1>0, <1>2
<1>4. Agreed(z)'
  <2>1. CASE s = Here("double", cur, tokens) /\ c # "backslash"
    <3>1. z = Here("double", Append(cur, c), tokens)
      BY <1>0, <1>2, <2>1, ReadQuoted
    <3> QED
      BY <1>0, <3>1 DEF Agreed, Level, Position
  <2>2. CASE s = Here("double", cur, tokens) /\ c = "backslash"
    <3>1. z = Here("dback", cur, tokens)
      BY <1>2, <2>2, ReadQuoted
    <3>2. i' <= Len(text') => text'[i'] \notin Escapable
      BY <1>0, <1>2, <2>2 DEF EscapedInDouble, Follows, Escapable
    <3>3. PICK w \in Word : w = cur
      BY <1>2
    <3>4. z = Here("dback", w, tokens') /\ cur' = Append(w, "backslash")
      BY <1>0, <2>2, <3>1, <3>3
    <3>5. LoneInDouble(z)'
      BY <1>0, <3>2, <3>4 DEF LoneInDouble
    <3> QED
      BY <3>5 DEF Agreed
  <2>3. CASE s # Here("double", cur, tokens)
    <3>1. PICK w \in Word : s = Here("dback", w, tokens) /\ cur = Append(w, "backslash")
      BY <1>0, <2>3, DoubleMet
    <3>2. c \notin Escapable
      BY <1>0, <2>3, DoubleMet
    <3>3. z = Here("double", Append(Append(w, "backslash"), c), tokens)
      BY <1>2, <3>1, <3>2, ReadQuotedEscape
    <3> QED
      BY <1>0, <3>1, <3>3 DEF Agreed, Level, Position
  <2> QED
    BY <2>1, <2>2, <2>3
<1> QED
  BY <1>0, <1>1, <1>3, <1>4, Meets

LEMMA DoubleEscapeMet ==
    ASSUME NEW s, Met(s), DoubleEscape
    PROVE  Matched'
<1>0. /\ mode = "double" /\ i <= Len(text) /\ InDouble /\ text' = text /\ i' = i + 2
      /\ UNCHANGED <<tokens, mode>> /\ mode' = "double" /\ c = "backslash"
      /\ i + 1 <= Len(text) /\ text[i + 1] \in Escapable
      /\ cur' = IF text[i + 1] = "newline" THEN cur ELSE Append(cur, text[i + 1])
  BY DEF DoubleEscape, InDouble, EscapedInDouble, Follows, Escapable
<1>1. /\ i \in 1..Len(text) /\ c \in Chars /\ text \in Word /\ Comparable(text)
      /\ ShellStates(text)[i] = ShellStep(s, c) /\ cur \in Word /\ Len(text) \in Nat
  BY <1>0, DoubleNext, DoubleMet
<1>2. s = Here("double", cur, tokens)
  BY <1>0, DoubleMet DEF Escapable
<1>3. ShellStates(text)[i] = Here("dback", cur, tokens)
  BY <1>0, <1>1, <1>2, ReadQuoted
<1>4. /\ i + 1 \in 1..Len(text) /\ (i + 1) - 1 = i /\ i' - 1 = i + 1
  BY <1>0, <1>1
<1>5. text[i + 1] \in Chars /\ text[i + 1] # "return"
  BY <1>0 DEF Escapable, Chars
<1>6. PICK z : z = ShellStates(text)[i + 1]
  OBVIOUS
<1>7. z = ShellStep(Here("dback", cur, tokens), text[i + 1])
  BY <1>1, <1>3, <1>4, <1>5, <1>6, NextState
<1>8. z = Here("double", cur', tokens)
  BY <1>0, <1>1, <1>5, <1>7, ReadQuotedEscape
<1>9. Agreed(z)'
  BY <1>0, <1>8 DEF Agreed, Level, Position
<1> QED
  BY <1>0, <1>4, <1>6, <1>9, Meets

LEMMA DoubleEndMet ==
    ASSUME NEW s, Met(s), CloseDouble \/ DoubleUnterminated
    PROVE  Matched'
<1>1. CASE CloseDouble
  <2>0. /\ mode = "double" /\ i <= Len(text) /\ InDouble /\ text' = text /\ i' = i + 1
        /\ UNCHANGED <<tokens, cur, inToken>> /\ mode' = "loop" /\ c = "dquote"
    BY <1>1 DEF CloseDouble, InDouble
  <2>1. PICK z : z = ShellStates(text)[i]
    OBVIOUS
  <2>2. /\ i \in 1..Len(text) /\ c \in Chars /\ z = ShellStep(s, c)
        /\ cur \in Word /\ Len(text) \in Nat /\ inToken
    BY <2>0, <2>1, DoubleNext, DoubleMet
  <2>3. s = Here("double", cur, tokens)
    BY <2>0, DoubleMet DEF Escapable
  <2>4. z = Here("word", cur, tokens)
    BY <2>0, <2>2, <2>3, ReadQuoted
  <2>5. Agreed(z)'
    BY <2>0, <2>2, <2>4 DEF Agreed, Level, Position
  <2>6. i' - 1 = i
    BY <2>0, <2>2
  <2> QED
    BY <2>0, <2>1, <2>5, <2>6, Meets
<1>2. CASE DoubleUnterminated
  <2>1. mode = "double" /\ text' = text /\ mode' = "failed" /\ i > Len(text)
    BY <1>2 DEF DoubleUnterminated
  <2>2. i - 1 = Len(text)
    BY <2>1 DEF Met, Inside, TypeOK, Word
  <2>3. Shell(text) = s
    BY <2>1, <2>2, DoubleMet DEF Shell
  <2>4. s.at \in {"double", "dback"}
    BY <2>1, DoubleMet DEF Here
  <2>5. Shell(text').at \in Open
    BY <2>1, <2>3, <2>4 DEF Open
  <2> QED
    BY <2>1, <2>5 DEF Matched, Reading, WordsGiven, LeftOpen
<1> QED
  BY <1>1, <1>2

LEMMA ReturnMet ==
    ASSUME NEW s, Met(s), Return
    PROVE  Matched'
<1>0. /\ mode = "loop" /\ i > Len(text) /\ text' = text /\ mode' = "done"
      /\ tokens' = IF inToken THEN Append(tokens, cur) ELSE tokens
  BY DEF Return, Flush
<1>1. /\ i - 1 = Len(text) /\ ~(i <= Len(text)) /\ inToken \in BOOLEAN
      /\ cur \in Word /\ tokens \in Seq(Word)
  BY <1>0 DEF Met, Inside, TypeOK, Word
<1>2. Shell(text) = s
  BY <1>1 DEF Met, At, Shell
<1>3. Level(s) \/ LoneAtEnd(s)
  BY <1>0, <1>1 DEF Met, Matched, Reading, Agreed, LoneInDouble, EndedEarly
<1>4. tokens' = ShellWords(text) /\ s.at \notin Open
  <2>1. CASE Level(s)
    <3>1. s = Here(IF inToken THEN "word" ELSE "gap", cur, tokens)
      BY <1>0, <2>1 DEF Level, Position
    <3> QED
      BY <1>0, <1>2, <3>1 DEF ShellWords, Here, Open
  <2>2. CASE LoneAtEnd(s)
    <3>1. PICK w \in Word, at \in {"back", "esc"} :
            s = Here(at, w, tokens) /\ cur = Append(w, "backslash") /\ inToken
      BY <2>2 DEF LoneAtEnd
    <3> QED
      BY <1>0, <1>2, <3>1 DEF ShellWords, Here, Open
  <2> QED
    BY <1>3, <2>1, <2>2
<1> QED
  BY <1>0, <1>2, <1>4 DEF Matched, Reading, WordsGiven, LeftOpen

Beside == Inside /\ (Comparable(text) => Matched)

LEMMA BesideStep == Beside /\ [Next]_vars => Beside'
<1> SUFFICES ASSUME Beside, [Next]_vars
             PROVE  Beside'
  OBVIOUS
<1>1. Inside'
  BY InsideStep DEF Beside
<1>2. text' = text
  BY DEF Next, Continue, SingleQuoted, SingleUnterminated, OpenDouble, DoubleEscape,
     DoubleChar, CloseDouble, DoubleUnterminated, Space, Escaped, Ordinary, Return,
     Returned, vars
<1>3. ASSUME Comparable(text)
      PROVE  Matched'
  <2>1. PICK s : s = At(i - 1)
    OBVIOUS
  <2>2. Met(s)
    BY <1>3, <2>1 DEF Met, Beside
  <2>3. CASE Returned \/ UNCHANGED vars
    <3>1. Matched
      BY <2>2 DEF Met
    <3>2. UNCHANGED vars
      BY <2>3 DEF Returned
    <3> QED
      BY <3>1, <3>2 DEF vars, Matched, Reading, WordsGiven, LeftOpen, Agreed, Level,
         Position, LoneInDouble, LoneAtEnd, EndedEarly, At
  <2>4. CASE Next /\ ~Returned
    BY <2>2, <2>4, SpaceMet, ContinueMet, PlainMet, SingleMet, OpenDoubleMet,
       DoubleCharMet, DoubleEscapeMet, DoubleEndMet, ReturnMet DEF Next
  <2> QED
    BY <2>3, <2>4
<1> QED
  BY <1>1, <1>2, <1>3 DEF Beside

LEMMA BesideInit == Init => Beside
<1> SUFFICES ASSUME Init
             PROVE  Beside
  OBVIOUS
<1>1. Start /\ Inside
  BY InsideInit DEF Init
<1>2. Matched
  BY <1>1, MatchedStart DEF Inside, TypeOK
<1> QED
  BY <1>1, <1>2 DEF Beside

(* "Matching shell semantics" (Tokenize), for a text of any length: whatever  *)
(* it quotes, escapes and continues, Tokenize returns the arguments that a    *)
(* shell takes from it, and fails exactly when a quote is left open.          *)
THEOREM TokenizesAsShell == Spec => []MatchesShell
<1>1. Beside => MatchesShell
  BY DEF Beside, Matched, WordsGiven, LeftOpen, MatchesShell, Open
<1> QED
  BY <1>1, BesideInit, BesideStep, PTL DEF Spec

-----------------------------------------------------------------------------
(* What a shell makes of the text that ToCurl writes                        *)

(* Reading x takes the shell from s to z, without a return outside quotes.   *)
Passes(f, x) ==
    \A k \in 1..Len(x) :
        /\ f[k] = ShellStep(f[k - 1], x[k])
        /\ x[k] = "return" => f[k - 1].at \in Open

Takes(x, s, z) == \E f : f[0] = s /\ f[Len(x)] = z /\ Passes(f, x)

LEMMA TakesNothing ==
    ASSUME NEW s
    PROVE  Takes(<<>>, s, s)
<1> DEFINE f == [k \in 0..0 |-> s]
<1>1. f[0] = s /\ Len(<<>>) = 0 /\ Passes(f, <<>>)
  BY DEF Passes
<1> QED
  BY <1>1 DEF Takes

LEMMA TakesOne ==
    ASSUME NEW s, NEW ch, ch = "return" => s.at \in Open
    PROVE  Takes(<<ch>>, s, ShellStep(s, ch))
<1> DEFINE f == [k \in 0..1 |-> IF k = 0 THEN s ELSE ShellStep(s, ch)]
<1>1. f[0] = s /\ f[1] = ShellStep(s, ch) /\ Len(<<ch>>) = 1
  OBVIOUS
<1>2. Passes(f, <<ch>>)
  <2> SUFFICES ASSUME NEW k \in 1..Len(<<ch>>)
               PROVE  /\ f[k] = ShellStep(f[k - 1], <<ch>>[k])
                      /\ <<ch>>[k] = "return" => f[k - 1].at \in Open
    BY DEF Passes
  <2>1. k = 1 /\ k - 1 = 0 /\ <<ch>>[k] = ch
    OBVIOUS
  <2> QED
    BY <1>1, <2>1
<1> QED
  BY <1>1, <1>2 DEF Takes

LEMMA TakesBoth ==
    ASSUME NEW x \in Word, NEW y \in Word, NEW s, NEW z, NEW u,
           Takes(x, s, z), Takes(y, z, u)
    PROVE  Takes(x \o y, s, u)
<1>1. PICK f : f[0] = s /\ f[Len(x)] = z /\ Passes(f, x)
  BY DEF Takes
<1>2. PICK g : g[0] = z /\ g[Len(y)] = u /\ Passes(g, y)
  BY DEF Takes
<1>3. PICK m \in Nat : m = Len(x)
  BY DEF Word
<1>4. PICK n \in Nat : n = Len(y)
  BY DEF Word
<1> DEFINE h == [k \in 0..(m + n) |-> IF k <= m THEN f[k] ELSE g[k - m]]
<1>5. Len(x \o y) = m + n
  BY <1>3, <1>4 DEF Word
<1>6. /\ \A k \in 1..m : (x \o y)[k] = x[k]
      /\ \A k \in 1..n : (x \o y)[m + k] = y[k]
  <2>1. \A k \in 1..(m + n) : (x \o y)[k] = IF k <= m THEN x[k] ELSE y[k - m]
    BY <1>3, <1>4, ConcatProperties DEF Word
  <2>2. ASSUME NEW k \in 1..m
        PROVE  (x \o y)[k] = x[k]
    <3>1. k \in 1..(m + n) /\ k <= m
      OBVIOUS
    <3> QED
      BY <2>1, <3>1
  <2>3. ASSUME NEW k \in 1..n
        PROVE  (x \o y)[m + k] = y[k]
    <3>1. m + k \in 1..(m + n) /\ ~(m + k <= m) /\ (m + k) - m = k
      OBVIOUS
    <3> QED
      BY <2>1, <3>1
  <2> QED
    BY <2>2, <2>3
<1>7. \A k \in 0..m : h[k] = f[k]
  OBVIOUS
<1>8. \A k \in 0..n : h[m + k] = g[k]
  <2> SUFFICES ASSUME NEW k \in 0..n
               PROVE  h[m + k] = g[k]
    OBVIOUS
  <2>1. CASE k = 0
    <3>1. m + k = m /\ m \in 0..m
      BY <2>1
    <3> QED
      BY <1>1, <1>2, <1>3, <1>7, <2>1, <3>1
  <2>2. CASE k # 0
    <3>1. m + k \in 0..(m + n) /\ ~(m + k <= m) /\ (m + k) - m = k
      BY <2>2
    <3> QED
      BY <3>1
  <2> QED
    BY <2>1, <2>2
<1> HIDE DEF h
<1>9. Passes(h, x \o y)
  <2> SUFFICES ASSUME NEW k \in 1..(m + n)
               PROVE  /\ h[k] = ShellStep(h[k - 1], (x \o y)[k])
                      /\ (x \o y)[k] = "return" => h[k - 1].at \in Open
    BY <1>5 DEF Passes
  <2>1. CASE k <= m
    <3>1. k \in 1..m /\ k \in 0..m /\ k - 1 \in 0..m
      BY <2>1
    <3> QED
      BY <1>1, <1>3, <1>6, <1>7, <3>1 DEF Passes
  <2>2. CASE k > m
    <3>1. PICK j : j = k - m
      OBVIOUS
    <3>2. j \in 1..n /\ j \in 0..n /\ j - 1 \in 0..n /\ m + j = k /\ m + (j - 1) = k - 1
      BY <2>2, <3>1
    <3>3. h[k] = g[j] /\ h[k - 1] = g[j - 1] /\ (x \o y)[k] = y[j]
      <4>1. h[m + j] = g[j] /\ h[m + (j - 1)] = g[j - 1] /\ (x \o y)[m + j] = y[j]
        BY <1>6, <1>8, <3>2
      <4> QED
        BY <3>2, <4>1
    <3> QED
      BY <1>2, <1>4, <3>2, <3>3 DEF Passes
  <2>3. k <= m \/ k > m
    BY <1>3, <1>4
  <2> QED
    BY <2>1, <2>2, <2>3
<1>10. h[0] = s /\ h[Len(x \o y)] = u
  <2>1. 0 \in 0..m /\ n \in 0..n
    OBVIOUS
  <2>2. h[m + n] = g[n] /\ h[0] = f[0]
    BY <1>7, <1>8, <2>1
  <2> QED
    BY <1>1, <1>2, <1>4, <1>5, <2>2
<1> QED
  BY <1>9, <1>10 DEF Takes

(* Piece by piece: z[k] is the shell after the first k of them.              *)
LEMMA TakesAll ==
    ASSUME NEW s \in Seq(Word), NEW z,
           \A k \in 1..Len(s) : Takes(s[k], z[k - 1], z[k])
    PROVE  Takes(FlattenSeq(s), z[0], z[Len(s)])
<1>0. Len(s) \in Nat /\ s \in Seq(Seq(Chars))
  BY DEF Word
<1>1. PICK f : /\ f[0] = <<>>
               /\ \A k \in 1..Len(s) : f[k] = f[k - 1] \o s[k]
               /\ \A k \in 0..Len(s) : f[k] \in Seq(Chars)
               /\ FlattenSeq(s) = f[Len(s)]
  BY <1>0, Flattened
<1>2. PICK n \in Nat : n = Len(s)
  BY <1>0
<1> DEFINE S == {m \in Nat : m <= n => Takes(f[m], z[0], z[m])}
<1>3. 0 \in S
  BY <1>1, TakesNothing
<1>4. ASSUME NEW m \in Nat, m \in S
      PROVE  m + 1 \in S
  <2> SUFFICES ASSUME m + 1 <= n
               PROVE  Takes(f[m + 1], z[0], z[m + 1])
    OBVIOUS
  <2>1. m + 1 \in 1..n /\ (m + 1) - 1 = m /\ m \in 0..n /\ m <= n
    OBVIOUS
  <2>2. /\ f[m + 1] = f[m] \o s[m + 1] /\ f[m] \in Word /\ s[m + 1] \in Word
        /\ Takes(s[m + 1], z[m], z[m + 1])
    <3>1. m + 1 \in 1..Len(s) /\ m \in 0..Len(s)
      BY <1>2, <2>1
    <3>2. Takes(s[m + 1], z[(m + 1) - 1], z[m + 1])
      BY <3>1
    <3>3. f[m + 1] = f[(m + 1) - 1] \o s[m + 1] /\ f[m] \in Word
      BY <1>1, <3>1 DEF Word
    <3>4. s[m + 1] \in Word
      BY <3>1
    <3> QED
      BY <2>1, <3>2, <3>3, <3>4
  <2>3. Takes(f[m], z[0], z[m])
    BY <1>4, <2>1
  <2> QED
    BY <2>2, <2>3, TakesBoth
<1>5. Nat \subseteq S
  BY <1>3, <1>4, Counting
<1>6. Takes(f[n], z[0], z[n])
  <2>1. n \in S /\ n <= n
    BY <1>5
  <2> QED
    BY <2>1
<1> QED
  BY <1>1, <1>2, <1>6

(* What the shell is after a whole text.                                     *)
LEMMA TakesText ==
    ASSUME NEW t \in Word, NEW z, Takes(t, Fresh, z)
    PROVE  Shell(t) = z /\ Comparable(t)
<1>1. PICK f : f[0] = Fresh /\ f[Len(t)] = z /\ Passes(f, t)
  BY DEF Takes
<1>2. PICK n \in Nat : n = Len(t)
  BY DEF Word
<1> DEFINE S == {m \in Nat : m <= n => ShellStates(t)[m] = f[m]}
<1>3. 0 \in S
  BY <1>1, StatesAre
<1>4. ASSUME NEW m \in Nat, m \in S
      PROVE  m + 1 \in S
  <2> SUFFICES ASSUME m + 1 <= n
               PROVE  ShellStates(t)[m + 1] = f[m + 1]
    OBVIOUS
  <2>1. m + 1 \in 1..Len(t) /\ (m + 1) - 1 = m /\ m <= n
    BY <1>2
  <2>2. /\ f[m + 1] = ShellStep(f[m], t[m + 1])
        /\ t[m + 1] = "return" => f[m].at \in Open
    BY <1>1, <2>1 DEF Passes
  <2>3. ShellStates(t)[m] = f[m]
    BY <1>4, <2>1
  <2>4. ShellStates(t)[m + 1] = Read(ShellStates(t)[m], t, m + 1)
    BY <2>1, StatesAre
  <2> QED
    BY <2>2, <2>3, <2>4 DEF Read, LineEnd
<1>5. Nat \subseteq S
  BY <1>3, <1>4, Counting
<1>6. \A m \in 0..n : ShellStates(t)[m] = f[m]
  BY <1>5
<1>7. Shell(t) = z
  <2>1. n \in 0..n
    OBVIOUS
  <2> QED
    BY <1>1, <1>2, <1>6, <2>1 DEF Shell
<1>8. Comparable(t)
  <2> SUFFICES ASSUME NEW k \in 1..Len(t), t[k] = "return"
               PROVE  ShellStates(t)[k - 1].at \in Open
    BY DEF Comparable
  <2>1. k - 1 \in 0..n
    BY <1>2
  <2> QED
    BY <1>1, <1>6, <2>1 DEF Passes
<1> QED
  BY <1>7, <1>8

(* One more character.                                                       *)
LEMMA TakesThen ==
    ASSUME NEW x \in Word, NEW ch \in Chars, NEW s, NEW z, NEW u, Takes(x, s, z),
           ch # "return", u = ShellStep(z, ch)
    PROVE  x \o <<ch>> \in Word /\ Takes(x \o <<ch>>, s, u)
<1>1. <<ch>> \in Word
  BY DEF Word
<1>2. Takes(<<ch>>, z, u)
  BY TakesOne
<1>3. x \o <<ch>> \in Word
  BY <1>1, JoinedWords
<1>4. Takes(x \o <<ch>>, s, u)
  BY <1>1, <1>2, TakesBoth
<1> QED
  BY <1>3, <1>4

(* Inside the quotes each character of an argument adds itself, an embedded   *)
(* quote by leaving the quotes and coming back.                              *)
LEMMA TakesWritten ==
    ASSUME NEW v \in Word, NEW ws, NEW w \in Word, NEW k \in 1..Len(w)
    PROVE  Takes(Written(w)[k], Here("single", v, ws), Here("single", Append(v, w[k]), ws))
<1>0. w[k] \in Chars
  BY CharacterOfText
<1>1. CASE w[k] # "quote"
  <2>1. Written(w)[k] = <<w[k]>>
    BY <1>1 DEF Written
  <2>2. ShellStep(Here("single", v, ws), w[k]) = Here("single", Append(v, w[k]), ws)
    BY <1>0, <1>1, ReadQuoted
  <2>3. Here("single", v, ws).at \in Open
    BY DEF Here, Open
  <2> QED
    BY <2>1, <2>2, <2>3, TakesOne
<1>2. CASE w[k] = "quote"
  <2>0. "quote" \in Chars /\ "backslash" \in Chars /\ <<"quote">> \in Word
    BY DEF Chars, Word
  <2>1. Written(w)[k] = ((<<"quote">> \o <<"backslash">>) \o <<"quote">>) \o <<"quote">>
    BY <1>2 DEF Written
  <2>2. Takes(<<"quote">>, Here("single", v, ws), Here("word", v, ws))
    <3>1. ShellStep(Here("single", v, ws), "quote") = Here("word", v, ws)
      BY <2>0, ReadQuoted
    <3>2. "quote" # "return"
      OBVIOUS
    <3> QED
      BY <3>1, <3>2, TakesOne
  <2>3. /\ <<"quote">> \o <<"backslash">> \in Word
        /\ Takes(<<"quote">> \o <<"backslash">>, Here("single", v, ws), Here("esc", v, ws))
    <3>1. ShellStep(Here("word", v, ws), "backslash") = Here("esc", v, ws)
      BY <2>0, ReadPlain
    <3>2. "backslash" # "return"
      OBVIOUS
    <3> QED
      BY <2>0, <2>2, <3>1, <3>2, TakesThen
  <2>4. PICK x \in Word : x = <<"quote">> \o <<"backslash">>
    BY <2>3
  <2>5. /\ x \o <<"quote">> \in Word
        /\ Takes(x \o <<"quote">>, Here("single", v, ws),
                 Here("word", Append(v, "quote"), ws))
    <3>1. ShellStep(Here("esc", v, ws), "quote") = Here("word", Append(v, "quote"), ws)
      BY <2>0, ReadEscaped
    <3>2. "quote" # "return"
      OBVIOUS
    <3>3. Takes(x, Here("single", v, ws), Here("esc", v, ws))
      BY <2>3, <2>4
    <3> QED
      BY <2>0, <3>1, <3>2, <3>3, TakesThen
  <2>6. PICK y \in Word : y = x \o <<"quote">>
    BY <2>5
  <2>7. Takes(y \o <<"quote">>, Here("single", v, ws), Here("single", Append(v, "quote"), ws))
    <3>1. ShellStep(Here("word", Append(v, "quote"), ws), "quote") =
            Here("single", Append(v, "quote"), ws)
      BY <2>0, LongerWord, ReadPlain
    <3>2. "quote" # "return"
      OBVIOUS
    <3>3. Takes(y, Here("single", v, ws), Here("word", Append(v, "quote"), ws))
      BY <2>5, <2>6
    <3> QED
      BY <2>0, <3>1, <3>2, <3>3, TakesThen
  <2> QED
    BY <1>2, <2>1, <2>4, <2>6, <2>7
<1> QED
  BY <1>1, <1>2

(* A quoted argument is one word.                                            *)
LEMMA TakesQuoted ==
    ASSUME NEW w \in Word, NEW ws
    PROVE  Takes(ShellQuote(w), Here("gap", <<>>, ws), Here("word", w, ws))
<1>0. "quote" \in Chars /\ <<"quote">> \in Word /\ <<>> \in Word /\ "quote" # "return"
  BY DEF Chars, Word
<1>1. PICK n \in Nat : n = Len(w)
  BY DEF Word
<1> DEFINE z == [k \in 0..n |-> Here("single", SubSeq(w, 1, k), ws)]
<1>2. z[0] = Here("single", <<>>, ws)
  <2>1. SubSeq(w, 1, 0) = <<>>
    BY SubSeqEmpty
  <2>2. 0 \in 0..n
    OBVIOUS
  <2> QED
    BY <2>1, <2>2
<1>3. z[n] = Here("single", w, ws)
  <2>1. SubSeq(w, 1, n) = w
    BY <1>1, SubSeqFull DEF Word
  <2>2. n \in 0..n
    OBVIOUS
  <2> QED
    BY <2>1, <2>2
<1>4. ASSUME NEW k \in 1..n
      PROVE  Takes(Written(w)[k], z[k - 1], z[k])
  <2>1. PICK v : v = SubSeq(w, 1, k - 1)
    OBVIOUS
  <2>2. v \in Word
    <3>1. 1 \in Nat \ {0} /\ k - 1 \in Nat /\ k - 1 <= Len(w)
      BY <1>1
    <3> QED
      BY <2>1, <3>1, PieceOfText
  <2>3. SubSeq(w, 1, k) = v \o <<w[k]>>
    <3>1. 1 \in 1..Len(w) /\ k \in 1..Len(w) /\ w \in Seq(Chars)
      BY <1>1 DEF Word
    <3> QED
      BY <2>1, <3>1, SubSeqRecursiveSecond
  <2>4. w[k] \in Chars /\ k \in 1..Len(w)
    BY <1>1, CharacterOfText
  <2>5. v \o <<w[k]>> = Append(v, w[k])
    BY <2>2, <2>4, OneMore
  <2>6. z[k - 1] = Here("single", v, ws) /\ z[k] = Here("single", Append(v, w[k]), ws)
    <3>1. k - 1 \in 0..n /\ k \in 0..n
      OBVIOUS
    <3> QED
      BY <2>1, <2>3, <2>5, <3>1
  <2> QED
    BY <2>2, <2>4, <2>6, TakesWritten
<1> HIDE DEF z
<1>5. Takes(FlattenSeq(Written(w)), Here("single", <<>>, ws), Here("single", w, ws))
  <2>1. Written(w) \in Seq(Word) /\ Len(Written(w)) = n
    BY <1>1, WrittenType DEF Word
  <2>2. Takes(FlattenSeq(Written(w)), z[0], z[Len(Written(w))])
    BY <1>4, <2>1, TakesAll
  <2> QED
    BY <1>2, <1>3, <2>1, <2>2
<1>6. Takes(<<"quote">>, Here("gap", <<>>, ws), Here("single", <<>>, ws))
  BY <1>0, ReadPlain, TakesOne
<1>7. PICK x \in Word : x = FlattenSeq(Written(w))
  BY QuoteType
<1>8. PICK y \in Word : y = <<"quote">> \o x
  BY <1>0, <1>7, JoinedWords
<1>9. Takes(y, Here("gap", <<>>, ws), Here("single", w, ws))
  BY <1>0, <1>5, <1>6, <1>7, <1>8, TakesBoth
<1>10. ShellStep(Here("single", w, ws), "quote") = Here("word", w, ws)
  BY <1>0, ReadQuoted
<1>11. Takes(y \o <<"quote">>, Here("gap", <<>>, ws), Here("word", w, ws))
  BY <1>0, <1>9, <1>10, TakesThen
<1> QED
  BY <1>7, <1>8, <1>11, QuoteType

(* A flag and its argument are two words.                                    *)
LEMMA TakesLine ==
    ASSUME NEW w \in Word, NEW ws
    PROVE  Takes(Line(w), Here("gap", <<>>, ws), Here("word", w, Append(ws, <<"other">>)))
<1>0. /\ "other" \in Chars /\ "blank" \in Chars /\ "other" # "return" /\ "blank" # "return"
      /\ <<>> \in Word /\ <<"other">> \in Word /\ "blank" \in Blanks
  BY DEF Chars, Word, Blanks
<1>1. Takes(<<"other">>, Here("gap", <<>>, ws), Here("word", <<"other">>, ws))
  <2>1. ShellStep(Here("gap", <<>>, ws), "other") = Here("word", Append(<<>>, "other"), ws)
    BY <1>0, ReadPlain
  <2>2. Append(<<>>, "other") = <<"other">>
    OBVIOUS
  <2> QED
    BY <1>0, <2>1, <2>2, TakesOne
<1>2. Takes(<<"other">> \o <<"blank">>, Here("gap", <<>>, ws),
            Here("gap", <<>>, Append(ws, <<"other">>)))
  <2>1. PICK o \in Word : o = <<"other">>
    BY <1>0
  <2>2. ShellStep(Here("word", o, ws), "blank") = Here("gap", <<>>, Append(ws, o))
    BY <1>0, ReadPlain
  <2>3. Takes(o, Here("gap", <<>>, ws), Here("word", o, ws))
    BY <1>1, <2>1
  <2>4. Takes(o \o <<"blank">>, Here("gap", <<>>, ws), Here("gap", <<>>, Append(ws, o)))
    BY <1>0, <2>2, <2>3, TakesThen
  <2> QED
    BY <2>1, <2>4
<1>3. <<"other">> \o <<"blank">> = <<"other", "blank">>
  BY <1>0, TwoCharacters
<1>4. Takes(ShellQuote(w), Here("gap", <<>>, Append(ws, <<"other">>)),
            Here("word", w, Append(ws, <<"other">>)))
  BY TakesQuoted
<1>5. <<"other", "blank">> \in Word /\ ShellQuote(w) \in Word
  BY PieceTypes, QuoteType
<1>6. Takes(<<"other", "blank">>, Here("gap", <<>>, ws),
            Here("gap", <<>>, Append(ws, <<"other">>)))
  BY <1>2, <1>3
<1> QED
  BY <1>4, <1>5, <1>6, TakesBoth DEF Line

(* What joins two lines, or ends the last, ends a word and begins none.      *)
LEMMA TakesBreak ==
    ASSUME NEW w \in Word, NEW ws
    PROVE  /\ Takes(<<"newline">>, Here("word", w, ws), Here("gap", <<>>, Append(ws, w)))
           /\ Takes(Continued, Here("word", w, ws), Here("gap", <<>>, Append(ws, w)))
<1>0. /\ "newline" \in Chars /\ "blank" \in Chars /\ "backslash" \in Chars
      /\ "newline" # "return" /\ "blank" # "return" /\ "backslash" # "return"
      /\ <<>> \in Word /\ <<"blank">> \in Word /\ "blank" \in Blanks /\ "newline" \in Blanks
  BY DEF Chars, Word, Blanks
<1>1. PICK us : us = Append(ws, w)
  OBVIOUS
<1>2. PICK s : s = Here("word", w, ws)
  OBVIOUS
<1>3. PICK z : z = Here("gap", <<>>, us)
  OBVIOUS
<1>4. ShellStep(s, "newline") = z /\ ShellStep(s, "blank") = z
  BY <1>0, <1>1, <1>2, <1>3, ReadPlain
<1>5. ShellStep(z, "backslash") = Here("back", <<>>, us) /\ ShellStep(z, "blank") = z
  BY <1>0, <1>3, ReadPlain
<1>6. ShellStep(Here("back", <<>>, us), "newline") = z
  BY <1>0, <1>3, ReadEscaped
<1>7. Takes(<<"newline">>, s, z)
  BY <1>0, <1>4, TakesOne
<1>8. Takes(<<"blank">>, s, z)
  BY <1>0, <1>4, TakesOne
<1>9. PICK x \in Word : x = <<"blank">> \o <<"backslash">> /\ Takes(x, s, Here("back", <<>>, us))
  <2>1. PICK u : u = Here("back", <<>>, us)
    OBVIOUS
  <2>2. /\ <<"blank">> \o <<"backslash">> \in Word
        /\ Takes(<<"blank">> \o <<"backslash">>, s, u)
    BY <1>0, <1>5, <1>8, <2>1, TakesThen
  <2> QED
    BY <2>1, <2>2
<1>10. PICK y \in Word : y = x \o <<"newline">> /\ Takes(y, s, z)
  <2>1. PICK u : u = Here("back", <<>>, us)
    OBVIOUS
  <2>2. Takes(x, s, u) /\ ShellStep(u, "newline") = z
    BY <1>6, <1>9, <2>1
  <2>3. x \o <<"newline">> \in Word /\ Takes(x \o <<"newline">>, s, z)
    BY <1>0, <2>2, TakesThen
  <2> QED
    BY <2>3
<1>11. PICK v \in Word : v = y \o <<"blank">> /\ Takes(v, s, z)
  BY <1>0, <1>5, <1>10, TakesThen
<1>12. Takes(v \o <<"blank">>, s, z)
  BY <1>0, <1>5, <1>11, TakesThen
<1>13. Continued = v \o <<"blank">>
  BY <1>9, <1>10, <1>11 DEF Continued
<1> QED
  BY <1>1, <1>2, <1>3, <1>7, <1>12, <1>13

(* A shell takes from the printed command the words it was printed from.     *)
LEMMA TakesCommand ==
    ASSUME NEW args \in Seq(Word)
    PROVE  Takes(ToCurl(args), Fresh, Here("gap", <<>>, Arguments(args)))
<1>1. PICK g : /\ g[0] = <<>>
               /\ \A k \in 1..Len(Pairs(args)) : g[k] = g[k - 1] \o Pairs(args)[k]
               /\ \A k \in 0..Len(Pairs(args)) : g[k] \in Seq(Word)
               /\ FlattenSeq(Pairs(args)) = g[Len(Pairs(args))]
  BY CommandTypes, Flattened
<1>2. PICK n \in Nat : n = Len(args)
  OBVIOUS
<1> DEFINE z == [k \in 0..n |-> Here("gap", <<>>, g[k])]
<1>3. \A k \in 0..n : z[k] = Here("gap", <<>>, g[k])
  OBVIOUS
<1> HIDE DEF z
<1>4. ASSUME NEW k \in 1..n
      PROVE  Takes(Lines(args)[k], z[k - 1], z[k])
  <2>1. k \in 0..n /\ k - 1 \in 0..n
    OBVIOUS
  <2>2. PICK a \in Word : a = args[k]
    BY <1>2
  <2>3. PICK ws \in Seq(Word) : ws = g[k - 1]
    BY <1>1, <1>2, <2>1, CommandTypes
  <2>4. g[k] = Append(Append(ws, <<"other">>), a)
    <3>1. Pairs(args)[k] = <<<<"other">>, a>>
      BY <1>2, <2>2 DEF Pairs
    <3>2. PICK o \in Word : o = <<"other">>
      BY PieceTypes
    <3>3. ws \o <<o, a>> = Append(Append(ws, o), a)
      OBVIOUS
    <3>4. g[k] = ws \o Pairs(args)[k]
      BY <1>1, <1>2, <2>3, CommandTypes
    <3> QED
      BY <3>1, <3>2, <3>3, <3>4
  <2>5. PICK end \in Word :
          /\ Lines(args)[k] = Line(a) \o end
          /\ end \in {Continued, <<"newline">>}
    <3>1. Lines(args)[k] = Line(a) \o IF k < Len(args) THEN Continued ELSE <<"newline">>
      BY <1>2, <2>2 DEF Lines
    <3> QED
      BY <3>1, PieceTypes
  <2>6. Takes(Line(a), Here("gap", <<>>, ws), Here("word", a, Append(ws, <<"other">>)))
    BY TakesLine
  <2>7. Takes(end, Here("word", a, Append(ws, <<"other">>)),
              Here("gap", <<>>, Append(Append(ws, <<"other">>), a)))
    BY <2>5, TakesBreak
  <2>8. Line(a) \in Word
    BY LineType
  <2>9. Takes(Line(a) \o end, Here("gap", <<>>, ws),
              Here("gap", <<>>, Append(Append(ws, <<"other">>), a)))
    BY <2>6, <2>7, <2>8, TakesBoth
  <2> QED
    BY <1>3, <2>1, <2>3, <2>4, <2>5, <2>9
<1>5. Lines(args) \in Seq(Word) /\ Len(Lines(args)) = n /\ Len(Pairs(args)) = n
  BY <1>2, CommandTypes DEF Word
<1>6. Takes(FlattenSeq(Lines(args)), z[0], z[n])
  <2>1. Takes(FlattenSeq(Lines(args)), z[0], z[Len(Lines(args))])
    BY <1>4, <1>5, TakesAll
  <2> QED
    BY <1>5, <2>1
<1>7. z[0] = Fresh
  <2>1. 0 \in 0..n
    OBVIOUS
  <2> QED
    BY <1>1, <1>3, <2>1 DEF Here, Fresh
<1>8. z[n] = Here("gap", <<>>, Arguments(args))
  <2>1. n \in 0..n
    OBVIOUS
  <2> QED
    BY <1>1, <1>3, <1>5, <2>1, CommandTypes
<1> QED
  BY <1>6, <1>7, <1>8, CommandTypes

Faithful ==
    written # <<>> => Comparable(text) /\ Shell(text) = Here("gap", <<>>, written)

LEMMA FaithfulInit == Init => Faithful
<1> SUFFICES ASSUME Init, written # <<>>
             PROVE  Comparable(text) /\ Shell(text) = Here("gap", <<>>, written)
  BY DEF Faithful
<1>1. PICK args \in BoundedSeq(BoundedSeq(Chars, MaxWord), MaxLines) :
        text = ToCurl(args) /\ written = Arguments(args)
  BY DEF Init
<1>2. args \in Seq(Word)
  BY BoundedArguments
<1>3. text \in Word
  BY <1>1, <1>2, CommandTypes
<1> QED
  BY <1>1, <1>2, <1>3, TakesCommand, TakesText

LEMMA FaithfulStep == Faithful /\ [Next]_vars => Faithful'
<1>1. [Next]_vars => UNCHANGED <<text, written>>
  BY DEF Next, Continue, SingleQuoted, SingleUnterminated, OpenDouble, DoubleEscape,
     DoubleChar, CloseDouble, DoubleUnterminated, Space, Escaped, Ordinary, Return,
     Returned, vars
<1> QED
  BY <1>1 DEF Faithful

(* Whatever arguments a command has, of any length and number, with quotes,   *)
(* backslashes and line ends in them, from-curl reads from what to-curl has    *)
(* printed exactly the arguments it was printed for.                         *)
THEOREM ArgumentsSurvive == Spec => []QuotedArgumentsSurvive
<1>1. Beside /\ Faithful => QuotedArgumentsSurvive
  <2> SUFFICES ASSUME Beside, Faithful, written # <<>>
               PROVE  mode # "failed" /\ (mode = "done" => tokens = written)
    BY DEF QuotedArgumentsSurvive
  <2>1. Matched /\ Shell(text) = Here("gap", <<>>, written)
    BY DEF Beside, Faithful
  <2>2. Shell(text).at = "gap" /\ ShellWords(text) = written
    BY <2>1 DEF ShellWords, Here
  <2> QED
    BY <2>1, <2>2 DEF Matched, WordsGiven, LeftOpen, Open
<1> QED
  BY <1>1, BesideInit, BesideStep, FaithfulInit, FaithfulStep, PTL DEF Spec
=============================================================================
