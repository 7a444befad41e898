------------------------------- MODULE Words -------------------------------
(***************************************************************************)
(* curl.Tokenize, which splits a pasted command line into arguments, as an  *)
(* automaton over the classes of characters it tells apart, and the text   *)
(* that curl.ToCurl writes: one quoted argument to a line.  The reference  *)
(* is the quoting of a shell, written character by character.              *)
(***************************************************************************)
EXTENDS Naturals, Sequences, SequencesExt

CONSTANTS
    MaxText,     \* bound: characters of an arbitrary text
    MaxWord,     \* bound: characters of an argument that is written out
    MaxLines     \* bound: lines of a command that is written out

ASSUME WordsBounds == MaxText \in Nat /\ MaxWord \in Nat /\ MaxLines \in Nat

(* "dollar" stands for $ and `, which a backslash escapes in double quotes, *)
(* "blank" for space and tab, "other" for what has no meaning to a shell.  *)
Chars == {"quote", "dquote", "backslash", "newline", "return", "blank",
          "dollar", "other"}

Word == Seq(Chars)

VARIABLES
    text,      \* s
    written,   \* the arguments the text was written from, if it was
    i,         \* the position reached, from 1
    tokens,    \* the finished tokens
    cur,       \* the token being read
    inToken,   \* cur is a token, were it empty
    mode       \* in the loop, in the loop of a double quote, returned

vars == <<text, written, i, tokens, cur, inToken, mode>>

-----------------------------------------------------------------------------
(* What to-curl prints                                                     *)

(* Mutated: an embedded quote is not escaped.                              *)
QuoteBare(w) == <<"quote">> \o w \o <<"quote">>

ShellQuote(w) ==
    <<"quote">>
    \o FlattenSeq([k \in 1..Len(w) |->
          IF w[k] = "quote" THEN <<"quote", "backslash", "quote", "quote">>
          ELSE <<w[k]>>])
    \o <<"quote">>

(* A flag (or "curl"), its argument, and what joins a line to the next.     *)
Line(arg) == <<"other", "blank">> \o ShellQuote(arg)
Continued == <<"blank", "backslash", "newline", "blank", "blank">>

ToCurl(args) ==
    FlattenSeq([k \in 1..Len(args) |->
        Line(args[k]) \o IF k < Len(args) THEN Continued ELSE <<"newline">>])

Arguments(args) ==
    FlattenSeq([k \in 1..Len(args) |-> <<<<"other">>, args[k]>>])

-----------------------------------------------------------------------------
(* Tokenize                                                                *)

Start ==
    /\ i = 1 /\ tokens = <<>> /\ cur = <<>> /\ inToken = FALSE
    /\ mode = "loop"

(* Any short text, or the text of a command of some lines.                 *)
Init ==
    /\ \/ /\ text \in BoundedSeq(Chars, MaxText)
          /\ written = <<>>
       \/ \E args \in BoundedSeq(BoundedSeq(Chars, MaxWord), MaxLines) :
            /\ args # <<>>
            /\ text = ToCurl(args)
            /\ written = Arguments(args)
    /\ Start

c == text[i]
Follows(k, ch) == i + k <= Len(text) /\ text[i + k] = ch

Continuation == c = "backslash" /\ Follows(1, "newline")
ContinuationCRLF ==
    c = "backslash" /\ Follows(1, "return") /\ Follows(2, "newline")

Looping == mode = "loop" /\ i <= Len(text)

(* "\" and a line end outside quotes vanish, whatever is being read.        *)
Continue ==
    /\ Looping
    /\ \/ Continuation /\ i' = i + 2
       \/ ContinuationCRLF /\ i' = i + 3
    /\ UNCHANGED <<text, written, tokens, cur, inToken, mode>>

Closing == {j \in (i + 1)..Len(text) : text[j] = "quote"}

SingleQuoted ==
    /\ Looping /\ c = "quote"
    /\ \E j \in Closing :
         /\ \A k \in Closing : j <= k
         /\ cur' = cur \o SubSeq(text, i + 1, j - 1)
         /\ i' = j + 1
    /\ inToken' = TRUE
    /\ UNCHANGED <<text, written, tokens, mode>>

SingleUnterminated ==
    /\ Looping /\ c = "quote" /\ Closing = {}
    /\ mode' = "failed"
    /\ UNCHANGED <<text, written, i, tokens, cur, inToken>>

OpenDouble ==
    /\ Looping /\ c = "dquote"
    /\ mode' = "double" /\ inToken' = TRUE
    /\ i' = i + 1
    /\ UNCHANGED <<text, written, tokens, cur>>

InDouble == mode = "double" /\ i <= Len(text)
EscapedInDouble ==
    /\ c = "backslash"
    /\ \E ch \in {"backslash", "dollar", "dquote", "newline"} : Follows(1, ch)

DoubleEscape ==
    /\ InDouble /\ EscapedInDouble
    /\ cur' = IF text[i + 1] = "newline" THEN cur ELSE Append(cur, text[i + 1])
    /\ i' = i + 2
    /\ UNCHANGED <<text, written, tokens, inToken, mode>>

DoubleChar ==
    /\ InDouble /\ c # "dquote" /\ ~EscapedInDouble
    /\ cur' = Append(cur, c)
    /\ i' = i + 1
    /\ UNCHANGED <<text, written, tokens, inToken, mode>>

CloseDouble ==
    /\ InDouble /\ c = "dquote"
    /\ mode' = "loop"
    /\ i' = i + 1
    /\ UNCHANGED <<text, written, tokens, cur, inToken>>

DoubleUnterminated ==
    /\ mode = "double" /\ i > Len(text)
    /\ mode' = "failed"
    /\ UNCHANGED <<text, written, i, tokens, cur, inToken>>

Flush ==
    /\ tokens' = IF inToken THEN Append(tokens, cur) ELSE tokens
    /\ cur' = <<>> /\ inToken' = FALSE

(* Mutated: an empty token is not flushed.                                 *)
SpaceNonEmpty ==
    /\ Looping /\ c \in {"blank", "newline", "return"}
    /\ tokens' = IF cur # <<>> THEN Append(tokens, cur) ELSE tokens
    /\ cur' = <<>> /\ inToken' = FALSE
    /\ i' = i + 1
    /\ UNCHANGED <<text, written, mode>>

Space ==
    /\ Looping /\ c \in {"blank", "newline", "return"}
    /\ Flush
    /\ i' = i + 1
    /\ UNCHANGED <<text, written, mode>>

(* Mutated: the escaped character is skipped by one position too many.      *)
EscapedOverrun ==
    /\ Looping /\ c = "backslash" /\ i < Len(text)
    /\ ~Continuation /\ ~ContinuationCRLF
    /\ inToken' = TRUE
    /\ cur' = Append(cur, text[i + 1])
    /\ i' = i + 3
    /\ UNCHANGED <<text, written, tokens, mode>>

Escaped ==
    /\ Looping /\ c = "backslash" /\ i < Len(text)
    /\ ~Continuation /\ ~ContinuationCRLF
    /\ inToken' = TRUE
    /\ cur' = Append(cur, text[i + 1])
    /\ i' = i + 2
    /\ UNCHANGED <<text, written, tokens, mode>>

(* Any other character, a backslash at the very end among them.            *)
Ordinary ==
    /\ Looping
    /\ c \in {"dollar", "other"} \/ (c = "backslash" /\ i = Len(text))
    /\ inToken' = TRUE
    /\ cur' = Append(cur, c)
    /\ i' = i + 1
    /\ UNCHANGED <<text, written, tokens, mode>>

Return ==
    /\ mode = "loop" /\ i > Len(text)
    /\ mode' = "done"
    /\ Flush
    /\ UNCHANGED <<text, written, i>>

(* Tokenize has returned: so that only a loop that is stuck is a deadlock.  *)
Returned == mode \in {"done", "failed"} /\ UNCHANGED vars

Next ==
    \/ Continue \/ SingleQuoted \/ SingleUnterminated
    \/ OpenDouble \/ DoubleEscape \/ DoubleChar \/ CloseDouble
    \/ DoubleUnterminated
    \/ Space \/ Escaped \/ Ordinary \/ Return
    \/ Returned

Spec == Init /\ [][Next]_vars

-----------------------------------------------------------------------------
(* No index leaves the text by more than the one position that ends the    *)
(* loop, although three of the cases look ahead; outside a token nothing   *)
(* has been collected (the Reset of flush).                                *)
TypeOK ==
    /\ text \in Word /\ written \in Seq(Word)
    /\ i \in 1..(Len(text) + 1)
    /\ tokens \in Seq(Word) /\ cur \in Word /\ inToken \in BOOLEAN
    /\ mode \in {"loop", "double", "done", "failed"}
    /\ ~inToken => cur = <<>>

(* A shell, one character at a time: a backslash waits for the next one.    *)
Blanks == {"blank", "newline"}
Fresh == [at |-> "gap", word |-> <<>>, words |-> <<>>]
Add(s, at, w) == [at |-> at, word |-> s.word \o w, words |-> s.words]

(* "back" is a backslash seen between tokens, "esc" inside one.             *)
InPlain(s, ch) ==
    CASE ch = "quote" -> Add(s, "single", <<>>)
      [] ch = "dquote" -> Add(s, "double", <<>>)
      [] ch = "backslash" -> Add(s, IF s.at = "gap" THEN "back" ELSE "esc", <<>>)
      [] ch \in Blanks -> [at |-> "gap", word |-> <<>>, words |->
            IF s.at = "gap" THEN s.words ELSE Append(s.words, s.word)]
      [] OTHER -> Add(s, "word", <<ch>>)

AfterBackslash(s, ch) ==
    IF ch = "newline" THEN Add(s, IF s.at = "back" THEN "gap" ELSE "word", <<>>)
    ELSE Add(s, "word", <<ch>>)

InQuotes(s, ch) ==
    CASE s.at = "single" /\ ch = "quote" -> Add(s, "word", <<>>)
      [] s.at = "double" /\ ch = "dquote" -> Add(s, "word", <<>>)
      [] s.at = "double" /\ ch = "backslash" -> Add(s, "dback", <<>>)
      [] s.at = "dback" /\ ch = "newline" -> Add(s, "double", <<>>)
      [] s.at = "dback" /\ ch \in {"backslash", "dollar", "dquote"} ->
            Add(s, "double", <<ch>>)
      [] s.at = "dback" /\ ch \in Chars \ {"backslash", "dollar", "dquote", "newline"} ->
            Add(s, "double", <<"backslash", ch>>)
      [] OTHER -> Add(s, s.at, <<ch>>)

ShellStep(s, ch) ==
    IF s.at \in {"gap", "word"} THEN InPlain(s, ch)
    ELSE IF s.at \in {"back", "esc"} THEN AfterBackslash(s, ch)
    ELSE InQuotes(s, ch)

(* Outside quotes a shell is given line ends without the carriage return of *)
(* a CRLF; in quotes it takes everything as it comes.                       *)
Open == {"single", "double", "dback"}
LineEnd(t, k) == t[k] = "return" /\ k < Len(t) /\ t[k + 1] = "newline"

Read(s, t, k) ==
    IF LineEnd(t, k) /\ s.at \notin Open THEN s ELSE ShellStep(s, t[k])

(* The shell after each number of characters.                              *)
ShellStates(t) ==
    LET state[k \in 0..Len(t)] ==
          IF k = 0 THEN Fresh ELSE Read(state[k - 1], t, k)
    IN state

Shell(t) == ShellStates(t)[Len(t)]

(* A backslash that ends the text stands for itself.                       *)
ShellWords(t) ==
    LET s == Shell(t) IN
    IF s.at \in {"back", "esc"} THEN Append(s.words, Append(s.word, "backslash"))
    ELSE IF s.at = "gap" THEN s.words ELSE Append(s.words, s.word)

(* Any other carriage return outside quotes is a blank here and a letter to *)
(* a shell.                                                                *)
Comparable(t) ==
    \A k \in 1..Len(t) :
        t[k] = "return" => LineEnd(t, k) \/ ShellStates(t)[k - 1].at \in Open

(* "Matching shell semantics" (Tokenize): a text gives the arguments that a *)
(* shell takes from it, line continuations and CRLF line ends included,    *)
(* and is refused exactly when a quote is left open.                       *)
MatchesShell ==
    Comparable(text) =>
        /\ mode = "done" => tokens = ShellWords(text)
        /\ mode \in {"done", "failed"} =>
             (mode = "failed" <=> Shell(text).at \in Open)

(* Whatever an argument contains, quotes and line ends included, from-curl  *)
(* reads back the arguments that to-curl wrote (shellQuote).               *)
QuotedArgumentsSurvive ==
    written # <<>> =>
        /\ mode # "failed"
        /\ mode = "done" => tokens = written
=============================================================================
