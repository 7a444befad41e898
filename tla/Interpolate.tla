----------------------------- MODULE Interpolate -----------------------------
(***************************************************************************)
(* internal/interpolate: the expansion of "{{name}}" placeholders, whose   *)
(* values may hold placeholders themselves, and its use on a URL by        *)
(* parser.Resolve, once when the file is parsed and again, with the        *)
(* variables scripts have set since, right before the request is sent.     *)
(*                                                                         *)
(* A text is a sequence of tokens: Lit for a run of literal characters and *)
(* a name for a placeholder.  Expanded text says of each token how often   *)
(* it was percent-encoded.  A step is one call of the function that expand *)
(* hands to ReplaceAllStringFunc; the calls of expand form a stack.        *)
(***************************************************************************)
EXTENDS Naturals, FiniteSets, Sequences, SequencesExt

CONSTANTS
    Names,      \* names a file, an environment or a script may declare
    Dynamic,    \* the "$" names that are generated
    Nope,       \* a "$" name that is not supported
    Lit,        \* literal text
    Undef,      \* stands for a variable that is not declared
    Texts,      \* values of variables
    URLs,       \* URL templates of requests
    ScriptTexts,\* what scripts store
    Local,      \* names the request declares itself, which hide the globals
    MaxSets     \* bound: variables that scripts set

Token == {Lit, Nope} \cup Names \cup Dynamic
Param == [key : Seq(Token), hasValue : BOOLEAN, value : Seq(Token)]

ASSUME TokensAssumption ==
    /\ Lit \notin Names \cup Dynamic \cup {Nope}
    /\ Names \cap (Dynamic \cup {Nope}) = {} /\ Nope \notin Dynamic
    /\ IsFiniteSet(Names)
ASSUME TextsAssumption ==
    /\ Texts \subseteq Seq(Token) /\ Undef \notin Seq(Token)
    /\ ScriptTexts \subseteq Texts /\ Local \subseteq Names
ASSUME URLsAssumption == URLs \subseteq [base : Seq(Token), query : Seq(Param)]
ASSUME MaxSetsAssumption == MaxSets \in Nat

VARIABLES
    url, variables,
    params,          \* the parameters of the query not yet looked at
    call, callers,   \* the call of expand that runs, those that wait for it
    text,            \* what ApplyURL has of the result
    missing, cycles, \* its reports
    phase,           \* "expand", or "done"
    before,          \* the resolution before the last set, and its report
    sets             \* variables that scripts have set

template == <<url, variables, before, sets>>
reports == <<missing, cycles>>
vars == <<template, params, call, callers, text, reports, phase>>

Vars == [Names -> Texts \cup {Undef}]

Declared(n, v) == n \in Names /\ v[n] # Undef

(* seenMiss, seenCycles and dedupe: the first of each is kept.              *)
Note(s, x) == IF Contains(s, x) THEN s ELSE Append(s, x)

-----------------------------------------------------------------------------
(* expand(s, stack, escape): what is left of s and what became of the rest  *)
Call == [rest : Seq(Token), stack : Seq(Names), escape : BOOLEAN,
         out : Seq(Token \X {0, 1})]

Outermost(s, escape) ==
    [rest |-> s, stack |-> <<>>, escape |-> escape, out |-> <<>>]

(* Mutated: each level of nesting escapes the values it inserts.            *)
NestedEscaping(n) ==
    [rest |-> variables[n], stack |-> Append(call.stack, n),
     escape |-> call.escape, out |-> <<>>]

(* A nested value is expanded with rawValue.                                *)
Nested(n) ==
    [rest |-> variables[n], stack |-> Append(call.stack, n),
     escape |-> FALSE, out |-> <<>>]

Raw(s) == [k \in 1..Len(s) |-> <<s[k], 0>>]
Escape(o) == [k \in 1..Len(o) |-> <<o[k][1], o[k][2] + 1>>]
Escaped(escape, o) == IF escape THEN Escape(o) ELSE o

(* The running call puts o in place of its next token.                      *)
Put(o) ==
    /\ call' = [call EXCEPT !.rest = Tail(@), !.out = @ \o o]
    /\ UNCHANGED <<template, params, callers, text, phase>>

AtName(n) == phase = "expand" /\ call.rest # <<>> /\ Head(call.rest) = n

(* Mutated: only the innermost name counts as being expanded.               *)
OnTop(n) == call.stack # <<>> /\ Last(call.stack) = n

OnStack(n) == Contains(call.stack, n)

Literal ==
    /\ AtName(Lit)
    /\ Put(Raw(<<Lit>>)) /\ UNCHANGED reports

Generate(n) ==
    /\ n \in Dynamic /\ AtName(n)
    /\ Put(Escaped(call.escape, Raw(<<n>>))) /\ UNCHANGED reports

(* Mutated: an undeclared name inside a value is not reported.              *)
MissAtTopOnly(n) ==
    /\ n \notin Dynamic \cup {Lit} /\ AtName(n) /\ ~Declared(n, variables)
    /\ Put(Raw(<<n>>))
    /\ missing' = IF call.stack = <<>> THEN Note(missing, n) ELSE missing
    /\ UNCHANGED cycles

(* An undeclared name stays in the text and is reported.                    *)
Miss(n) ==
    /\ n \notin Dynamic \cup {Lit} /\ AtName(n) /\ ~Declared(n, variables)
    /\ Put(Raw(<<n>>))
    /\ missing' = Note(missing, n)
    /\ UNCHANGED cycles

(* The way from a name on the stack back to it.                             *)
WayBack(n) ==
    LET i == CHOOSE k \in 1..Len(call.stack) : call.stack[k] = n IN
    Append(SubSeq(call.stack, i, Len(call.stack)), n)

(* Mutated: a value that only refers to itself is not called a cycle.       *)
LoopOfSeveral(n) ==
    /\ AtName(n) /\ Declared(n, variables) /\ OnStack(n)
    /\ Put(Raw(<<n>>))
    /\ cycles' = IF Last(call.stack) = n THEN cycles ELSE Note(cycles, WayBack(n))
    /\ UNCHANGED missing

(* A name whose value is being expanded already stays in the text, and the  *)
(* way from it back to itself is reported.                                  *)
Loop(n) ==
    /\ AtName(n) /\ Declared(n, variables) /\ OnStack(n)
    /\ Put(Raw(<<n>>))
    /\ cycles' = Note(cycles, WayBack(n))
    /\ UNCHANGED missing

Enter(n) ==
    /\ AtName(n) /\ Declared(n, variables) /\ ~OnStack(n)
    /\ callers' = Append(callers, [call EXCEPT !.rest = Tail(@)])
    /\ call' = Nested(n)
    /\ UNCHANGED <<template, params, text, reports, phase>>

Return ==
    /\ phase = "expand" /\ call.rest = <<>> /\ callers # <<>>
    /\ callers' = Front(callers)
    /\ call' = [Last(callers) EXCEPT !.out = @ \o Escaped(Last(callers).escape, call.out)]
    /\ UNCHANGED <<template, params, text, reports, phase>>

Ready == phase = "expand" /\ call.rest = <<>> /\ callers = <<>>

(* Mutated: a valueless flag is copied as any other key.                    *)
OpenFlagRaw(p) ==
    IF p.hasValue
    THEN [copied |-> Raw(p.key), call |-> Outermost(p.value, TRUE)]
    ELSE [copied |-> Raw(p.key), call |-> Outermost(<<>>, FALSE)]

(* Mutated: a valueless flag is escaped as if it were data.                 *)
OpenFlagEscaped(p) ==
    IF p.hasValue
    THEN [copied |-> Raw(p.key), call |-> Outermost(p.value, TRUE)]
    ELSE [copied |-> <<>>, call |-> Outermost(p.key, TRUE)]

(* A query parameter is a key with or without a value.  The key of one with *)
(* a value is copied; a valueless flag is interpolated.                     *)
Open(p) ==
    IF p.hasValue
    THEN [copied |-> Raw(p.key), call |-> Outermost(p.value, TRUE)]
    ELSE [copied |-> <<>>, call |-> Outermost(p.key, FALSE)]

NextParam ==
    /\ Ready /\ params # <<>>
    /\ params' = Tail(params)
    /\ text' = text \o call.out \o Open(Head(params)).copied
    /\ call' = Open(Head(params)).call
    /\ UNCHANGED <<template, callers, reports, phase>>

Finish ==
    /\ Ready /\ params = <<>>
    /\ phase' = "done"
    /\ text' = text \o call.out
    /\ call' = Outermost(<<>>, FALSE)
    /\ UNCHANGED <<template, params, callers, reports>>

(* The variables and the resolution parsing sees ...                        *)
Init ==
    /\ url \in URLs
    /\ variables \in Vars
    /\ params = url.query /\ call = Outermost(url.base, FALSE) /\ callers = <<>>
    /\ text = <<>> /\ missing = <<>> /\ cycles = <<>> /\ phase = "expand"
    /\ before = [variables |-> variables, missing |-> <<>>] /\ sets = 0

(* Mutated: the request is sent as it was resolved when the file was read.  *)
ScriptSetUnseen(n, x) ==
    /\ phase = "done" /\ sets < MaxSets /\ n \notin Local
    /\ sets' = sets + 1
    /\ before' = [variables |-> variables, missing |-> missing]
    /\ variables' = [variables EXCEPT ![n] = x]
    /\ UNCHANGED <<url, params, call, callers, text, reports, phase>>

(* ... and those right before sending, after a script stored a global.      *)
ScriptSet(n, x) ==
    /\ phase = "done" /\ sets < MaxSets /\ n \notin Local
    /\ sets' = sets + 1
    /\ before' = [variables |-> variables, missing |-> missing]
    /\ variables' = [variables EXCEPT ![n] = x]
    /\ params' = url.query /\ call' = Outermost(url.base, FALSE)
    /\ text' = <<>> /\ missing' = <<>> /\ cycles' = <<>> /\ phase' = "expand"
    /\ UNCHANGED <<url, callers>>

Next ==
    \/ Literal \/ Return \/ NextParam \/ Finish
    \/ \E n \in Token : Generate(n) \/ Miss(n) \/ Loop(n) \/ Enter(n)
    \/ \E n \in Names, x \in ScriptTexts : ScriptSet(n, x)

Spec == Init /\ [][Next]_vars

-----------------------------------------------------------------------------
TypeOK ==
    /\ url \in URLs /\ variables \in Vars
    /\ params \in Seq(Param)
    /\ call \in Call /\ callers \in Seq(Call)
    /\ text \in Seq(Token \X {0, 1})
    /\ missing \in Seq(Names \cup {Nope}) /\ cycles \in Seq(Seq(Names))
    /\ phase \in {"expand", "done"}
    /\ before \in [variables : Vars, missing : Seq(Names \cup {Nope})]
    /\ sets \in 0..MaxSets

-----------------------------------------------------------------------------
(* The reference: variables as a graph                                      *)

Interpolated(p) == IF p.hasValue THEN p.value ELSE p.key
Mentions(s) == Range(s) \ ({Lit} \cup Dynamic)
Start(u) == Mentions(u.base) \cup UNION {Mentions(Interpolated(p)) : p \in Range(u.query)}
Refers(v, m) == IF Declared(m, v) THEN Mentions(v[m]) ELSE {}

Nodes == Names \cup {Nope}
Closed(S, u, v) == Start(u) \subseteq S /\ \A m \in S : Refers(v, m) \subseteq S

Reachable(u, v) ==
    {m \in Nodes : \A S \in SUBSET Nodes : Closed(S, u, v) => m \in S}

(* The elementary cycles of the graph, each written from every name on it.  *)
Ways == {w \in SeqOf(Names, Cardinality(Names)) : w # <<>> /\ IsInjective(w)}

CyclesOf(u, v) ==
    LET reached == Reachable(u, v) IN
    {w \in Ways :
        /\ w[1] \in reached
        /\ \A k \in 1..Len(w) : w[(k % Len(w)) + 1] \in Refers(v, w[k])}

Turns(w) == {[k \in DOMAIN w |-> w[((k + d) % Len(w)) + 1]] : d \in DOMAIN w}

(* Of what it expands, which is all but the keys of parameters with a value *)
(* (NoPlaceholderLeft), ApplyURL reports as missing exactly the undeclared  *)
(* names, those reached through the values of others included, each once.   *)
MissingExact ==
    phase = "done" =>
        /\ Range(missing) =
             {m \in Reachable(url, variables) : ~Declared(m, variables)}
        /\ IsInjective(missing)

(* It reports every elementary cycle that can be reached, from wherever it  *)
(* is entered, and nothing that is not one.                                 *)
CyclesExact ==
    phase = "done" =>
        /\ \A c \in Range(cycles) : Len(c) > 1 /\ Last(c) = c[1]
        /\ UNION {Turns(Front(c)) : c \in Range(cycles)} = CyclesOf(url, variables)

(* However variables refer to each other, expand never nests deeper than    *)
(* there are variables.                                                     *)
NestingBounded == Len(callers) <= Cardinality(Names)

(* Without a report the result is the template with every declared name of  *)
(* what it expands substituted over and over until none is left, where what *)
(* is inserted into the value of a query parameter is escaped once, and     *)
(* with the keys of parameters that have a value as they were written.      *)
Substitute(s, v) ==
    FlattenSeq([k \in 1..Len(s) |-> IF Declared(s[k], v) THEN v[s[k]] ELSE <<s[k]>>])

Substituted(s, v) ==
    LET times[k \in Nat] == IF k = 0 THEN s ELSE Substitute(times[k - 1], v)
    IN times

FullySubstituted(s, v) == Substituted(s, v)[Cardinality(Names)]

Times(s, n) == [k \in 1..Len(s) |-> <<s[k], n>>]

ExpectedOfValue(s, v) ==
    FlattenSeq([k \in 1..Len(s) |->
        Times(FullySubstituted(<<s[k]>>, v), IF s[k] = Lit THEN 0 ELSE 1)])

ExpectedOf(p, v) ==
    IF p.hasValue
    THEN Times(p.key, 0) \o ExpectedOfValue(p.value, v)
    ELSE Times(FullySubstituted(p.key, v), 0)

ExpectedOfAll(q, v) == FlattenSeq([k \in 1..Len(q) |-> ExpectedOf(q[k], v)])

Expected(u, v) == Times(FullySubstituted(u.base, v), 0) \o ExpectedOfAll(u.query, v)

CompleteWhenSilent ==
    phase = "done" /\ missing = <<>> /\ cycles = <<>> =>
        text = Expected(url, variables)

(* Escaping happens in the values of the query and nowhere else, and a      *)
(* value that is nested in another is escaped once, not once per level.     *)
Plain(u) == \A k \in DOMAIN u.query : ~u.query[k].hasValue

EscapedInQueryOnly ==
    /\ Plain(url) => \A k \in DOMAIN text : text[k][2] = 0
    /\ \A k \in DOMAIN text : text[k][2] <= 1

(* "A script might set the variable before the request is used"             *)
(* (issuesAsFatal): storing a literal text for a name makes its report go   *)
(* away and brings up no other.                                             *)
SetRepairs ==
    phase = "done" =>
        \A n \in Names :
            /\ before.variables[n] # <<Lit>>
            /\ variables = [before.variables EXCEPT ![n] = <<Lit>>]
            => Range(missing) \subseteq Range(before.missing) \ {n}

-----------------------------------------------------------------------------
(* What a document says and the code does not do.                           *)
(* "`{{name}}` anywhere in the URL ... is replaced", and a name that is not *)
(* declared is reported (doc/http-file-format.md): without a report no      *)
(* placeholder is left in the URL.                                          *)
NoPlaceholderLeft ==
    phase = "done" /\ missing = <<>> /\ cycles = <<>> =>
        \A k \in DOMAIN text : text[k][1] \in {Lit} \cup Dynamic
=============================================================================
