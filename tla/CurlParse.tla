----------------------------- MODULE CurlParse -----------------------------
(***************************************************************************)
(* curl.Parse: the arguments of a curl command, read one by one, become a   *)
(* request.  A text is a sequence of lines, a line a sequence of the pieces *)
(* that some code looks at; an argument is a flag with its value, and what  *)
(* is kept of it is its position in the command.                            *)
(***************************************************************************)
EXTENDS Naturals, Sequences, SequencesExt

CONSTANTS
    Pieces,     \* what a line is made of
    Args,       \* the arguments a command may have
    MaxArgs     \* bound: arguments of a command

(* "agent" stands for -A, -e and -b, "data" for -d, --data and --data-ascii, *)
(* "binary" for --data-binary, "dropped" for -k, -o and unknown flags,      *)
(* "ignored" for those without effect (-s, -L, --compressed, ...).          *)
Kinds == {"positional", "url", "method", "head", "header", "agent", "user",
          "data", "binary", "raw", "urlencode", "form", "proxy", "dashes",
          "dropped", "ignored"}

(* The pieces that the code itself writes, or that stand for what it makes.  *)
ASSUME PiecesAssumption ==
    {"GET", "POST", "HEAD", "put", "PUT", "User-Agent", "Authorization",
     "encoded", "&", "<", "@", "Content-Disposition", "Content-Type",
     "multipart", "boundary", "part", "--boundary", "--boundary--", "base",
     "given", "", "CR", "bytes", "###", "# @name", "# @proxy"} \subseteq Pieces

Text == Seq(Seq(Pieces)) \ {<<>>}
Empty == <<<<>>>>

(* The filename= and type= of a -F value stand beside it.                   *)
Arg == [is : Kinds, value : Text, filename : {"none", "given", "empty"},
        type : BOOLEAN]

ASSUME ArgsAssumption == Args \subseteq Arg
ASSUME MaxArgsAssumption == MaxArgs \in Nat

VARIABLES
    phase,      \* where the conversion is
    seen,       \* the arguments read so far
    got         \* the local variables of Parse, as positions in seen

(* url, method and proxy are 0 as long as there is none.  In warned, 0 is   *)
(* the warning about -F together with -d.                                   *)
Got == [positional : BOOLEAN, url : Nat, method : Nat, proxy : Nat,
        headers : Seq(Nat), data : Seq(Nat), file : Nat, forms : Seq(Nat),
        warned : SUBSET Nat]

GotNothing == [positional |-> FALSE, url |-> 0, method |-> 0, proxy |-> 0,
               headers |-> <<>>, data |-> <<>>, file |-> 0, forms |-> <<>>,
               warned |-> {}]

Begins(l, piece) == Len(l) > 0 /\ l[1] = piece
Starts(v, piece) == Len(v) > 0 /\ Begins(v[1], piece)
Mentions(v, piece) == \E k \in 1..Len(v) : Contains(v[k], piece)
HasLineEnd(v) == Len(v) > 1

HasCR(v) == Mentions(v, "CR")

(* "@" stands before the path of a file, "--" and "-" have no scheme, and    *)
(* the first piece of a header is its name, with the colon.  Left out are a  *)
(* -F upload of no path, a line end in a path, a URL, a method, a proxy or   *)
(* the name of a header, and a method that is not one word or begins a       *)
(* comment in a file.                                                       *)
ASSUME PathsAssumption ==
    /\ \A a \in Args : a.is = "form" /\ Starts(a.value, "@") => Len(a.value[1]) > 1
    /\ \A a \in Args : a.is \in {"form", "data", "binary"} /\ Starts(a.value, "@") =>
         ~HasLineEnd(a.value)
ASSUME DashesAssumption ==
    \A a \in Args : a.is = "dashes" => a.value = <<<<"schemeless">>>>
ASSUME LinesAssumption ==
    \A a \in Args : a.is \in {"positional", "url", "method", "proxy"} =>
        ~HasLineEnd(a.value) /\ ~HasCR(a.value)
ASSUME MethodsAssumption ==
    \A a \in Args : a.is = "method" /\ a.value # Empty =>
        Len(a.value[1]) = 1 /\ a.value[1][1] \notin {"#", "###", "# @proxy"}
ASSUME HeadersAssumption ==
    \A a \in Args : a.is = "header" /\ a.value # Empty =>
        /\ a.value[1] # <<>> /\ a.value[1][1] # "CR"
        /\ Starts(a.value, "bare") => ~HasLineEnd(a.value)

-----------------------------------------------------------------------------
(* The loop over the arguments                                             *)

here == Len(seen) + 1

Read(a) ==
    /\ phase = "args" /\ Len(seen) < MaxArgs
    /\ seen' = Append(seen, a)
    /\ UNCHANGED phase

Option(a, kinds) == Read(a) /\ ~got.positional /\ a.is \in kinds

Warn == got' = [got EXCEPT !.warned = @ \cup {here}]

Dashes(a) ==
    /\ Option(a, {"dashes"})
    /\ got' = [got EXCEPT !.positional = TRUE]

HasURL == got.url # 0 /\ seen[got.url].value # Empty
ValidURL == HasURL /\ ~Starts(seen[got.url].value, "invalid")

(* After "--" every argument is positional (a second "--", or one that is   *)
(* no option anyway; what looks like an option there is left out).          *)
Positional(a) ==
    /\ Read(a)
    /\ a.is = "positional" \/ (got.positional /\ a.is = "dashes")
    /\ IF HasURL THEN Warn ELSE got' = [got EXCEPT !.url = here]

Url(a) == Option(a, {"url"}) /\ got' = [got EXCEPT !.url = here]

Method(a) == Option(a, {"method"}) /\ got' = [got EXCEPT !.method = here]

Explicit(k) == k # 0 /\ (seen[k].is = "head" \/ seen[k].value # Empty)

HeadOnly(a) ==
    /\ Option(a, {"head"})
    /\ got' = IF Explicit(got.method) THEN got ELSE [got EXCEPT !.method = here]

(* strings.TrimSpace of what follows the colon of -H: line ends after the   *)
(* text go, those within it stay.                                          *)
TrimEnd(l) ==
    SubSeq(l, 1, SelectLastInSeq(l, LAMBDA p : p # "CR"))
OneLineOnly(v) ==
    ~Contains(TrimEnd(v[1]), "CR") /\ \A k \in 2..Len(v) : TrimEnd(v[k]) = <<>>

(* -H without a colon, and any header with a line end (addHeader), which    *)
(* the base64 of -u never has.                                              *)
Header(a) ==
    /\ Option(a, {"header", "agent", "user"})
    /\ IF \/ a.is = "header" /\ (a.value = Empty \/ Starts(a.value, "colonless"))
          \/ a.is = "header" /\ ~OneLineOnly(a.value)
          \/ a.is = "agent" /\ (HasLineEnd(a.value) \/ HasCR(a.value))
       THEN Warn
       ELSE got' = [got EXCEPT !.headers = Append(@, here)]

DataKinds == {"data", "binary", "raw", "urlencode"}
NamesFile(a) == a.is \in {"data", "binary"} /\ Starts(a.value, "@")
HasAt(a) == a.is = "urlencode" /\ (Mentions(a.value, "@") \/ Mentions(a.value, "a@b"))

(* "-d @": no path follows, so that fileDataPath stays what it is, "".      *)
EmptyPath(a) == NamesFile(a) /\ Len(a.value[1]) = 1

(* Mutated: a file after other data replaces it.                           *)
DataReplaced(a) ==
    /\ Option(a, DataKinds)
    /\ IF HasAt(a) \/ (got.file # 0 /\ ~NamesFile(a)) THEN Warn
       ELSE got' = CASE EmptyPath(a) -> got
                     [] NamesFile(a) /\ ~EmptyPath(a) ->
                          [got EXCEPT !.file = here, !.data = <<>>]
                     [] OTHER -> [got EXCEPT !.data = Append(@, here)]

(* One file, or any number of values: they do not mix.                     *)
Data(a) ==
    /\ Option(a, DataKinds)
    /\ IF HasAt(a) \/ got.file # 0 \/ (NamesFile(a) /\ got.data # <<>>) THEN Warn
       ELSE got' = CASE EmptyPath(a) -> got
                     [] NamesFile(a) /\ ~EmptyPath(a) -> [got EXCEPT !.file = here]
                     [] OTHER -> [got EXCEPT !.data = Append(@, here)]

Form(a) ==
    /\ Option(a, {"form"})
    /\ IF Starts(a.value, "nameless") THEN Warn
       ELSE got' = [got EXCEPT !.forms = Append(@, here)]

Proxy(a) == Option(a, {"proxy"}) /\ got' = [got EXCEPT !.proxy = here]
Dropped(a) == Option(a, {"dropped"}) /\ Warn
Ignored(a) == Option(a, {"ignored"}) /\ UNCHANGED got

(* A flag that needs a value ends the command; no URL, or an invalid one.   *)
Refuse ==
    /\ phase = "args"
    /\ ~got.positional \/ ~ValidURL
    /\ phase' = "failed"
    /\ UNCHANGED <<seen, got>>

-----------------------------------------------------------------------------
(* The request                                                             *)

Line(l) == <<l>>
Delimiter == <<"--boundary">>
CloseDelimiter == <<"--boundary--">>
FormType == <<"Content-Type", "multipart", "boundary">>

(* The text before the first ";", where the attributes of -F begin.         *)
BeforeSemicolon(v) ==
    LET n == SelectInSeq(v, LAMBDA l : Contains(l, ";")) IN
    IF n = 0 THEN v
    ELSE Append(SubSeq(v, 1, n - 1),
                SubSeq(v[n], 1, SelectInSeq(v[n], LAMBDA p : p = ";") - 1))

IsUpload(a) == Starts(a.value, "@")

(* parseFormField: the name a file goes by, its own unless filename= says.  *)
Filename(a) ==
    CASE a.filename = "none" -> "base"
      [] a.filename = "given" -> "given"
      [] a.filename = "empty" -> ""

(* formatMultipartBody, one part.                                          *)
Part(a) ==
    <<Delimiter>>
    \o Line(IF IsUpload(a) THEN <<"Content-Disposition", Filename(a)>>
            ELSE <<"Content-Disposition">>)
    \o (IF a.type THEN Line(<<"Content-Type", "part">>) ELSE <<>>)
    \o Empty
    \o IF IsUpload(a) THEN Line(<<"<">> \o Tail(a.value[1]))
       ELSE BeforeSemicolon(a.value)

Multipart(parts) ==
    Append(FlattenSeq([k \in 1..Len(parts) |-> Part(parts[k])]), CloseDelimiter)

(* strings.Join(_, "&"): the last line of one value continues in the next.  *)
JoinTwo(u, v) ==
    Front(u) \o Line(Last(u) \o <<"&">> \o v[1]) \o Tail(v)

Join(values) ==
    LET joined[k \in 1..Len(values)] ==
          IF k = 1 THEN values[1] ELSE JoinTwo(joined[k - 1], values[k])
    IN joined[Len(values)]

(* dataURLEncode: one line, in which nothing has a meaning any more.        *)
DataValue(a) == IF a.is = "urlencode" THEN <<<<"encoded">>>> ELSE a.value

HeaderLine(a) ==
    CASE a.is = "header" -> TrimEnd(a.value[1])
      [] a.is = "agent" -> <<"User-Agent">> \o a.value[1]
      [] a.is = "user" -> <<"Authorization", "encoded">>

At(ks) == [j \in 1..Len(ks) |-> seen[ks[j]]]

(* -F wins over -d, with a warning.                                        *)
Settled ==
    IF got.forms # <<>> /\ (got.data # <<>> \/ got.file # 0)
    THEN [got EXCEPT !.data = <<>>, !.file = 0, !.warned = @ \cup {0}]
    ELSE got

(* strings.ToUpper: "put" is the one method of the instances not in capitals. *)
Upper(l) == [k \in 1..Len(l) |-> IF l[k] = "put" THEN "PUT" ELSE l[k]]

MethodOf(g) ==
    CASE Explicit(g.method) ->
            IF seen[g.method].is = "head" THEN <<"HEAD">>
            ELSE Upper(seen[g.method].value[1])
      [] ~Explicit(g.method) /\ (g.data # <<>> \/ g.file # 0 \/ g.forms # <<>>) ->
            <<"POST">>
      [] OTHER -> <<"GET">>

BodyOf(g) ==
    CASE g.forms # <<>> -> Multipart(At(g.forms))
      [] g.forms = <<>> /\ g.file # 0 -> Line(<<"<">> \o Tail(seen[g.file].value[1]))
      [] g.forms = <<>> /\ g.file = 0 /\ g.data # <<>> ->
            Join([j \in 1..Len(g.data) |-> DataValue(seen[g.data[j]])])
      [] OTHER -> Empty

HeadersOf(g) ==
    [j \in 1..Len(g.headers) |-> HeaderLine(seen[g.headers[j]])]
    \o IF g.forms # <<>> THEN Line(FormType) ELSE <<>>

RequestOf(g) ==
    [method |-> MethodOf(g), url |-> seen[g.url].value[1],
     proxy |-> IF g.proxy = 0 THEN <<>> ELSE seen[g.proxy].value[1],
     headers |-> HeadersOf(g), body |-> BodyOf(g)]
=============================================================================
