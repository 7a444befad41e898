------------------------------ MODULE Convert ------------------------------
(***************************************************************************)
(* "convert from-curl" and "convert to-curl": a curl command becomes a      *)
(* request (CurlParse), the request a block of an .http file (Format),      *)
(* which the parser reads back; a block, that one or one written by hand,   *)
(* is sent by a run, or becomes a curl command again (ToCurl).  The         *)
(* reference is what curl itself sends for a command.                       *)
(***************************************************************************)
EXTENDS CurlParse, FiniteSetsExt

CONSTANTS
    Written,    \* requests of files written by hand
    Bindings,   \* what the variable of the file may stand for: a line
    Origins,    \* the pieces that begin a URL with its scheme and host
    None        \* no request, no command

VARIABLES
    bound,      \* the value of the variable
    request,    \* what Parse returned
    block,      \* what the parser made of the file
    command     \* what to-curl printed, as arguments

vars == <<phase, seen, got, bound, request, block, command>>

SomeLine == Seq(Pieces) \ {<<>>}

Request == [method : SomeLine, url : SomeLine, proxy : Seq(Pieces),
            headers : Seq(SomeLine), body : Text]

ASSUME WrittenAssumption == Written \subseteq Request
ASSUME BindingsAssumption == Bindings \subseteq Seq(Pieces)
ASSUME OriginsAssumption == Origins \subseteq Pieces \ {"schemeless"}

(* The variables of the file, filled in.                                    *)
Fill(l) ==
    FlattenSeq([k \in 1..Len(l) |-> IF l[k] = "{{var}}" THEN bound ELSE <<l[k]>>])

(* resolve and resolveProxy: the URL, and a proxy if there is one, must be   *)
(* absolute.  (The files that a body names are there.)                      *)
Absolute(l) == Fill(l) # <<>> /\ Fill(l)[1] \in Origins
Unresolvable(r) == ~Absolute(r.url) \/ (r.proxy # <<>> /\ ~Absolute(r.proxy))

Init ==
    /\ seen = <<>> /\ got = GotNothing
    /\ bound \in Bindings
    /\ request = None /\ command = None
    /\ \/ phase = "args" /\ block = None
       \/ /\ phase = "file"
          /\ \E r \in Written :
               block = [request |-> r, errors |-> Unresolvable(r), alone |-> TRUE]

conversion == <<bound, request, block, command>>

ReadArgument ==
    /\ \E a \in Args :
         \/ Dashes(a) \/ Positional(a) \/ Url(a) \/ Method(a) \/ HeadOnly(a)
         \/ Header(a) \/ Data(a) \/ Form(a) \/ Proxy(a) \/ Dropped(a)
         \/ Ignored(a)
    /\ UNCHANGED conversion

GiveUp == Refuse /\ UNCHANGED conversion

Build ==
    /\ phase = "args" /\ ValidURL
    /\ phase' = "built"
    /\ got' = Settled
    /\ request' = RequestOf(Settled)
    /\ UNCHANGED <<seen, bound, block, command>>

-----------------------------------------------------------------------------
(* The file that from-curl prints, as the parser reads it                  *)

Until(v, Test(_)) ==
    LET n == SelectInSeq(v, Test) IN IF n = 0 THEN v ELSE SubSeq(v, 1, n - 1)
Past(v, Test(_)) ==
    LET n == SelectInSeq(v, Test) IN IF n = 0 THEN <<>> ELSE SubSeq(v, n + 1, Len(v))

(* SelectSeq, for the elements of a set.                                    *)
Among(s, S) ==
    FlattenSeq([k \in 1..Len(s) |-> IF s[k] \in S THEN <<s[k]>> ELSE <<>>])

Blank(l) == l = <<>>
Separates(l) == Begins(l, "###")
Comments(l) == Begins(l, "#")
OrEmpty(v) == IF v = <<>> THEN Empty ELSE v

(* Mutated: nothing is written between the headers and the body.           *)
FormatTight(r) ==
    <<<<"###">>, <<"# @name">>>>
    \o (IF r.proxy = <<>> THEN <<>> ELSE <<<<"# @proxy">> \o r.proxy>>)
    \o <<r.method \o r.url>> \o r.headers
    \o IF r.body = Empty THEN <<>> ELSE r.body

Format(r) ==
    <<<<"###">>, <<"# @name">>>>
    \o (IF r.proxy = <<>> THEN <<>> ELSE <<<<"# @proxy">> \o r.proxy>>)
    \o <<r.method \o r.url>> \o r.headers
    \o IF r.body = Empty THEN <<>> ELSE Empty \o r.body

(* trimBody: the blank lines around a body do not belong to it.             *)
Full(v) == {k \in 1..Len(v) : v[k] # <<>>}
Trim(v) ==
    IF Full(v) = {} THEN <<>> ELSE SubSeq(v, Min(Full(v)), Max(Full(v)))

(* validateBlock, from the request line on: headers up to an empty line, and *)
(* the body.                                                               *)
HeadersIn(rest) ==
    LET written == Until(Tail(rest), Blank)
    IN Among(written, {l \in Range(written) : ~Comments(l)})
BodyIn(rest) == Past(rest, Blank)

RequestIn(rest, proxy) ==
    LET headers == HeadersIn(rest)
    IN [method |-> <<rest[1][1]>>, url |-> Tail(rest[1]), proxy |-> proxy,
        headers |-> Among(headers, {l \in Range(headers) : l[1] # "nameless"}),
        body |-> OrEmpty(Trim(BodyIn(rest)))]

(* A URL with a blank in it, which makes too many fields of the request     *)
(* line, a nameless header, a line of the body that opens a script, as      *)
(* nothing closes it, and what resolve finds.                              *)
HasErrors(rest, proxy) ==
    \/ rest[1][2] = "spaced"
    \/ \E k \in 1..Len(HeadersIn(rest)) : HeadersIn(rest)[k][1] = "nameless"
    \/ Contains(BodyIn(rest), <<"> {%">>)
    \/ Unresolvable(RequestIn(rest, proxy))

(* The first block, up to the next separator: its name, its metadata, and   *)
(* the rest.                                                               *)
ReadBlock(file) ==
    LET lines == Tail(Until(Tail(file), Separates))
        proxied == Begins(lines[1], "# @proxy")
        rest == IF proxied THEN Tail(lines) ELSE lines
        proxy == IF proxied THEN Tail(lines[1]) ELSE <<>>
    IN [request |-> RequestIn(rest, proxy), errors |-> HasErrors(rest, proxy),
        alone |-> ~\E k \in 2..Len(file) : Separates(file[k])]

(* bufio.ScanLines: a carriage return before a line end belongs to it.  (A   *)
(* line of nothing but several of them is left out.)                        *)
DropCR(l) == IF l # <<>> /\ Last(l) = "CR" THEN Front(l) ELSE l
Scanned(v) == [k \in 1..Len(v) |-> DropCR(v[k])]

WriteAndRead ==
    /\ phase = "built"
    /\ phase' = "file"
    /\ block' = ReadBlock(Scanned(Format(request)))
    /\ UNCHANGED <<seen, got, bound, request, command>>

-----------------------------------------------------------------------------
(* What a run sends for the block: parser.Resolve                          *)

FillAll(v) == [k \in 1..Len(v) |-> Fill(v[k])]

(* The name of a header stays as it is.                                    *)
FillHeaders(v) == [k \in 1..Len(v) |-> <<v[k][1]>> \o Fill(Tail(v[k]))]

(* headerValue: the first header of that name counts.                      *)
ContentTypes(headers) ==
    Among(headers, {l \in Range(headers) : l[1] = "Content-Type"})
IsMultipart(headers) ==
    /\ ContentTypes(headers) # <<>>
    /\ Begins(Tail(ContentTypes(headers)[1]), "multipart")

(* toCRLF: the line ends of a multipart body, not of the files in it.       *)
ToCRLF(v) == [k \in 1..Len(v) |-> IF k = Len(v) THEN v[k] ELSE Append(v[k], "CR")]

(* Body as Resolve has it before any file is read.                         *)
Unspliced(r) ==
    IF IsMultipart(FillHeaders(r.headers)) THEN ToCRLF(FillAll(r.body))
    ELSE FillAll(r.body)

(* Mutated: the line end after a file is lost with its marker line.        *)
SpliceWhole(v) ==
    [k \in 1..Len(v) |-> IF Begins(v[k], "<") THEN <<"bytes">> ELSE v[k]]

(* spliceFileReferences                                                    *)
Splice(v) ==
    [k \in 1..Len(v) |->
        IF ~Begins(v[k], "<") THEN v[k]
        ELSE IF Last(v[k]) = "CR" THEN <<"bytes", "CR">> ELSE <<"bytes">>]

Resolve(r) ==
    [r EXCEPT !.url = Fill(@), !.proxy = Fill(@), !.headers = FillHeaders(@),
              !.body = Splice(Unspliced(r))]

-----------------------------------------------------------------------------
(* ToCurl                                                                  *)

Argument(is, value) ==
    [is |-> is, value |-> value, filename |-> "none", type |-> FALSE]

Marks(v) == {k \in 1..Len(v) : v[k] \in {Delimiter, CloseDelimiter}}
NextMark(v, k) == Min({j \in Marks(v) : j > k})

(* parseMultipartBody: what is between two boundary lines, each a header    *)
(* and, after a blank line, content.  The last boundary begins no part.     *)
Segments(v) ==
    FlattenSeq([k \in 1..Len(v) |->
        IF k \in Marks(v) /\ \E j \in Marks(v) : j > k
        THEN <<Trim(SubSeq(v, k + 1, NextMark(v, k) - 1))>> ELSE <<>>])

PartHeader(seg) == Until(seg, Blank)
Content(seg) == Past(seg, Blank)

PartReadable(seg) ==
    /\ Contains(seg, <<>>)
    /\ \A k \in 1..Len(PartHeader(seg)) :
         PartHeader(seg)[k][1] \in {"Content-Disposition", "Content-Type"}
    /\ \E k \in 1..Len(PartHeader(seg)) : PartHeader(seg)[k][1] = "Content-Disposition"

HasParts(r) ==
    /\ ContentTypes(FillHeaders(r.headers)) # <<>>
    /\ ContentTypes(FillHeaders(r.headers))[1] = FormType
    /\ Segments(r.body) # <<>>
    /\ \A n \in 1..Len(Segments(r.body)) : PartReadable(Segments(r.body)[n])

(* wholeBodyIsFileReference                                                *)
OnlyFile(v) == Len(v) = 1 /\ Starts(v, "<")

(* Mutated: the filename= of an upload is always written.                  *)
FormFlagFullName(seg) ==
    IF OnlyFile(Content(seg))
    THEN [is |-> "form", value |-> <<<<"@">> \o Tail(Content(seg)[1])>>,
          filename |-> Last(PartHeader(seg)[1]),
          type |-> Contains(PartHeader(seg), <<"Content-Type", "part">>)]
    ELSE Argument("form", Content(seg))

(* Mutated: the filename= of an upload is left out.                        *)
FormFlagNoName(seg) ==
    IF OnlyFile(Content(seg))
    THEN [is |-> "form", value |-> <<<<"@">> \o Tail(Content(seg)[1])>>,
          filename |-> "none",
          type |-> Contains(PartHeader(seg), <<"Content-Type", "part">>)]
    ELSE Argument("form", Content(seg))

(* formatFormFlagValue: only a file keeps its type, and its filename if it  *)
(* is neither empty nor the file's own.                                    *)
FormFlag(seg) ==
    IF OnlyFile(Content(seg))
    THEN [is |-> "form", value |-> <<<<"@">> \o Tail(Content(seg)[1])>>,
          filename |-> IF Contains(PartHeader(seg), <<"Content-Disposition", "given">>)
                       THEN "given" ELSE "none",
          type |-> Contains(PartHeader(seg), <<"Content-Type", "part">>)]
    ELSE Argument("form", Content(seg))

(* The file is named by the body before anything was filled in; everything  *)
(* else is taken from the resolved request.                                *)
BodyArguments(r) ==
    CASE HasParts(r) ->
            [n \in 1..Len(Segments(r.body)) |-> FormFlag(Segments(r.body)[n])]
      [] ~HasParts(r) /\ OnlyFile(r.body) ->
            <<Argument("binary", <<<<"@">> \o Tail(r.body[1])>>)>>
      [] ~HasParts(r) /\ ~OnlyFile(r.body) /\ r.body # Empty ->
            <<Argument("raw", Unspliced(r))>>
      [] OTHER -> <<>>

HeaderArguments(r) ==
    LET filled == FillHeaders(r.headers)
        kept == Among(filled, {l \in Range(filled) : ~(HasParts(r) /\ l[1] = "Content-Type")})
    IN [k \in 1..Len(kept) |-> Argument("header", <<kept[k]>>)]

CommandOf(r) ==
    <<Argument("positional", <<Fill(r.url)>>), Argument("method", <<r.method>>)>>
    \o HeaderArguments(r)
    \o (IF r.proxy = <<>> THEN <<>> ELSE <<Argument("proxy", <<Fill(r.proxy)>>)>>)
    \o BodyArguments(r)

(* A block with an error is refused (issuesAsFatal).                       *)
ToCurl ==
    /\ phase = "file" /\ ~block.errors
    /\ phase' = "printed"
    /\ command' = CommandOf(block.request)
    /\ UNCHANGED <<seen, got, bound, request, block>>

Next == ReadArgument \/ GiveUp \/ Build \/ WriteAndRead \/ ToCurl

Spec == Init /\ [][Next]_vars

-----------------------------------------------------------------------------
TypeOK ==
    /\ phase \in {"args", "failed", "built", "file", "printed"}
    /\ seen \in Seq(Arg) /\ Len(seen) <= MaxArgs
    /\ got \in Got
    /\ bound \in Bindings
    /\ request \in Request \cup {None}
    /\ block # None => /\ block.request \in Request
                       /\ block.errors \in BOOLEAN /\ block.alone \in BOOLEAN
    /\ command # None => command \in Seq(Arg)

Converted == request # None

(* What Parse ignores without a warning, although its comment promises one  *)
(* ("warnings describes any flag that was recognized but ignored"): a URL,  *)
(* a method or a proxy that gave way to another, and "-d @" without a path. *)
(* Every other argument of the command has its place in the request, is     *)
(* warned about, or has no effect.                                         *)
Superseded(k) ==
    LET a == seen[k] IN
    \/ a.is \in {"url", "positional"} /\ \E j \in 1..Len(seen) : j > k /\ j = got.url
    \/ a.is = "method" /\ \E j \in 1..Len(seen) : j > k /\ j = got.method
    \/ a.is = "head" /\ got.method # 0
    \/ a.is = "proxy" /\ \E j \in 1..Len(seen) : j > k /\ j = got.proxy

OnlyTheseLostSilently ==
    Converted =>
        \A k \in 1..Len(seen) :
            \/ k \in got.warned \cup {got.url, got.method, got.proxy, got.file}
            \/ Contains(got.headers \o got.data \o got.forms, k)
            \/ seen[k].is \in DataKinds /\ 0 \in got.warned
            \/ seen[k].is \in {"dashes", "ignored"}
            \/ Superseded(k)
            \/ EmptyPath(seen[k])

(* The file from-curl prints is one block, which reads as the request that  *)
(* Parse returned and is refused just if its URL or its proxy is not        *)
(* absolute, unless there is a blank in the URL, a line of the body means   *)
(* something to the parser or ends in a carriage return, blank lines        *)
(* surround the body, or a header is none in a file.                       *)
Plain(r) ==
    /\ r.url[1] # "spaced"
    /\ \A k \in 1..Len(r.headers) : r.headers[k][1] \notin {"nameless", "#", "###"}
    /\ ~Contains(r.body, <<"> {%">>)
    /\ \A k \in 1..Len(r.body) :
         /\ ~Separates(r.body[k])
         /\ r.body[k] # <<>> => Last(r.body[k]) # "CR"
    /\ r.body # Empty => r.body[1] # <<>> /\ Last(r.body) # <<>>

FileHoldsRequest ==
    Converted /\ block # None /\ Plain(request) =>
        block = [request |-> request, errors |-> Unresolvable(request), alone |-> TRUE]

-----------------------------------------------------------------------------
(* What curl sends for arguments, in the terms of Resolve's result          *)

Of(args, kinds) == Among(args, {a \in Range(args) : a.is \in kinds})
WellFormed(a) ==
    a.is = "header" => ~Starts(a.value, "colonless") /\ ~Starts(a.value, "bare")

(* "You can only select one HTTP request method": -I, -d and -F exclude one  *)
(* another.                                                                *)
CurlRefuses(args) ==
    \E g, h \in {{"head"}, {"form"}, DataKinds} :
        g # h /\ Of(args, g) # <<>> /\ Of(args, h) # <<>>

(* A part as curl builds it: a value that begins with "@" or "<" is read    *)
(* from a file, the one without a filename.  An upload has a type, which    *)
(* curl guesses if the flag does not say.                                  *)
CurlPart(a) ==
    LET upload == Starts(a.value, "@")
        name == CASE a.filename = "none" -> "base" [] a.filename = "given" -> "given"
                  [] OTHER -> ""
    IN <<Delimiter,
         IF upload THEN <<"Content-Disposition", name>> ELSE <<"Content-Disposition">>>>
       \o (IF a.type THEN <<<<"Content-Type", "part">>>>
           ELSE IF upload THEN <<<<"Content-Type", "guessed">>>> ELSE <<>>)
       \o <<<<>>>>
       \o IF upload \/ Starts(a.value, "<") THEN <<<<"bytes">>>>
          ELSE BeforeSemicolon(a.value)

(* Only curl's own line ends are CRLF; those of a value stay as they are.   *)
CurlLines(p) ==
    LET own == SelectInSeq(p, Blank) IN
    [j \in 1..Len(p) |-> IF j <= own \/ j = Len(p) THEN Append(p[j], "CR") ELSE p[j]]

CurlForm(forms) ==
    FlattenSeq([k \in 1..Len(forms) |-> CurlLines(CurlPart(forms[k]))]) \o <<CloseDelimiter>>

(* Of a file that -d names, curl drops the line ends.                      *)
CurlData(a) ==
    CASE a.is = "binary" /\ Starts(a.value, "@") -> <<<<"bytes">>>>
      [] a.is = "data" /\ Starts(a.value, "@") -> <<<<"joined">>>>
      [] a.is = "urlencode" -> <<<<"encoded">>>>
      [] OTHER -> a.value

CurlBody(args) ==
    LET forms == Of(args, {"form"})
        data == Of(args, DataKinds)
    IN IF forms # <<>> THEN CurlForm(forms)
       ELSE IF data # <<>> THEN Join([k \in 1..Len(data) |-> CurlData(data[k])])
       ELSE <<<<>>>>

CurlMethod(args) ==
    LET given == Among(args, {a \in Range(args) : a.is = "method" /\ a.value # Empty}) IN
    IF given # <<>> THEN Last(given).value[1]
    ELSE IF Of(args, {"head"}) # <<>> THEN <<"HEAD">>
    ELSE IF Of(args, {"form"} \cup DataKinds) # <<>> THEN <<"POST">>
    ELSE <<"GET">>

CurlHeader(a) ==
    CASE a.is = "header" -> a.value[1]
      [] a.is = "agent" -> <<"User-Agent">> \o a.value[1]
      [] a.is = "user" -> <<"Authorization", "encoded">>

(* Of several -A, -e or -u the last counts, and none beside a -H that sets   *)
(* the same header.                                                        *)
GivesWay(sent, k) ==
    /\ sent[k].is # "header"
    /\ \E j \in 1..Len(sent) :
         \/ j > k /\ sent[j].is = sent[k].is
         \/ sent[j].is = "header" /\ CurlHeader(sent[j])[1] = CurlHeader(sent[k])[1]

HeadersGiven(args) ==
    LET sent == Of(args, {"header", "agent", "user"}) IN
    FlattenSeq([k \in 1..Len(sent) |->
        IF WellFormed(sent[k]) /\ ~GivesWay(sent, k) THEN <<CurlHeader(sent[k])>>
        ELSE <<>>])

(* -F and -d say what type the body has; a -H may say so instead of -d.     *)
CurlHeaders(args) ==
    HeadersGiven(args)
    \o CASE Of(args, {"form"}) # <<>> -> <<FormType>>
         [] /\ Of(args, {"form"}) = <<>> /\ Of(args, DataKinds) # <<>>
            /\ ContentTypes(HeadersGiven(args)) = <<>> ->
              <<<<"Content-Type", "urlencoded">>>>
         [] OTHER -> <<>>

(* Every URL is a request of its own; this is the first.                   *)
CurlUrl(args) ==
    LET urls == Of(args, {"url", "positional"}) IN
    IF urls = <<>> THEN <<>> ELSE urls[1].value[1]

CurlProxy(args) ==
    LET proxies == Of(args, {"proxy"}) IN
    IF proxies = <<>> THEN <<>> ELSE Last(proxies).value[1]

CurlSends(args) ==
    [method |-> CurlMethod(args), url |-> CurlUrl(args), proxy |-> CurlProxy(args),
     headers |-> CurlHeaders(args), body |-> CurlBody(args)]

(* The same request, wherever among the headers the Content-Type stands.    *)
Same(r, s) ==
    LET Others(v) == Among(v, {l \in Range(v) : l[1] # "Content-Type"}) IN
    /\ [r EXCEPT !.headers = Others(@)] = [s EXCEPT !.headers = Others(@)]
    /\ ContentTypes(r.headers) = ContentTypes(s.headers)

-----------------------------------------------------------------------------
(* A command that from-curl took without a warning and curl does not        *)
(* refuse, in which no flag that sets one thing is repeated, is sent by     *)
(* httpfly as curl would send it.  Left out are values with a meaning in a  *)
(* file: placeholders, lines that begin with "<", carriage returns, a       *)
(* Content-Type of one's own that says multipart or stands next to -F, and, *)
(* with -F, values of several lines; and what httpfly does not do as curl   *)
(* does: it puts a method into capitals, leaves the Content-Type of a body  *)
(* and of an upload to the command, and keeps the line ends of a -d @file.  *)
Unambiguous ==
    /\ got.warned = {} /\ ~CurlRefuses(seen)
    /\ \A kinds \in {{"url", "positional"}, {"method", "head"}, {"proxy"},
                      {"agent"}, {"user"}} :
         Len(Of(seen, kinds)) <= 1
    /\ \A k \in 1..Len(seen) : seen[k].value # Empty \/ seen[k].is \in {"head", "ignored"}

Literal(args) ==
    \A k \in 1..Len(args) :
        /\ ~Mentions(args[k].value, "{{var}}")
        /\ ~Mentions(args[k].value, "bare") /\ ~Mentions(args[k].value, "CR")
        /\ \A j \in 1..Len(args[k].value) :
             ~Begins(args[k].value[j], "<")
        /\ args[k].is = "form" => ~HasLineEnd(args[k].value)
        /\ args[k].is = "header" =>
             args[k].value[1][1] \notin {"User-Agent", "Authorization"}
        /\ args[k].is = "header" /\ args[k].value[1][1] = "Content-Type" =>
             Of(args, {"form"}) = <<>> /\ ~Begins(Tail(args[k].value[1]), "multipart")

SentTheSame(args) ==
    /\ Of(args, DataKinds) # <<>> => ContentTypes(HeadersGiven(args)) # <<>>
    /\ \A k \in 1..Len(args) :
         /\ args[k].is = "method" => Upper(args[k].value[1]) = args[k].value[1]
         /\ args[k].is = "data" => ~Starts(args[k].value, "@")
         /\ args[k].is = "binary" => ~EmptyPath(args[k])
         /\ args[k].is = "form" /\ IsUpload(args[k]) => args[k].type

SendsAsCurl ==
    Converted /\ block # None /\ ~block.errors =>
        (Plain(request) /\ Unambiguous /\ Literal(seen) /\ SentTheSame(seen) =>
            Same(Resolve(block.request), CurlSends(seen)))

(* The command to-curl prints sends what a run of the block sends, bytes of *)
(* files included.  Left out are a multipart body that is not taken apart   *)
(* into -F flags, or that holds more than its parts, a part whose text a -F *)
(* flag would not take literally, a file reference that is a line among     *)
(* others or comes from a value, carriage returns in a body, headers whose  *)
(* text curl does not take for a header it should send, and a body or an    *)
(* uploaded file without a Content-Type, to which curl adds one.            *)
TextTaken(seg) ==
    /\ PartHeader(seg) = <<<<"Content-Disposition">>>>
    /\ Len(Content(seg)) = 1
    /\ ~Starts(Content(seg), "@") /\ ~Starts(Content(seg), "<")
    /\ ~Mentions(Content(seg), ";") /\ ~Mentions(Content(seg), "{{var}}")

FileTaken(seg) ==
    /\ \E name \in {"given", "base"} :
         PartHeader(seg) = <<<<"Content-Disposition", name>>, <<"Content-Type", "part">>>>
    /\ OnlyFile(Content(seg))

(* A body that is its parts, one after the other, and nothing else.         *)
OnlyParts(body) ==
    LET segs == Segments(body) IN
    /\ body = FlattenSeq([n \in 1..Len(segs) |-> <<Delimiter>> \o segs[n]])
              \o <<CloseDelimiter>>
    /\ \A n \in 1..Len(segs) : TextTaken(segs[n]) \/ FileTaken(segs[n])

Faithful(r) ==
    /\ \A k \in 1..Len(r.headers) : r.headers[k][1] \notin {"bare", "colonless"}
    /\ ~Mentions(FillAll(r.body), "CR")
    /\ r.body # Empty => ContentTypes(r.headers) # <<>>
    /\ \/ HasParts(r) /\ OnlyParts(r.body)
          /\ Len(ContentTypes(FillHeaders(r.headers))) = 1
       \/ OnlyFile(r.body) /\ ~HasParts(r)
       \/ /\ ~IsMultipart(FillHeaders(r.headers))
          /\ \A k \in 1..Len(r.body) : ~Begins(FillAll(r.body)[k], "<")

CommandSendsSame ==
    command # None /\ Faithful(block.request) =>
        ~CurlRefuses(command) /\ Same(CurlSends(command), Resolve(block.request))

(* doc/usage.md: a command with a literal "{{name}}" in it would just be    *)
(* broken; only in the path of a file is it said to be left.               *)
PlaceholdersResolved ==
    command # None =>
        \A k \in 1..Len(command) :
            Mentions(command[k].value, "{{var}}") => Starts(command[k].value, "@")
=============================================================================
