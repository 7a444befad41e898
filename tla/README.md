# httpfly in TLA+

A specification of [httpfly](../src/README.md), the command line client for
`.http` files: what a run does with its requests and scripts, how the
variables scripts set survive from one run to the next, how placeholders are
expanded, what makes a file acceptable, and how curl commands become requests
and requests curl commands. TLC checks the modules on small instances; TLAPS
proves the properties that matter most for every value of the constants.

    tlc -config MC_RunCommand.cfg MC_RunCommand      # one of the runs below
    tlapm RunCommand_proofs.tla                      # one of the proof modules

## The system

httpfly is a sequential program: one process parses one file, handles its
requests one after the other and exits. What makes it hard is what it shares
with the world and with other runs of itself.

| Part | State it keeps | Operations | What must hold |
|---|---|---|---|
| `internal/state` | `.httpfly/state.json`, one bucket of variables per environment | `Load`, `Save` (read everything back, replace a bucket, write everything) | buckets do not mix; a save loses nothing; the file stays readable |
| `internal/script` | `GlobalState.vars`, a run's map of its bucket; a Lua machine per script | `client.global:get/set`, `RunPreScript`, `RunPostScript` | a set is visible at once and durable; a failing script stops what depends on it and nothing else |
| `cli/run.go` | the selected requests, the failure counter, the collected outcomes | `runCommand`, `sendWithScripts`, `issuesAsFatal` | what is sent is resolved with the values of that moment; report, JSON, download and exit code agree with what happened |
| `internal/client` | the direct client and a cache of proxy clients | `Send`, `clientFor` | every send ends within its timeout, goes by its own proxy, and has one result |
| `internal/parser` | none between calls | `AnalyzeWithEnv`, `ParseWithEnv`, `Resolve` | an accepted file has no request that cannot be reached or goes by a name nobody wrote |
| `internal/interpolate` | none between calls | `Apply`, `ApplyURL` | complete expansion; exact reports of undefined names and cycles; one level of escaping |
| `internal/env`, `cli/env.go` | the two environment files | `Load`, `mergeVars` | precedence of the four layers |
| `cli/validate.go` | none | `validateCommand`, `filterResult` | its exit code is what `run` would make of the file |
| `cli/convert.go`, `internal/curl` | none | `Tokenize`, `Parse`, `Format`, `ToCurl` | curl, the converted file and the command made of it send the same; what is dropped without a warning is known |
| `cli/cli.go`, `cmd/httpfly`, `cli/json.go`, `cli/version.go` | none | dispatch, exit code, output | one exit code per outcome |

They interact by calls within one process, in this order for a run: the
environment files and the bucket are loaded, the file is parsed with both,
requests are selected, and for each of them the pre-request script runs, the
request is resolved again with what scripts have stored meanwhile, sent, and
the post-request script runs on the response. `validate` and `convert to-curl`
load and parse as a run does and stop there. `convert from-curl` stands apart:
tokens, arguments, a request, a block of text, which a later command parses.
Invocations interact only through the state file, which nothing protects.

Hard to test, and what the properties aim at: two runs that overlap; a save
that is cut short; a save that fails while the value stays in memory; variables
resolved twice, at parse time and before sending, with scripts in between; a
request, a script or the download failing in the middle of a run; servers that
never answer; a client cached for a proxy that a script has changed since;
references between variables; lines whose meaning depends on what came before;
flags whose meaning depends on other flags; three texts of one body (raw,
resolved, spliced) of which a conversion needs two. `PROJECT.json` lists each
hazard at its line.

## Modules

| Module | Models |
|---|---|
| `DurableGlobals` | the promise: a durable store with one bucket per environment, one run at a time |
| `StateStore` | `internal/state` and the write path of `client.global:set`, any number of processes, step by step |
| `RunCommand` | `run`, `validate` and `convert to-curl` on a file: invocations that follow one another, from the command line to the exit code, with `internal/env` and `internal/client` |
| `Interpolate` | `internal/interpolate`, and the second resolution after a script stored something |
| `Analyze` | `splitBlocks`, `parsePrelude`, `validateBlock`, `AnalyzeWithEnv` as an automaton over lines |
| `Words` | `Tokenize`, and the quoting of `ToCurl`, on characters |
| `CurlParse` | `Parse` and the bodies it writes, on arguments |
| `Convert` | extends `CurlParse` with `Format`, the parser's reading of the block, what a run sends for it, and `ToCurl`, on lines |
| `*_proofs` | the theorems about a module and their proofs |
| `Lists_proofs` | lemmas the proofs share: induction over numbers, flattened sequences, iteration |
| `MC_*` | the instances TLC checks |

In each module the operators whose comment starts with "Mutated:" are plausible
bugs; they are used nowhere in the specification, and stand beside the
definition they alter: putting one in its place breaks a property.

### StateStore

`form` and `buckets` are the state file: what its text is (a document, nothing,
half a document) and the buckets of the last complete document. A process `p`
has the environment `env[p]`, the map `mem[p]` (`GlobalState.vars`) and, during
a save, the buckets it `read[p]` back. `Set` is the assignment in
`GlobalState.set`; `ReadBuckets`, `Truncate` and `Write` are the system calls
of `Save` in their order (`os.WriteFile` opens with truncation, then writes);
`SaveFails` is an error of any of them, `Kill` the end of the process at any
of them. Marshalling and `MkdirAll` have no effect on the file and are part of
`Truncate`; their errors are part of `SaveFails`. If two processes write at
once the longer text can stick out behind the shorter: `Write` may then leave
the file `"garbled"`. Values are tagged by the environment whose scripts store
them (`Stored`), so that a value in the wrong bucket can be seen.

`Overlap` says whether a process may start while another is alive. Nothing in
the code prevents it. The properties that need `Overlap = FALSE` are therefore
promises to a user who runs one httpfly at a time per directory; the run
`store_others` shows what happens otherwise. (Under one environment the later of
two overlapping saves also drops what the earlier one persisted: `DurableSets`
fails with `Overlap = TRUE` for the same reason.)

`Implements` is the refinement: with `store <- buckets`, `view <- mem`, the
three stages of a save mapped to the one stage "setting", and `lost` for an
unreadable file nobody is about to write, every step is a step of
`DurableGlobals` or a stutter: `Write` is the moment the set takes effect. A
save cut short is the abstract `Lose`, the one way the promise is allowed to
end; `store_killed` shows that it does end that way.

### RunCommand

`phase` is the position in `runCommand` and `sendWithScripts`. `disk` is the
bucket of the environment, `damaged` says that the state file is no document any
more, `globals` is `GlobalState.vars`, `base` is
`file.Variables` as the parser computed them at the start, `resolved` the
variables the current request was resolved with, `wire` what left, `outcomes`
and `printed` what was reported. A request is reduced to the names it needs:
those in the host of its URL (`http://{{n}}/`), those that stand for scheme and
host (`{{n}}/path`), the others. The distinction is what `url.Parse` makes: an
undefined name in a host is an error at parse time, an undefined origin is a
warning, and a value of either that is no host makes the URL invalid. (That
another undefined name of the same URL suppresses the test for an absolute URL
is left out: such a request is fatal before it is sent in either case.) A
request that `Analyze` finds an error in is `broken`, and so may the prelude
be; references are assumed free of cycles, which `Interpolate` is about.

`envs` is what `-env` finds: the public and the private file, each missing,
unreadable or read, with its `"$shared"` and the environment's own entry. `env`
merges the four layers, `EnvFails` is where `env.Load` gives up. `clients` is the
direct client and the cache of `clientFor`, each with its timeout; a request
leaves by one of them (`wire[k].by`). `ProxyOf` is the `@proxy` of a request, or
the prelude's.

`opts.command` chooses the command. All three load and parse (`LoadState`); a
run refuses a file with any error (`RejectFile`), `validate` reports on all of
it or on one request (`Validate`), `to-curl` needs one request without any issue
(`Convert`, `RefuseToConvert`). `judged` remembers what a run or an unfiltered
`validate` last said of the file, until the file or the state file changes.

Scripts are nondeterministic: any sequence of up to `MaxSets` sets, each saved
or failing (`SetGlobalFails`), any change of the file that bodies refer to, and an end with or
without an error. That the script catches the error of a failed set is
included, since the set and the end of the script are separate steps.
`Dispatch` followed by `Reply`, `BreakOff` or `TimeOut` is `client.Send`; what
`http.Client` does below it (redirects, retries on a stale connection) is one
send. The state file is seen as `DurableGlobals` has it, by invocations that
follow one another; the interleavings of several are in `StateStore`. A set that
fails leaves it as it was if the error comes before `os.WriteFile`, and
`damaged` if it comes from there, as the file has been truncated by then. From
then on every set fails, since `Save` reads the file back first, and every later
invocation stops in `RejectState`.

`RejectConfig` is an error the environment may cause at any time (an unreadable
state file or `.http` file); so are `CannotConnect`, `BreakOff` and
`DownloadFails`.

### Interpolate

A text is a sequence of tokens: `Lit` for literal characters, or the name of a
placeholder. Resolved text says of each token how often it was escaped. A step
is one call of the function `expand` hands to `ReplaceAllStringFunc`: `Literal`,
`Generate` (a dynamic variable), `Miss`, `Loop`, or `Enter`, which calls `expand`
on the value of a name; `Return` ends such a call. `call` is the call that runs,
with the `stack` of names of the code, and `callers` are those that wait for it.
`Open` starts a parameter of the query, `NextParam` and `Finish` are the loop of
`ApplyURL`.

`Init` begins the resolution the parser makes; `ScriptSet` stores a value as a
script does and begins the one before sending, whose variables the code has
merged anew (`MaxSets` bounds how often). `before` remembers the previous
resolution. `Local` are names the request declares itself, which no script can
override.

The reference definitions are written differently from the code: names that can
be reached are the least set closed under references, cycles are the elementary
ones of the graph, and the result is a repeated substitution of all
placeholders at once. The reports of cycles differ in where a cycle is entered,
so they are compared up to rotation.

### Analyze

One action per place of a line: `mode` is where `validateBlock` is, and a line
is of one of eleven kinds, or metadata. Prefix, script, headers, body and the
rest after a post-request script read the same line differently. `worst` is the
worst issue of a block; `written` and `misread` are history variables inside the
block: the names written in it, and whether a comment or metadata was taken for
its request line. That happens after a pre-request script, where only blank lines
are skipped: `#@proxy http://p` is a request line there, with an odd method, and
`#@name https://host` one whose name is not a name (`Misreadings`; whether the
value is a URL is a nondeterministic choice). A block of comments, variables and
metadata only is dropped together with its issues (`Finished`). A file without a
separator is one block and has no prelude.
Kinds are syntactic prefixes; a line that starts with `#`, `@`, `<` or `>` may
also happen to be a request line or contain a colon, which is a
nondeterministic choice where the code would look. Names of requests are
values; an empty name is `NoName`. Undefined variables and invalid URLs, the
last step of `validateBlock`, are in `RunCommand`.

### Words

A text is a sequence of classes of characters, those that some case of
`Tokenize` tells apart. `i`, `tokens`, `cur` and `inToken` are the variables of
the same names; `mode` is the loop the code is in. Each case of the switch is an
action, and the loop of a double quote one action per case of its own; the loop
of a single quote only searches and is one step. Guards follow the order of the
cases: `Escaped` is the backslash that neither continuation took. A text is
either arbitrary or what `ToCurl` writes for some arguments (`written`).

The reference, `Shell`, is not that code: it reads one character at a time and
remembers a pending backslash, as POSIX describes quoting; `ShellStates` has its
state after each character. Outside quotes it is given CRLF line ends without
their carriage return, in quotes everything as it comes. The two are compared on
texts without another carriage return outside quotes (`Comparable`), which is a
blank to httpfly and a letter to a shell.

### CurlParse and Convert

A text is a sequence of lines, a line a sequence of the pieces some code looks at
(the constant `Pieces`, of which `PiecesAssumption` names those the code writes
itself): `"@"` or `"<"` in front, `";"`, a placeholder, `"###"`, `"> {%"`, the
name of a header. An argument is a flag with its value; `Kinds` groups the flags
that `Parse` treats alike. `got` holds the local variables of `Parse` as positions
in the command, so that a property can ask what became of an argument. Each case
of the switch is an action, `Settled` and `RequestOf` are what follows the loop.
Of the commands (`Args`) it is assumed that URL, method, proxy, paths and the names
of headers have no line ends in them (`LinesAssumption`, `PathsAssumption`,
`HeadersAssumption`), that a method is one word that begins no comment in a file
(`MethodsAssumption`), that the `--` taken for a URL has no scheme
(`DashesAssumption`), and that an upload of `-F` names a path. A `-d @` without one is
in the model (`EmptyPath`), as are methods in small letters, which `Parse` puts into
capitals (`Upper`), carriage returns in data, and line ends around the value of a
header, which it trims (`TrimEnd`).

`Format` writes the block; `Scanned` is what `bufio.ScanLines` returns of its lines,
without the carriage return at an end; `ReadBlock` reads them the way
`validateBlock` does (`Analyze` has the rest of it), with the errors of `resolve` and
`resolveProxy` for a URL or a proxy that is not absolute (`Unresolvable`). `Origins`
are the pieces a URL with scheme and host begins with. `Resolve` fills in the
variable, makes line ends CRLF in multipart bodies and splices files (the names of
headers stay as they are, `FillHeaders`), and `CommandOf` is `ToCurl`: parts and file
references from the raw body, everything else from the resolved request. `Written`
are requests written by hand, with bodies `Parse` would not produce.

`CurlSends` is the reference: the request curl itself makes of arguments, from its
own rules. `-F`, `-d`, `-X` and `-I` choose the method; `-I`, `-d` and `-F` exclude one
another (`CurlRefuses`); a body of `-d` is `application/x-www-form-urlencoded` unless
a `-H` says otherwise; `-d @file` drops the line ends of the file, `--data-binary`
does not; an upload without `type=` has a guessed type; of several `-A`, `-e` or `-u`
the last one counts, and none beside a `-H` of the same name. That part models a
program outside the repository. `Among` selects from a
sequence the elements of a set: `SelectSeq` is recursive, and nothing could be
proved of it.

## What TLC checks

Every run that passes fires every action of its specification.

| Run | Question | Bounds |
|---|---|---|
| `store` | with one run at a time: no completed save loses a variable or touches another bucket; the map is never behind the file; `DurableGlobals` is implemented | 2 processes, 2 environments, 2 names, one value each |
| `store_overlap` | with overlapping runs, no value crosses environments | the same |
| `run` | see below | 2 invocations, 6 files of up to 2 requests, 12 command lines, 4 choices of environment files, 2 names, 3 values, 1 set per script |
| `expand` | reports and result of the expansion against the reference definitions, of all that `ApplyURL` expands | 3 names, each of them undeclared or one of 14 values of up to two tokens, 4 URL shapes, one set by a script |
| `file` | what an accepted file guarantees | 2 requests, 2 names, any number of lines |
| `words` | the tokenizer against a shell's quoting, and against `shellQuote` | texts of up to 5 characters of 8 classes; commands of up to 2 lines with arguments of up to 2 characters |
| `convert` | see below | commands of up to 3 arguments out of 48; 1215 requests written by hand; 2 values of the variable |

`run` checks: a request is resolved with the values of that moment
(`SentIsCurrent`) and as a separate invocation would (`SameAsSeparateRun`);
requests leave in order, at most once, and never after a failed pre-request script
(`WireMatchesReport`); the exit code is 1 exactly if something failed
(`ExitTellsFailure`); the report has every request once (`ReportsComplete`); a
received response is saved although its script fails (`DownloadKept`); names
once persisted stay unless a save is cut short, and then their script is told and
no later run starts as if nothing had been there (`NamesKept`); a request goes by the proxy its `@proxy` names
at that moment, with this run's timeout (`RouteIsCurrent`); run and validate
judge a file alike as long as nothing they read changes (`AgreeOnFile`);
`to-curl` refuses exactly what a run that gets to the request without a set would
not send, and prints the rest from the values that run would use
(`ConvertedAsSent`; what it makes of them is in `Convert`); a run with a timeout ends (`Terminates`).

`file` checks that in an accepted file every request has a name and no other
request has it (`EveryRequestReachable`), and that this is the only name written
in its block, unless the request line is really metadata (`NamesAsWritten`).

`expand` leaves out the keys of query parameters that have a value, which
`ApplyURL` copies: no placeholder in them is replaced or reported. The run
`expand_keys` shows that one is left in a URL although nothing was reported.

`convert` checks: what `Parse` ignores without a warning is an overridden URL,
method or proxy, or a `-d @` without a path, and nothing else
(`OnlyTheseLostSilently`); the printed block reads back as the request and is
refused just if its URL or proxy is not absolute (`FileHoldsRequest`); httpfly
sends for it what curl sends for the command (`SendsAsCurl`); the command `to-curl`
prints is not one curl refuses, and sends what a run of the block sends, files byte
for byte (`CommandSendsSame`).
The last three have preconditions, which name the inputs for which they do not
hold; they are listed below, since most of them are worth knowing.

Two of everything suffices where a property relates two actors: two processes
for a lost update, two environments for a leak, two requests for an order or a
repeated name, two invocations for a value that outlives the first. Three names
give cycles of length one to three, two cycles sharing a name, and a missing
name behind two others. The number of lines needs no bound, since the automaton
does not count them. `MaxRuns`, `MaxSets` and `MaxBlocks` are bounds of the
model, as are `MaxText`, `MaxWord`, `MaxLines` and `MaxArgs`; the proofs hold for
all of them.

`CHECK_DEADLOCK FALSE` is given for `RunCommand`, which stops when no
invocation is left, for `Interpolate`, which stops after the last resolution,
for `Analyze`, which stops at the end of the file, and for `Convert`, which
stops when a command is printed or refused. `Words` has a step for having
returned, so that a loop no case of which applies would be found.

Fairness is assumed in `run` only: weak fairness of `Progress`, the steps
httpfly takes on its own. It stands for three things: the process is scheduled;
scripts come to an end (a Lua loop without end is a bug of the file); and
`http.Client.Timeout`, when set, fires. A server's answer is not among them, and
without a timeout a run need not end.

### Where documents and code disagree

Each of these runs checks one statement of a document or comment and finds it
violated; `PROJECT.json` quotes the lines.

| Run | What happens |
|---|---|
| `store_others` | overlapping runs of two environments: a save puts back the other's old bucket |
| `store_killed` | a save cut short leaves a state file that every later run refuses |
| `expand_keys` | a placeholder in the key of a query parameter is sent as it stands, and an undeclared one is not reported |
| `file_comments` | a comment between pre-request script and request line becomes the request line |
| `curl_fields` | `to-curl` prints a placeholder in a multipart text field literally |

More disagreements are in the models without a run of their own.

*Runs and files.* With `-json -download`, a body that cannot be written ends the
run with nothing on stdout (`DownloadFails`; `doc/usage.md:25-29` promises the
array). A request with an undefined variable is not sent (`Fatal`), as
`doc/scripting.md` says and `doc/http-file-format.md:136-138` denies. A script
that stores a plain value for one of its names breaks a cycle of references
(`ScriptSet`), which `cycleIssues` calls impossible. Overlapping runs of one
environment undo each other's sets. A `http://{{host}}` with `host` undefined is an
error when the file is parsed (`InvalidURL`; `validate.go:482`), where
`doc/scripting.md:109-110` says that `validate` only ever warns about undefined
variables: a script that would set it gets no chance. A body line `>{%` is body
text, not a malformed script (`BodyLine`; `doc/http-file-format.md:289`). Metadata
between the pre-request script and the request line can pass for the request line
(`ReadNameForRequest`, `ReadMetadata`), and its name is then ignored. A block of
metadata only is dropped with its issues, such as an empty or contradicted `@name`
(`Finished`; `validate.go:336-338`). A file
without a separator is a request (`Init`; `parser.go:63-64`), where
`doc/http-file-format.md:39-41` says that all of it is the prelude. `run -name X` is refused for an
error in another request of the file, for which `validate -name X` reports
nothing (`FileHasErrors`, `ReportedErrors`); `to-curl` looks at neither other
requests nor the prelude's errors (`Unfit`).

*to-curl* (the preconditions of `CommandSendsSame`). An empty text field makes
`parseMultipartBody` give up on the whole body, which then goes into `--data-raw`
with its `< path` lines as text (`PartReadable`). So does a body in which a file
reference is a line among others, or comes out of a variable (`Unspliced`). A text
field that contains `;` is cut there by curl, one that begins with `@` or `<` is
read from a file, and its own part headers are lost (`FormFlag`). An empty
`filename=` is dropped. Without a closing delimiter the last part is lost
(`Segments`). Text before the first boundary or after the closing one is dropped,
and so are blank lines at either end of a part (`OnlyParts`). A header with an
empty value removes a header instead of sending one.

*from-curl* (the preconditions of `FileHoldsRequest` and `SendsAsCurl`). Bodies
are written as they are: a line `###...`, `> {%` or `< path`, a `{{name}}`, blank
lines at either end or a carriage return at the end of a line change their meaning
in the file. A URL with a blank, or a URL or proxy without a scheme, which curl
accepts, gives a file no command accepts. A Content-Type given before `-F` hides the
one with the boundary, and one that says multipart makes the line ends of `-d`
CRLF. Line ends inside a text field are made CRLF with those between the parts.

Some of what curl does httpfly leaves to the command (`SentTheSame`): the
Content-Type curl adds to `-d` is not written, nor the one it guesses for an upload;
the line ends of a `-d @file` are sent; a method is put into capitals
(`parse.go:191`). The first of these holds for `to-curl` as well: the command it
prints for a body without a Content-Type makes curl add one (`Faithful`).

A repeated `--url`, `-X` or `-x` overrides the earlier one without a warning
(`Superseded`), and `-d @` is taken for no data at all, so that the request becomes a
GET (`EmptyPath`), although `parse.go:45-47` says that warnings describe any flag
that was ignored. `--data-urlencode name=a@b` is dropped, with a warning (`HasAt`).

## What is proved

All theorems hold for every value of the constants, under the named assumptions
of the modules (that sentinels are no values, bounds are numbers, and files,
options and environments are of their types).

**StateStore_proofs.** `TypeCorrect`. `Isolation`: `EnvIsolation`, overlapping
or not. It is not inductive alone, as a save writes what it has read: `Isolated`
adds that each bucket a process holds in `read` is of its environment.
`MemoryNeverBehind`, `SavesTouchNoOther`, `SavesAreDurable` and
`ImplementsDurableGlobals` assume `Overlap = FALSE`. They rest on `Serial`: at
most one process is alive; what it has read is still what the file has; and its
map has every name of its bucket. The refinement has one lemma per direction
(initial state, step), with a case per action.

**RunCommand_proofs.** `TypeCorrect` needs `Shaped`, which says that while a
request is handled there is one, and that it has a verdict when it is
reported. `RequestsAreCurrent` (`SentIsCurrent`) and `OneRunOrSeveral`
(`SameAsSeparateRun`) follow from `Fresh`: `base` is prelude, environment and
some older persisted values; every name those have is still in `globals`, so
merging `globals` over `base` hides them; `globals` and `disk` are equal until a
save fails. `PersistedNamesKept` (`NamesKept`) is the same argument for `disk`, as
long as no save is cut short: a step that is takes every name away and leaves the
file `damaged`, and `LoadState` cannot be taken any more.

`RoutesAreCurrent` (`RouteIsCurrent`) needs that every cached client has this run's
timeout. `ConversionsComplete` (`ConvertedAsSent`) needs that `globals` equals
`disk` until a request is started: what `to-curl` tests is then what the test before
sending (`Fatal`) would say of the same values. `CommandsAgree` (`AgreeOnFile`) rests on an
invariant that ties a judgement to what it was made of: `judged` is "bad" exactly
if the file, with the prelude, the environment and the persisted values as they
are now, has errors; so it cannot change unless one of them does.

What a run says of itself has invariants of its own. `ReportMatchesWire`
(`WireMatchesReport`) rests on `Wired`: a request leaves at most one ahead of
the results, and does so only in the phases from `wait` on, so that what waits
for its result left exactly if it has a response. `ExitCodeTells` (`ExitTellsFailure`)
and `DownloadsKept` (`DownloadKept`) follow from `Told`: `failed` is positive
exactly if some result is bad, only the end of a command sets an error, and with
`-download` there is a single request. `EveryResultReported` (`ReportsComplete`)
follows from `Shown`: the results so far stand for the first of the selected
requests, and there is an increasing function from what is printed to the
results it prints, which leaves out what `-silent` leaves out and nothing else;
a step that adds a result extends it or leaves it as it is.

**Words_proofs.** `TypeCorrect`: on a text of any length no index leaves the
text, although three cases look ahead, and nothing is collected outside a token;
`Inside` adds that a double quote is read inside a token. `LoopAdvances`: each
step moves on in the text or returns. `TokenizesAsShell` (`MatchesShell`) relates
the two scanners step by step: `Matched` says that before each step of
`Tokenize` the shell, having read the same characters, has the same words and is
in the same place, or is beside it in one of three ways: a backslash in double
quotes that the shell still remembers, a backslash at the end of the text, or a
word ended at the carriage return of a line end. `ArgumentsSurvive`
(`QuotedArgumentsSurvive`) goes through the shell as well: from what it has read
it gets over what `ToCurl` writes for an argument with that argument as one more
word (`TakesQuoted`), so over a whole command with all of them (`TakesCommand`);
such a command has no stray carriage return outside quotes, so the first theorem
says that `Tokenize` returns the same. Both hold for arguments and texts of any
length; the bounds of `Init` are arbitrary numbers.

**Analyze_proofs.** `Soundness`: the invariant `Sound`, which says of the block
being read what `Accepted` blocks must have, and of every pair of finished
blocks that the later one of a repeated name has an error. `TypeCorrect`,
`Reachable` and `NamesTrue` are its consequences; the latter is about the blocks
whose request line is none of their metadata.

**Convert_proofs.** Nothing here is bounded: commands, headers, bodies and the
lines they are made of have any length. The inductive invariant is `Converting`,
of these parts:

- `Kept` says of each argument read so far where it is: among the data, the
  headers or the parts of a form, behind one of the positions `Parse` keeps, warned
  about, without effect, without a path, or before a later one of its kind; with
  `Sorted`, that a position `Parse` keeps is one of an argument of its kind. Without
  it a replaced argument could have given way to one of another kind. This is
  `SilentlyLost` (`OnlyTheseLostSilently`).
- `Filed` adds what `Parse` has checked of the values behind these positions, which
  is why what `RequestOf` builds from them is a request (`Writable`).
- `Phases`, `HasRequest`, `HasBlock`, `HasCommand` say that request, block and command
  are made one of the other. With these, `TypeCorrect` is left with the types
  of what `Format`, `ReadBlock` and `ToCurl` make of any text.

`FileReadsBack` (`FileHoldsRequest`) undoes `Format` piece by piece: `Until` and
`Past` cut the headers off at the blank line, as no header is one, `Trim` gives
back a body that no blank lines surround, and no header or body line is taken for
a comment or a separator; as no line of a plain request ends in a carriage return,
`Scanned` leaves them as they are. `Writable`, which each request `Parse` returns
is, has what that needs of the request line. What is left of the errors is
`Unresolvable`, of the URL and the proxy that were given.

`SentAsCurl` (`SendsAsCurl`) needs one thing more, `Ordered`: as long as there is
no warning, the positions kept for headers, parts and data are those of all
arguments of that kind, in their order. (A condition on the warnings, because
`-d` after a file is dropped with one.) Then what `Parse` builds from positions is
what curl takes from the arguments (`Unwarned`); no placeholder or file reference
is in it but those `Parse` writes, so that `Resolve` leaves URL, headers and data
as they are. In a multipart body each line becomes `WithCR` of itself: its end CRLF,
or a file in its place; as this is done line by line, and a body is its parts one
after the other (`FlatMapped`), it is enough to look at a part. `SentTheSame` takes
out what curl would add or change: with it the reference has no Content-Type but
the given one or that of the form.

`CommandFaithful` (`CommandSendsSame`) takes the printed command apart into groups
of arguments of one kind (`CommandAmong`), so that URL, method, proxy and headers
can be compared one at a time, the headers but for the place of the Content-Type.
For a multipart body `PartBack` says of each part that the `-F` flag made of it
makes curl write that part again. The printed command has `-F` or data, never both
and never `-I`, so curl takes it (`NotRefused`).

**Interpolate_proofs.** `Depths` is the invariant about the calls of `expand`: a
call's stack is as long as there are callers, no name is on it twice, and only
outermost calls escape. `TypeCorrect`, `NestingIsBounded` (`NestingBounded`: an
injective sequence of names is no longer than there are names) and
`EscapingConfined` (`EscapedInQueryOnly`) are its consequences. Of the next two the
keys of parameters with a value are no part: `ApplyURL` does not expand them.
`MissingIsExact` (`MissingExact`) has one invariant per direction: `Reached`, that whatever is
still to be read or was reported can be reached from the request; and `Followed`,
that there is a set of names seen so far, each of which leads only to names in it
or still to be read. When nothing is left to be read that set is closed, so the
least closed set is part of it. `SettingRepairs` (`SetRepairs`) then compares two
least closed sets, those before and after a literal text is stored.
`ExpandsCompletely` (`CompleteWhenSilent`) says that the result is the one of the
reference. The reference substitutes everything at once as often as there are
names, the code one placeholder at a time to any depth; the two meet because
substitution treats the tokens of a text one by one. `Wanted` is what a text is to
become at some depth, with as many substitutions left as there are names not on
the stack. `OnTheWay`: as long as nothing is reported, what a call has so far,
with what is wanted of the name it waits for and of its rest, is what its caller
needs, and of the outermost call what `ApplyURL` is to return. It uses that a
caller's stack is the beginning of the stack of the call (`StacksAgree`).

**Cycles_proofs.** `CyclesAreExact` (`CyclesExact`). That nothing else is reported
follows from `AllOnWay`: every stack is a way through the graph that begins at a
name of the request, so a name met again on it closes an elementary cycle
(`CyclesFound`). That no cycle is passed over needs `AllWalked`: there is a set of
stacks, those there have been, from each of which every declared name it leads
to has been entered with the name put on the stack, reported as a cycle, or is
still to be read. When nothing is left to be read, each name that can be reached
has been entered (`EveryNameEntered`). Take an elementary cycle and the shortest
stack that ends in a name of it: each step around the cycle is in the set too,
and the last one reports it, rotated to where it was entered (`EveryCycleTold`).

**Lists_proofs.** Lemmas the others share. The induction theorems of the library
take an operator, which the provers cannot instantiate; `Counting` states
induction for a set of numbers instead, from the well-foundedness of `<`. With it
recursive functions are shown to exist (`SomethingGathers`, `Iterated`) and what
`FlattenSeq` gathers is characterised (`Flattened`, `FlatAppend`, `FlatJoined`).

Every invariant the runs check is a theorem. Only model-checked is `Terminates`:
liveness under fairness is beyond the prover. `DurableGlobals`, the abstract
store, has no theorem of its own: `ImplementsDurableGlobals` is about it.

## What is not modelled, and the plan

Not modelled: the Lua machine and its libraries beyond `client.global`; HTTP below
`Send`; TLS details, layout of the reports, usage texts and the version; JSON
text; in the conversions the leading `curl`, the `--flag=value` spelling and what
looks like a flag after `--`; line ends in the URL, the method or the proxy of a
command, and methods that are no single word; `$'...'` quoting, which the
tokenizer does not know. In `Convert` a file that is referenced exists;
`RunCommand` has the missing ones. The next steps, in order:

1. A composition of `StateStore` and `RunCommand` in which invocations of
   different commands overlap, and its refinement.
2. The cut of a request line and of metadata into words, on characters, as
   `Words` does it for commands.
