----------------------------- MODULE RunCommand -----------------------------
(***************************************************************************)
(* The commands that take an .http file: "run" (cli.runCommand and         *)
(* sendWithScripts), "validate" and "convert to-curl", with what they call *)
(* in parser (ParseWithEnv, Resolve), env (Load), script (the pre- and     *)
(* post-request scripts and client.global) and client (Send, clientFor).   *)
(* Invocations follow one another and share the state file, of which this  *)
(* module sees the bucket of their environment (disk): DurableGlobals,     *)
(* which StateStore implements.  Interpolate has the expansion of          *)
(* placeholders; here a request has the names it needs: in its host, for   *)
(* its origin, for its proxy, elsewhere.                                   *)
(***************************************************************************)
EXTENDS Naturals, Sequences, SequencesExt

CONSTANTS
    Names,       \* names of variables
    Values,      \* values of variables
    Hosts,       \* the values that make a URL absolute
    Unset,       \* stands for a name that has no value
    Ids,         \* @name of requests
    Plans,       \* the .http files: a prelude and a sequence of requests
    EnvFiles,    \* what -env finds: [given, public, private]
    Options,     \* command lines
    Direct,      \* stands for no proxy
    AnyName,     \* the -name that is not given
    MaxRuns,     \* bound: invocations
    MaxSets      \* bound: calls of client.global:set of one script

ASSUME UnsetAssumption == Unset \notin Values
ASSUME DirectAssumption == Direct \notin Names \cup Values \cup {Unset}
ASSUME HostsAssumption == Hosts \subseteq Values
ASSUME BoundsAssumption == MaxRuns \in Nat /\ MaxSets \in Nat

Bucket == [Names -> Values \cup {Unset}]
Nothing == [n \in Names |-> Unset]

(* httpfile.Request: the names in the host of its URL ("http://{{n}}/"),    *)
(* those that stand for scheme and host ("{{n}}/path") and the others, its  *)
(* own @proxy, its own variables, whether its body is read from a file, its *)
(* scripts, and whether it is malformed (Analyze).                          *)
Request == [id : Ids, host : SUBSET Names, origin : SUBSET Names,
            uses : SUBSET Names, proxy : Names \cup {Direct}, local : Bucket,
            file : BOOLEAN, pre : BOOLEAN, post : BOOLEAN, broken : BOOLEAN]

(* The prelude has variables, an @proxy for every request that has none of  *)
(* its own, and may have errors.                                            *)
Plan == [prelude : Bucket, proxy : Names \cup {Direct}, broken : BOOLEAN,
         requests : Seq(Request)]

(* -timeout is negative, zero (none) or positive; validate and to-curl have *)
(* -name only.                                                              *)
Timeouts == {"negative", "none", "some"}
Option == [command : {"run", "validate", "to-curl"},
           silent : BOOLEAN, json : BOOLEAN, download : BOOLEAN,
           name : Ids \cup {AnyName}, timeout : Timeouts]

(* http-client.env.json and its private sibling: "$shared", and whether the *)
(* environment of -env is listed and with which variables.                  *)
EnvFile == [state : {"missing", "unreadable", "read"}, shared : Bucket,
            listed : BOOLEAN, own : Bucket]
EnvChoice == [given : BOOLEAN, public : EnvFile, private : EnvFile]

ASSUME PlansAssumption == Plans \subseteq Plan
ASSUME EnvAssumption == EnvFiles \subseteq EnvChoice
ASSUME OptionsAssumption == Options \subseteq Option

VARIABLES
    phase,       \* where runCommand is
    opts, plan,  \* the command line and the file of this invocation
    envs,        \* -env and the environment files
    runs,        \* invocations so far
    disk,        \* the persisted bucket
    damaged,     \* a save was cut short: the state file does not parse
    globals,     \* GlobalState.vars
    unsaved,     \* a set of this invocation could not be saved
    present,     \* the file that bodies refer to can be read
    base,        \* file.Variables
    todo,        \* the selected requests
    sets,        \* calls of set by the running script
    resolved,    \* the variables as the current request was resolved
    verdict,     \* how the current request went
    clients,     \* the http.Clients of client.Client, by their proxy
    wire,        \* the requests that left, in order
    outcomes,    \* how each request went, in order
    failed,      \* the counter of the same name
    printed,     \* the results on stdout
    saved,       \* the -download file was written
    abort,       \* why runCommand returned early, "no" if it did not
    exit,        \* the exit code
    judged       \* what was last said of plan since it or disk changed

invocation == <<opts, plan, envs, runs>>
store == <<disk, damaged, globals, unsaved>>
results == <<outcomes, failed, printed, saved>>
network == <<clients, wire>>
vars == <<phase, invocation, store, present, base, todo, sets, resolved,
          verdict, network, results, abort, exit, judged>>

Phases == {"idle", "flags", "parse", "select", "next", "pre", "resolve",
           "send", "wait", "post", "report", "done"}
Verdicts == {"none", "ok", "script", "pre", "unresolved", "transport"}
Aborts == {"no", "flags", "config", "parse", "select", "convert", "download"}

Outcome == [id : Ids, verdict : Verdicts \ {"none"}]
Client == [via : Values \cup {Unset, Direct}, timeout : Timeouts]
Sent == [at : Nat \ {0}, seen : Bucket, by : Client]

(* mergeVars: the second map's entries over the first's.                    *)
Merge(low, high) ==
    [n \in Names |-> IF high[n] # Unset THEN high[n] ELSE low[n]]

(* env.Load: each file's own entry over its "$shared", the private file     *)
(* over the public one.                                                     *)
Listed(file) == file.state = "read" /\ file.listed
Shared(file) == IF file.state = "read" THEN file.shared ELSE Nothing
Own(file) == IF Listed(file) THEN file.own ELSE Nothing

EnvFails ==
    /\ envs.given
    /\ \/ envs.public.state # "read"
       \/ envs.private.state = "unreadable"
       \/ ~Listed(envs.public) /\ ~Listed(envs.private)

env ==
    IF envs.given
    THEN Merge(Merge(Merge(Shared(envs.public), Own(envs.public)),
                     Shared(envs.private)), Own(envs.private))
    ELSE Nothing

current == todo[Len(outcomes) + 1]

ProxyOf(r) == IF r.proxy # Direct THEN r.proxy ELSE plan.proxy

(* Result.Err == nil: there is a response, whatever its script did next.    *)
Responded(v) == v \in {"ok", "script"}

TypeOK ==
    /\ phase \in Phases
    /\ opts \in Options /\ plan \in Plans /\ envs \in EnvFiles
    /\ runs \in 0..MaxRuns
    /\ disk \in Bucket /\ damaged \in BOOLEAN
    /\ globals \in Bucket /\ unsaved \in BOOLEAN
    /\ present \in BOOLEAN
    /\ base \in Bucket
    /\ todo \in Seq(Request)
    /\ sets \in 0..MaxSets
    /\ resolved \in Bucket
    /\ verdict \in Verdicts
    /\ clients \subseteq Client
    /\ wire \in Seq(Sent)
    /\ outcomes \in Seq(Outcome)
    /\ failed \in Nat
    /\ printed \in Seq(Outcome)
    /\ saved \in BOOLEAN
    /\ abort \in Aborts
    /\ exit \in {0, 1}
    /\ judged \in {"unknown", "good", "bad"}

Init ==
    /\ phase = "idle"
    /\ opts \in Options /\ plan \in Plans /\ envs \in EnvFiles
    /\ runs = 0
    /\ disk = Nothing /\ damaged = FALSE
    /\ globals = Nothing /\ unsaved = FALSE
    /\ present \in BOOLEAN
    /\ base = Nothing
    /\ todo = <<>> /\ sets = 0 /\ resolved = Nothing /\ verdict = "none"
    /\ clients = {} /\ wire = <<>>
    /\ outcomes = <<>> /\ failed = 0 /\ printed = <<>>
    /\ saved = FALSE /\ abort = "no" /\ exit = 0 /\ judged = "unknown"

-----------------------------------------------------------------------------
(* From the command line to the first request                              *)

Invoke(o, f) ==
    /\ phase \in {"idle", "done"} /\ runs < MaxRuns
    /\ phase' = "flags"
    /\ opts' = o /\ plan' = f /\ runs' = runs + 1
    /\ globals' = Nothing /\ unsaved' = FALSE /\ base' = Nothing
    /\ todo' = <<>> /\ sets' = 0 /\ resolved' = Nothing /\ verdict' = "none"
    /\ clients' = {} /\ wire' = <<>>
    /\ outcomes' = <<>> /\ failed' = 0 /\ printed' = <<>>
    /\ saved' = FALSE /\ abort' = "no" /\ exit' = 0
    /\ judged' = IF f = plan THEN judged ELSE "unknown"
    /\ UNCHANGED <<envs, disk, damaged, present>>

(* An error that ends the command: main prints it and exits with 1.         *)
Abort(reason) ==
    /\ phase' = "done" /\ abort' = reason /\ exit' = 1
    /\ UNCHANGED <<invocation, store, present, base, todo, sets, resolved,
                   verdict, network, results>>

FlagsClash ==
    /\ opts.command = "run"
    /\ \/ opts.silent /\ (opts.json \/ opts.download)
       \/ opts.timeout = "negative"

RejectFlags ==
    /\ phase = "flags" /\ FlagsClash
    /\ Abort("flags") /\ UNCHANGED judged

RejectEnv ==
    /\ phase = "flags" /\ ~FlagsClash /\ EnvFails
    /\ Abort("config") /\ UNCHANGED judged

(* The state file or the .http file cannot be opened.                       *)
RejectConfig ==
    /\ phase = "flags" /\ ~FlagsClash /\ ~EnvFails
    /\ Abort("config") /\ UNCHANGED judged

(* What the state file holds is no JSON document.                           *)
RejectState ==
    /\ phase = "flags" /\ ~FlagsClash /\ ~EnvFails /\ damaged
    /\ Abort("config") /\ UNCHANGED judged

(* Mutated: the globals of the run start empty.                             *)
LoadNoGlobals ==
    /\ phase = "flags" /\ ~FlagsClash /\ ~EnvFails /\ ~damaged
    /\ phase' = "parse"
    /\ base' = Merge(plan.prelude, env)
    /\ UNCHANGED <<invocation, store, present, todo, sets, resolved,
                   verdict, network, results, abort, exit, judged>>

(* state.Load, and the variables AnalyzeWithEnv gives the whole file.       *)
LoadState ==
    /\ phase = "flags" /\ ~FlagsClash /\ ~EnvFails /\ ~damaged
    /\ phase' = "parse"
    /\ globals' = disk
    /\ base' = Merge(plan.prelude, Merge(env, disk))
    /\ UNCHANGED <<invocation, disk, damaged, unsaved, present, todo, sets, resolved,
                   verdict, network, results, abort, exit, judged>>

Placeholders(r) ==
    r.host \cup r.origin \cup r.uses \cup ({ProxyOf(r)} \ {Direct})

(* A host that is undefined makes url.Parse fail, and a value that is no    *)
(* host, origin or proxy fails there or is no absolute URL: an error, where *)
(* an undefined name elsewhere, or a file that cannot be opened, is a       *)
(* warning.                                                                 *)
Undefined(r, v) == {n \in Placeholders(r) : v[n] = Unset}

InvalidURL(r, v) ==
    \/ \E n \in r.host : v[n] \notin Hosts
    \/ \E n \in r.origin \cup ({ProxyOf(r)} \ {Direct}) :
          v[n] \notin Hosts \cup {Unset}

(* BlockResult.HasErrors, with the variables of parse time.                 *)
HasErrors(r) == r.broken \/ InvalidURL(r, Merge(base, r.local))

(* ParseWithEnv refuses the whole file for one request, -name or not.       *)
FileHasErrors == plan.broken \/ \E r \in Range(plan.requests) : HasErrors(r)

RejectFile ==
    /\ phase = "parse" /\ opts.command = "run" /\ FileHasErrors
    /\ judged' = "bad"
    /\ Abort("parse")

AcceptFile ==
    /\ phase = "parse" /\ opts.command = "run" /\ ~FileHasErrors
    /\ phase' = "select"
    /\ judged' = "good"
    /\ UNCHANGED <<invocation, store, present, base, todo, sets, resolved,
                   verdict, network, results, abort, exit>>

(* selectRequests: every request, or the first of that name.                *)
Named == {k \in 1..Len(plan.requests) : plan.requests[k].id = opts.name}
FirstNamed == {k \in Named : \A j \in Named : k <= j}

Selections ==
    IF opts.name = AnyName THEN {plan.requests}
    ELSE {<<plan.requests[k]>> : k \in FirstNamed}

(* "httpfly validate": the issues of the prelude and of every request, or   *)
(* of the one of that name (filterResult).                                  *)
ValidateNothing ==
    /\ phase = "parse" /\ opts.command = "validate" /\ Selections = {}
    /\ Abort("select") /\ UNCHANGED judged

Reported == UNION {Range(s) : s \in Selections}

(* Mutated: without -name, an error in the prelude is not looked at.        *)
RequestErrors == \E r \in Reported : HasErrors(r)

ReportedErrors == plan.broken \/ \E r \in Reported : HasErrors(r)

Validate ==
    /\ phase = "parse" /\ opts.command = "validate" /\ Selections # {}
    /\ phase' = "done"
    /\ abort' = IF ReportedErrors THEN "parse" ELSE "no"
    /\ exit' = IF ReportedErrors THEN 1 ELSE 0
    /\ judged' = IF opts.name # AnyName THEN judged
                 ELSE IF ReportedErrors THEN "bad" ELSE "good"
    /\ UNCHANGED <<invocation, store, present, base, todo, sets, resolved,
                   verdict, network, results>>

NothingToSelect ==
    \/ Selections = {}
    \/ opts.download /\ \A s \in Selections : Len(s) # 1

RejectSelection ==
    /\ phase = "select" /\ NothingToSelect
    /\ Abort("select") /\ UNCHANGED judged

(* With client.New, whose HTTP.Timeout is set before the first Send.        *)
Select ==
    /\ phase = "select" /\ ~NothingToSelect
    /\ phase' = "next"
    /\ todo' \in Selections
    /\ clients' = {[via |-> Direct, timeout |-> opts.timeout]}
    /\ UNCHANGED <<invocation, store, present, base, sets, resolved, verdict,
                   wire, results, abort, exit, judged>>

-----------------------------------------------------------------------------
(* One request: sendWithScripts                                             *)

StartRequest ==
    /\ phase = "next" /\ Len(outcomes) < Len(todo)
    /\ phase' = IF current.pre THEN "pre" ELSE "resolve"
    /\ sets' = 0 /\ verdict' = "none"
    /\ UNCHANGED <<invocation, store, present, base, todo, resolved, network,
                   results, abort, exit, judged>>

InScript == phase \in {"pre", "post"}

(* Mutated: the set reaches the file when the run ends, not at once.        *)
SetLater(n, v) ==
    /\ InScript /\ sets < MaxSets
    /\ sets' = sets + 1
    /\ globals' = [globals EXCEPT ![n] = v]
    /\ UNCHANGED <<phase, invocation, disk, damaged, unsaved, present, base,
                   todo, resolved, verdict, network, results, abort, exit, judged>>

(* client.global:set reaches the map and the file before it returns: Save   *)
(* reads the file back and writes it whole ...                              *)
SetGlobal(n, v) ==
    /\ InScript /\ sets < MaxSets /\ ~damaged
    /\ sets' = sets + 1
    /\ globals' = [globals EXCEPT ![n] = v]
    /\ disk' = globals'
    /\ judged' = IF disk' = disk THEN judged ELSE "unknown"
    /\ UNCHANGED <<phase, invocation, damaged, unsaved, present, base, todo,
                   resolved, verdict, network, results, abort, exit>>

(* ... or raises an error, which the script may catch, and leaves the value *)
(* in the map.  Reading back and opening the file leave it as it was; a     *)
(* write that fails has emptied it first (os.WriteFile).                    *)
SetGlobalFails(n, v) ==
    /\ InScript /\ sets < MaxSets
    /\ sets' = sets + 1
    /\ globals' = [globals EXCEPT ![n] = v]
    /\ unsaved' = TRUE
    /\ \/ UNCHANGED <<disk, damaged, judged>>
       \/ /\ ~damaged /\ damaged' = TRUE
          /\ disk' = Nothing
          /\ judged' = IF disk' = disk THEN judged ELSE "unknown"
    /\ UNCHANGED <<phase, invocation, present, base, todo, resolved, verdict,
                   network, results, abort, exit>>

(* A script may create or remove files.                                     *)
ScriptTouchesFile ==
    /\ InScript
    /\ present' = ~present
    /\ UNCHANGED <<phase, invocation, store, base, todo, sets, resolved,
                   verdict, network, results, abort, exit, judged>>

PreScriptEnds ==
    /\ phase = "pre"
    /\ \/ phase' = "resolve" /\ UNCHANGED verdict
       \/ phase' = "report" /\ verdict' = "pre"
    /\ UNCHANGED <<invocation, store, present, base, todo, sets, resolved,
                   network, results, abort, exit, judged>>

Needed(r) == Merge(Merge(base, globals), r.local)

(* issuesAsFatal: what was a warning when the file was parsed is none now.  *)
Fatal(r, v) ==
    \/ Undefined(r, v) # {}
    \/ InvalidURL(r, v)
    \/ r.file /\ ~present

(* "httpfly convert to-curl": one request, printed as it resolves from what  *)
(* is known without running a script.                                        *)
Convertible == {s \in Selections : Len(s) = 1}

Unfit(r) == r.broken \/ Fatal(r, Merge(base, r.local))

ConvertNothing ==
    /\ phase = "parse" /\ opts.command = "to-curl" /\ Convertible = {}
    /\ Abort("select") /\ UNCHANGED judged

RefuseToConvert ==
    /\ phase = "parse" /\ opts.command = "to-curl"
    /\ \E s \in Convertible : Unfit(s[1])
    /\ Abort("convert") /\ UNCHANGED judged

(* Mutated: a request with issues is printed all the same.                   *)
ConvertDespiteIssues ==
    /\ phase = "parse" /\ opts.command = "to-curl"
    /\ phase' = "done"
    /\ todo' \in Convertible /\ ~todo'[1].broken
    /\ resolved' = Merge(base, todo'[1].local)
    /\ UNCHANGED <<invocation, store, present, base, sets, verdict, network,
                   results, abort, exit, judged>>

Convert ==
    /\ phase = "parse" /\ opts.command = "to-curl"
    /\ phase' = "done"
    /\ todo' \in Convertible /\ ~Unfit(todo'[1])
    /\ resolved' = Merge(base, todo'[1].local)
    /\ UNCHANGED <<invocation, store, present, base, sets, verdict, network,
                   results, abort, exit, judged>>

(* Mutated: what the file said when it was parsed is what is sent.          *)
ResolveAtParse ==
    /\ phase = "resolve"
    /\ resolved' = Merge(base, current.local)
    /\ \/ Fatal(current, resolved') /\ phase' = "report" /\ verdict' = "unresolved"
       \/ ~Fatal(current, resolved') /\ phase' = "send" /\ UNCHANGED verdict
    /\ UNCHANGED <<invocation, store, present, base, todo, sets, network,
                   results, abort, exit, judged>>

Resolve ==
    /\ phase = "resolve"
    /\ resolved' = Needed(current)
    /\ \/ Fatal(current, resolved') /\ phase' = "report" /\ verdict' = "unresolved"
       \/ ~Fatal(current, resolved') /\ phase' = "send" /\ UNCHANGED verdict
    /\ UNCHANGED <<invocation, store, present, base, todo, sets, network,
                   results, abort, exit, judged>>

(* clientFor: the direct client, the one cached for that proxy, or a new    *)
(* one with the timeout of the direct client.                               *)
Route(r, v) == IF ProxyOf(r) = Direct THEN Direct ELSE v[ProxyOf(r)]

ClientsOf(proxy) == {c \in clients : c.via = proxy}

(* Mutated: any client that goes through a proxy is good for every proxy.   *)
ClientForAnyProxy(proxy) ==
    IF proxy # Direct /\ clients # ClientsOf(Direct)
    THEN clients \ ClientsOf(Direct)
    ELSE {[via |-> proxy, timeout |-> c.timeout] : c \in ClientsOf(Direct)}

ClientFor(proxy) ==
    IF ClientsOf(proxy) # {} THEN ClientsOf(proxy)
    ELSE {[via |-> proxy, timeout |-> c.timeout] : c \in ClientsOf(Direct)}

(* client.Send: the request leaves ...                                      *)
Dispatch ==
    /\ phase = "send"
    /\ phase' = "wait"
    /\ \E c \in ClientFor(Route(current, resolved)) :
         /\ clients' = clients \cup {c}
         /\ wire' = Append(wire,
              [at |-> Len(outcomes) + 1, seen |-> resolved, by |-> c])
    /\ UNCHANGED <<invocation, store, present, base, todo, sets, resolved,
                   verdict, results, abort, exit, judged>>

(* ... unless no connection can be had, or the request cannot be built.     *)
CannotConnect ==
    /\ phase = "send"
    /\ phase' = "report" /\ verdict' = "transport"
    /\ \E c \in ClientFor(Route(current, resolved)) :
         clients' = clients \cup {c}
    /\ UNCHANGED <<invocation, store, present, base, todo, sets, resolved,
                   wire, results, abort, exit, judged>>

Reply ==
    /\ phase = "wait"
    /\ verdict' = "ok"
    /\ phase' = IF current.post THEN "post" ELSE "report"
    /\ sets' = 0
    /\ UNCHANGED <<invocation, store, present, base, todo, resolved, network,
                   results, abort, exit, judged>>

(* Mutated: a request whose answer was cut off is sent again.               *)
SendAgain ==
    /\ phase = "wait"
    /\ phase' = "send"
    /\ UNCHANGED <<invocation, store, present, base, todo, sets, resolved,
                   verdict, network, results, abort, exit, judged>>

(* The connection breaks before the whole body was read.                    *)
BreakOff ==
    /\ phase = "wait"
    /\ phase' = "report" /\ verdict' = "transport"
    /\ UNCHANGED <<invocation, store, present, base, todo, sets, resolved,
                   network, results, abort, exit, judged>>

(* Mutated: the timer runs when there is no timeout, not when there is.     *)
TimeOutInverted ==
    /\ phase = "wait" /\ Last(wire).by.timeout = "none"
    /\ BreakOff

(* http.Client.Timeout: with -timeout 0 there is none.                      *)
TimeOut ==
    /\ phase = "wait" /\ Last(wire).by.timeout = "some"
    /\ BreakOff

PostScriptEnds ==
    /\ phase = "post"
    /\ phase' = "report"
    /\ verdict' \in {"ok", "script"}
    /\ UNCHANGED <<invocation, store, present, base, todo, sets, resolved,
                   network, results, abort, exit, judged>>

-----------------------------------------------------------------------------
(* Its result, and the end of the run                                       *)

Shows(o) == ~opts.json /\ (opts.silent => Responded(o.verdict))

(* Mutated: only requests that were not sent count as failed.               *)
ReportSendsOnly ==
    /\ phase = "report"
    /\ phase' = "next"
    /\ LET o == [id |-> current.id, verdict |-> verdict] IN
         /\ outcomes' = Append(outcomes, o)
         /\ printed' = IF Shows(o) THEN Append(printed, o) ELSE printed
    /\ failed' = IF Responded(verdict) THEN failed ELSE failed + 1
    /\ saved' = (opts.download /\ Responded(verdict))
    /\ UNCHANGED <<invocation, store, present, base, todo, sets, resolved,
                   verdict, network, abort, exit, judged>>

(* Mutated: a response whose script failed is not downloaded.               *)
ReportCleanDownload ==
    /\ phase = "report"
    /\ phase' = "next"
    /\ LET o == [id |-> current.id, verdict |-> verdict] IN
         /\ outcomes' = Append(outcomes, o)
         /\ printed' = IF Shows(o) THEN Append(printed, o) ELSE printed
    /\ failed' = IF verdict = "ok" THEN failed ELSE failed + 1
    /\ saved' = (opts.download /\ verdict = "ok")
    /\ UNCHANGED <<invocation, store, present, base, todo, sets, resolved,
                   verdict, network, abort, exit, judged>>

(* Plain and silent output is printed at once, JSON is kept for the end.    *)
Report ==
    /\ phase = "report"
    /\ phase' = "next"
    /\ LET o == [id |-> current.id, verdict |-> verdict] IN
         /\ outcomes' = Append(outcomes, o)
         /\ printed' = IF Shows(o) THEN Append(printed, o) ELSE printed
    /\ failed' = IF verdict = "ok" THEN failed ELSE failed + 1
    /\ saved' = (opts.download /\ Responded(verdict))
    /\ UNCHANGED <<invocation, store, present, base, todo, sets, resolved,
                   verdict, network, abort, exit, judged>>

(* The body cannot be written: runCommand returns there and then.           *)
DownloadFails ==
    /\ phase = "report" /\ opts.download /\ Responded(verdict)
    /\ Abort("download") /\ UNCHANGED judged

(* Mutated: the JSON array stops at the first request that failed.          *)
FinishEarly ==
    /\ phase = "next"
    /\ Len(outcomes) = Len(todo) \/ (opts.json /\ failed > 0)
    /\ phase' = "done"
    /\ printed' = IF opts.json THEN outcomes ELSE printed
    /\ exit' = IF failed > 0 THEN 1 ELSE 0
    /\ UNCHANGED <<invocation, store, present, base, todo, sets, resolved,
                   verdict, network, outcomes, failed, saved, abort, judged>>

(* Mutated: the exit code is the number of failures.                        *)
FinishWithCount ==
    /\ phase = "next" /\ Len(outcomes) = Len(todo)
    /\ phase' = "done"
    /\ printed' = IF opts.json THEN outcomes ELSE printed
    /\ exit' = failed
    /\ UNCHANGED <<invocation, store, present, base, todo, sets, resolved,
                   verdict, network, outcomes, failed, saved, abort, judged>>

Finish ==
    /\ phase = "next" /\ Len(outcomes) = Len(todo)
    /\ phase' = "done"
    /\ printed' = IF opts.json THEN outcomes ELSE printed
    /\ exit' = IF failed > 0 THEN 1 ELSE 0
    /\ UNCHANGED <<invocation, store, present, base, todo, sets, resolved,
                   verdict, network, outcomes, failed, saved, abort, judged>>

(* Steps httpfly takes by itself, scripts included.                         *)
Progress ==
    \/ RejectFlags \/ RejectEnv \/ RejectState \/ LoadState \/ RejectFile \/ AcceptFile
    \/ ValidateNothing \/ Validate
    \/ ConvertNothing \/ RefuseToConvert \/ Convert
    \/ RejectSelection \/ Select \/ StartRequest \/ PreScriptEnds \/ Resolve
    \/ Dispatch \/ TimeOut \/ PostScriptEnds \/ Report \/ Finish

Next ==
    \/ \E o \in Options, f \in Plans : Invoke(o, f)
    \/ Progress
    \/ \E n \in Names, v \in Values : SetGlobal(n, v) \/ SetGlobalFails(n, v)
    \/ ScriptTouchesFile
    \/ RejectConfig \/ CannotConnect \/ Reply \/ BreakOff \/ DownloadFails

Spec == Init /\ [][Next]_vars

(* The process is scheduled, its scripts end, and a timeout that is set     *)
(* fires.  Nothing makes a server answer.                                   *)
FairSpec == Spec /\ WF_vars(Progress)

-----------------------------------------------------------------------------
(* What leaves is resolved with the values current at that moment: local    *)
(* over persisted over environment over prelude (sendWithScripts), although *)
(* base still holds what was persisted when the file was parsed.            *)
Effective(r) == Merge(Merge(Merge(plan.prelude, env), globals), r.local)

(* A script never takes a variable away: what base holds of an earlier      *)
(* persisted value is always hidden by a current one.                       *)
SentIsCurrent ==
    [][Len(wire') > Len(wire) =>
         Last(wire').seen = Effective(current)]_vars

(* Each request goes by the proxy its @proxy names at that moment, or       *)
(* directly, and is given the -timeout of this run: also when a script has  *)
(* changed the proxy since a client was cached for the old one.             *)
RouteIsCurrent ==
    [][Len(wire') > Len(wire) =>
         Last(wire').by = [via |-> Route(current, Effective(current)),
                           timeout |-> opts.timeout]]_vars

(* "Either running the whole file in one command, or running each request   *)
(* separately" (doc/scripting.md): as long as every set was saved, a        *)
(* request is resolved as a new invocation would resolve it from the file.  *)
SameAsSeparateRun ==
    phase = "send" /\ ~unsaved =>
        resolved = Merge(Merge(plan.prelude, Merge(env, disk)), current.local)

(* "Durably updates it for later runs" (GlobalState): a variable that was   *)
(* persisted once is persisted from then on, through failing scripts, saves *)
(* that fail before they write, and later invocations.  Only a save that is *)
(* cut short takes it away, with every other one: then its script is told,  *)
(* and no later run starts as if nothing had ever been persisted.           *)
NamesKept ==
    [][/\ \A n \in Names :
            disk[n] # Unset /\ disk'[n] = Unset => damaged' /\ unsaved'
       /\ damaged => damaged' /\ ~(phase = "flags" /\ phase' = "parse")]_vars

(* Requests leave in file order and at most once each, every result with a  *)
(* response stands for one that left, and none leaves whose script failed   *)
(* before it or that could not be resolved.                                 *)
WireMatchesReport ==
    /\ \A j, k \in 1..Len(wire) : j < k => wire[j].at < wire[k].at
    /\ \A k \in 1..Len(outcomes) :
         LET left == \E j \in 1..Len(wire) : wire[j].at = k IN
         /\ Responded(outcomes[k].verdict) => left
         /\ outcomes[k].verdict \in {"pre", "unresolved"} => ~left

(* The exit code is 1 exactly when the command stopped early or some        *)
(* request, or a script of it, failed.                                      *)
ExitTellsFailure ==
    phase = "done" =>
        (exit = 1 <=> abort # "no" \/ \E o \in Range(outcomes) : o.verdict # "ok")

(* A run that is not stopped early reports every selected request once, in  *)
(* order; only -silent leaves out the ones without a response.              *)
PrintsWanted ==
    \E f \in [1..Len(printed) -> 1..Len(outcomes)] :
        /\ \A j, k \in 1..Len(printed) : j < k => f[j] < f[k]
        /\ \A j \in 1..Len(printed) : printed[j] = outcomes[f[j]]
        /\ \A k \in 1..Len(outcomes) :
             (\E j \in 1..Len(printed) : f[j] = k)
                <=> (opts.silent => Responded(outcomes[k].verdict))

ReportsComplete ==
    phase = "done" /\ abort = "no" /\ opts.command = "run" =>
        /\ Len(outcomes) = Len(todo)
        /\ \A k \in 1..Len(todo) : outcomes[k].id = todo[k].id
        /\ PrintsWanted

(* "The body is saved whenever a response is actually received"             *)
(* (doc/usage.md): also when the script after it fails.                     *)
DownloadKept ==
    phase = "done" /\ abort = "no" /\ opts.download =>
        (saved <=> \E o \in Range(outcomes) : Responded(o.verdict))

(* run and validate are of one opinion about a file, however often they are *)
(* asked and whatever fails in between: only another file, or a value that  *)
(* reached the state file, changes it.                                      *)
AgreeOnFile ==
    [][judged # "unknown" /\ judged' # "unknown" => judged' = judged]_vars

(* "Resolving placeholders the same way run/validate do" (doc/usage.md):    *)
(* to-curl refuses a request exactly when a run that reaches it without any *)
(* script having set a variable would not send it, and prints it from the   *)
(* values that run would have resolved it with.                             *)
ConvertedAsSent ==
    phase = "done" /\ opts.command = "to-curl" /\ abort \in {"no", "convert"} =>
        /\ globals = disk
        /\ abort = "no" => resolved = Effective(todo[1])
        /\ \E s \in Convertible :
             abort = "convert" <=> s[1].broken \/ Fatal(s[1], Effective(s[1]))

(* A run with a timeout comes to an end, whatever the servers do.           *)
Terminates ==
    (phase = "flags" /\ opts.timeout = "some") ~> (phase = "done")
=============================================================================
