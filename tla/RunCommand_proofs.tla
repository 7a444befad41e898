-------------------------- MODULE RunCommand_proofs --------------------------
(* Theorems about RunCommand, for every file, environment, command line and  *)
(* bound: the types, what a request is resolved with, the proxy it goes by,  *)
(* that the commands judge a file alike, and what a run says of itself.      *)
EXTENDS RunCommand, TLAPS

(* Merging buckets gives a bucket in which the second one wins.              *)
LEMMA MergeBuckets ==
    ASSUME NEW low \in Bucket, NEW high \in Bucket
    PROVE  Merge(low, high) \in Bucket
  BY DEF Merge, Bucket

LEMMA EmptyBucket == Nothing \in Bucket
  BY DEF Nothing, Bucket

LEMMA SetInBucket ==
    ASSUME NEW b \in Bucket, NEW n \in Names, NEW v \in Values
    PROVE  [b EXCEPT ![n] = v] \in Bucket
  BY DEF Bucket

(* Whatever the environment files hold, env.Load gives a bucket.             *)
LEMMA EnvBucket ==
    ASSUME envs \in EnvFiles
    PROVE  env \in Bucket
<1>1. \A file \in EnvFile : Shared(file) \in Bucket /\ Own(file) \in Bucket
  BY EmptyBucket DEF EnvFile, Shared, Own
<1>2. envs.public \in EnvFile /\ envs.private \in EnvFile
  BY EnvAssumption DEF EnvChoice
<1> QED
  BY <1>1, <1>2, MergeBuckets, EmptyBucket DEF env

-----------------------------------------------------------------------------
(* The request being handled exists: the phases between StartRequest and     *)
(* Report have an index within todo, which is what makes current defined.    *)
Handling == phase \in {"pre", "resolve", "send", "wait", "post", "report"}

Shaped ==
    /\ TypeOK
    /\ Handling => Len(outcomes) < Len(todo)
    /\ phase = "report" => verdict # "none"

LEMMA ShapedInit == Init => Shaped
<1> SUFFICES ASSUME Init
             PROVE  Shaped
  OBVIOUS
<1> USE EmptyBucket, BoundsAssumption DEF Init
<1>1. runs \in 0..MaxRuns /\ sets \in 0..MaxSets
  OBVIOUS
<1>2. /\ todo \in Seq(Request) /\ wire \in Seq(Sent)
      /\ outcomes \in Seq(Outcome) /\ printed \in Seq(Outcome)
  OBVIOUS
<1>3. /\ disk \in Bucket /\ globals \in Bucket /\ base \in Bucket
      /\ resolved \in Bucket
  OBVIOUS
<1> QED
  BY <1>1, <1>2, <1>3 DEF Shaped, TypeOK, Phases, Verdicts, Aborts, Handling

LEMMA PlanTypes ==
    ASSUME NEW f \in Plans
    PROVE  f.prelude \in Bucket /\ f.requests \in Seq(Request)
  BY PlansAssumption DEF Plan

LEMMA SelectionTypes ==
    ASSUME TypeOK
    PROVE  Selections \subseteq Seq(Request)
<1>1. plan.requests \in Seq(Request)
  BY PlanTypes DEF TypeOK
<1>2. ASSUME NEW k \in Named
      PROVE  <<plan.requests[k]>> \in Seq(Request)
  BY <1>1 DEF Named
<1> QED
  BY <1>1, <1>2 DEF Selections, FirstNamed

LEMMA FirstOfOne ==
    ASSUME NEW s \in Seq(Request), Len(s) = 1
    PROVE  s[1] \in Request
  OBVIOUS

LEMMA CurrentRequest ==
    ASSUME TypeOK, Len(outcomes) < Len(todo)
    PROVE  current \in Request
  BY DEF TypeOK, current

LEMMA NeededBucket ==
    ASSUME TypeOK, Len(outcomes) < Len(todo)
    PROVE  Needed(current) \in Bucket
<1>1. current.local \in Bucket
  BY CurrentRequest DEF Request
<1>2. Merge(base, globals) \in Bucket
  BY MergeBuckets DEF TypeOK
<1> QED
  BY <1>1, <1>2, MergeBuckets DEF Needed

(* clientFor gives a client for any route a request can take.                *)
LEMMA RouteClient ==
    ASSUME TypeOK, Len(outcomes) < Len(todo)
    PROVE  ClientFor(Route(current, resolved)) \subseteq Client
<1>1. current.proxy \in Names \cup {Direct} /\ plan.proxy \in Names \cup {Direct}
  BY CurrentRequest, PlansAssumption DEF TypeOK, Plan, Request
<1>2. Route(current, resolved) \in Values \cup {Unset, Direct}
  BY <1>1 DEF Route, ProxyOf, TypeOK, Bucket
<1> QED
  BY <1>2 DEF ClientFor, ClientsOf, Client, TypeOK

LEMMA ShapedStep == Shaped /\ [Next]_vars => Shaped'
<1> SUFFICES ASSUME Shaped, [Next]_vars
             PROVE  Shaped'
  OBVIOUS
<1> USE BoundsAssumption, EmptyBucket
    DEF Shaped, TypeOK, Handling, Phases, Verdicts, Aborts, invocation, store,
        network, results
<1>1. ASSUME NEW o \in Options, NEW f \in Plans, Invoke(o, f)
      PROVE  Shaped'
  <2>1. phase' \in Phases /\ opts' \in Options /\ plan' \in Plans /\ envs' \in EnvFiles
    BY <1>1 DEF Invoke
  <2>2. runs' \in 0..MaxRuns /\ sets' \in 0..MaxSets
    BY <1>1 DEF Invoke
  <2>3. /\ disk' \in Bucket /\ globals' \in Bucket /\ base' \in Bucket
        /\ resolved' \in Bucket
    BY <1>1 DEF Invoke
  <2>4. /\ todo' \in Seq(Request) /\ wire' \in Seq(Sent)
        /\ outcomes' \in Seq(Outcome) /\ printed' \in Seq(Outcome)
    BY <1>1 DEF Invoke
  <2> QED
    BY <1>1, <2>1, <2>2, <2>3, <2>4 DEF Invoke
<1>2. ASSUME NEW n \in Names, NEW v \in Values, SetGlobal(n, v)
      PROVE  Shaped'
  <2>1. sets' \in 0..MaxSets
    BY <1>2 DEF SetGlobal
  <2>2. globals' \in Bucket /\ disk' \in Bucket
    BY <1>2, SetInBucket DEF SetGlobal
  <2> QED
    BY <1>2, <2>1, <2>2 DEF SetGlobal, InScript
<1>3. ASSUME NEW n \in Names, NEW v \in Values, SetGlobalFails(n, v)
      PROVE  Shaped'
  <2>1. sets' \in 0..MaxSets
    BY <1>3 DEF SetGlobalFails
  <2>2. globals' \in Bucket /\ disk' \in Bucket /\ damaged' \in BOOLEAN
    BY <1>3, SetInBucket DEF SetGlobalFails
  <2> QED
    BY <1>3, <2>1, <2>2 DEF SetGlobalFails, InScript
<1>4. CASE RejectFlags
  BY <1>4 DEF RejectFlags, Abort
<1>5. CASE RejectConfig
  BY <1>5 DEF RejectConfig, Abort
<1>31. CASE RejectState
  BY <1>31 DEF RejectState, Abort
<1>6. CASE LoadState
  <2>1. base' \in Bucket
    BY <1>6, PlanTypes, MergeBuckets, EnvBucket DEF LoadState
  <2> QED
    BY <1>6, <2>1 DEF LoadState
<1>7. CASE RejectFile
  BY <1>7 DEF RejectFile, Abort
<1>8. CASE AcceptFile
  BY <1>8 DEF AcceptFile
<1>9. CASE RejectSelection
  BY <1>9 DEF RejectSelection, Abort
<1>10. CASE Select
  <2>1. todo' \in Seq(Request)
    BY <1>10, SelectionTypes DEF Select
  <2>2. [via |-> Direct, timeout |-> opts.timeout] \in Client
    BY OptionsAssumption DEF Option, Client
  <2> QED
    BY <1>10, <2>1, <2>2 DEF Select
<1>11. CASE StartRequest
  BY <1>11 DEF StartRequest
<1>12. CASE PreScriptEnds
  BY <1>12 DEF PreScriptEnds
<1>13. CASE Resolve
  <2>1. resolved' \in Bucket
    BY <1>13, NeededBucket DEF Resolve
  <2> QED
    BY <1>13, <2>1 DEF Resolve
<1>14. CASE Dispatch
  <2>1. PICK c \in ClientFor(Route(current, resolved)) :
          /\ clients' = clients \cup {c}
          /\ wire' = Append(wire,
               [at |-> Len(outcomes) + 1, seen |-> resolved, by |-> c])
    BY <1>14 DEF Dispatch
  <2>2. c \in Client
    BY <1>14, RouteClient DEF Dispatch
  <2>3. [at |-> Len(outcomes) + 1, seen |-> resolved, by |-> c] \in Sent
    BY <2>2 DEF Sent
  <2>4. wire' \in Seq(Sent) /\ clients' \subseteq Client
    BY <2>1, <2>2, <2>3
  <2> QED
    BY <1>14, <2>4 DEF Dispatch
<1>15. CASE CannotConnect
  <2>1. clients' \subseteq Client
    BY <1>15, RouteClient DEF CannotConnect
  <2> QED
    BY <1>15, <2>1 DEF CannotConnect
<1>16. CASE Reply
  BY <1>16 DEF Reply
<1>17. CASE BreakOff
  BY <1>17 DEF BreakOff
<1>18. CASE TimeOut
  BY <1>18 DEF TimeOut, BreakOff
<1>19. CASE PostScriptEnds
  BY <1>19 DEF PostScriptEnds
<1>20. CASE Report
  <2> DEFINE o == [id |-> current.id, verdict |-> verdict]
  <2>1. current.id \in Ids
    BY <1>20, CurrentRequest DEF Report, Request
  <2>2. o \in Outcome
    BY <1>20, <2>1 DEF Report, Outcome
  <2>3. outcomes' \in Seq(Outcome) /\ printed' \in Seq(Outcome)
    BY <1>20, <2>2 DEF Report
  <2>4. failed' \in Nat /\ saved' \in BOOLEAN
    <3>1. opts \in Option
      BY OptionsAssumption
    <3> QED
      BY <1>20, <3>1 DEF Report, Option
  <2> QED
    BY <1>20, <2>3, <2>4 DEF Report
<1>21. CASE DownloadFails
  BY <1>21 DEF DownloadFails, Abort
<1>22. CASE Finish
  BY <1>22 DEF Finish
<1>23. CASE ScriptTouchesFile
  BY <1>23 DEF ScriptTouchesFile, InScript
<1>24. CASE UNCHANGED vars
  BY <1>24 DEF vars
<1>25. CASE RejectEnv
  BY <1>25 DEF RejectEnv, Abort
<1>26. CASE ValidateNothing
  BY <1>26 DEF ValidateNothing, Abort
<1>27. CASE Validate
  BY <1>27 DEF Validate
<1>28. CASE ConvertNothing
  BY <1>28 DEF ConvertNothing, Abort
<1>29. CASE RefuseToConvert
  BY <1>29 DEF RefuseToConvert, Abort
<1>30. CASE Convert
  <2>1. todo' \in Seq(Request) /\ Len(todo') = 1
    BY <1>30, SelectionTypes DEF Convert, Convertible
  <2>2. todo'[1] \in Request
    BY <2>1, FirstOfOne
  <2>3. resolved' \in Bucket
    BY <1>30, <2>2, MergeBuckets DEF Convert, Request
  <2>4. phase' = "done" /\ UNCHANGED <<invocation, store, present, base, sets,
          verdict, network, results, abort, exit, judged>>
    BY <1>30 DEF Convert
  <2> QED
    BY <2>1, <2>3, <2>4
<1> QED
  BY <1>1, <1>2, <1>3, <1>4, <1>5, <1>6, <1>7, <1>8, <1>9, <1>10, <1>11,
     <1>12, <1>13, <1>14, <1>15, <1>16, <1>17, <1>18, <1>19, <1>20, <1>21,
     <1>22, <1>23, <1>24, <1>25, <1>26, <1>27, <1>28, <1>29, <1>30, <1>31
     DEF Next, Progress

(* Every variable keeps its type, and no request is handled that is not one  *)
(* of the selected ones, for every file and every command line.              *)
THEOREM TypeCorrect == Spec => []TypeOK
<1>1. Shaped => TypeOK
  BY DEF Shaped
<1> QED
  BY <1>1, ShapedInit, ShapedStep, PTL DEF Spec

-----------------------------------------------------------------------------
(* base is read once, the globals change with every set: the two agree       *)
(* because names are only ever added, so that the globals hide everything    *)
(* base took from the state file.                                            *)
Loaded == phase \notin {"idle", "flags", "done"}

(* From Select on there is a direct client, and every client has the timeout *)
(* of this run: the cached ones were copied from the direct one.             *)
Handled == {"next", "pre", "resolve", "send", "wait", "post", "report"}

Pooled ==
    /\ \E c \in clients : c.via = Direct
    /\ \A c \in clients : c = [via |-> c.via, timeout |-> opts.timeout]

Fresh ==
    /\ Shaped
    /\ Loaded => \A n \in Names :
         globals[n] = Unset => base[n] = Merge(plan.prelude, env)[n]
    /\ Loaded => \A n \in Names : disk[n] # Unset => globals[n] # Unset
    /\ Loaded /\ ~unsaved => globals = disk
    /\ phase = "send" => resolved = Needed(current)
    /\ phase = "parse" =>
         globals = disk /\ base = Merge(plan.prelude, Merge(env, disk))
    /\ phase \in Handled \cup {"select"} => opts.command = "run"
    /\ phase \in Handled => Pooled
    /\ phase # "done" => abort = "no"

LEMMA FreshInit == Init => Fresh
  BY ShapedInit DEF Init, Fresh, Loaded, Handled

LEMMA FreshStep == Fresh /\ [Next]_vars => Fresh'
<1> SUFFICES ASSUME Fresh, [Next]_vars
             PROVE  Fresh'
  OBVIOUS
<1>0. Shaped /\ Shaped' /\ TypeOK
  BY ShapedStep DEF Fresh, Shaped
<1>a. globals \in [Names -> Values \cup {Unset}] /\ disk \in [Names -> Values \cup {Unset}]
  BY <1>0 DEF TypeOK, Bucket
<1>b. UNCHANGED <<clients, opts>> /\ Pooled => Pooled'
  BY DEF Pooled
<1>c. UNCHANGED envs => UNCHANGED env
  BY DEF env, Shared, Own, Listed
<1> USE <1>0, <1>a, <1>b, <1>c, UnsetAssumption
    DEF Fresh, Loaded, Handled, Needed, current, invocation, store, network,
        results
<1>1. ASSUME NEW o \in Options, NEW f \in Plans, Invoke(o, f)
      PROVE  Fresh'
  BY <1>1 DEF Invoke
<1>2. ASSUME NEW n \in Names, NEW v \in Values, SetGlobal(n, v)
      PROVE  Fresh'
  BY <1>2 DEF SetGlobal, InScript
<1>3. ASSUME NEW n \in Names, NEW v \in Values, SetGlobalFails(n, v)
      PROVE  Fresh'
  BY <1>3 DEF SetGlobalFails, InScript, Nothing
<1>4. CASE RejectFlags
  BY <1>4 DEF RejectFlags, Abort
<1>5. CASE RejectConfig
  BY <1>5 DEF RejectConfig, Abort
<1>31. CASE RejectState
  BY <1>31 DEF RejectState, Abort
<1>6. CASE LoadState
  BY <1>6 DEF LoadState, Merge
<1>7. CASE RejectFile
  BY <1>7 DEF RejectFile, Abort
<1>8. CASE AcceptFile
  BY <1>8 DEF AcceptFile
<1>9. CASE RejectSelection
  BY <1>9 DEF RejectSelection, Abort
<1>10. CASE Select
  BY <1>10 DEF Select, Pooled
<1>11. CASE StartRequest
  BY <1>11 DEF StartRequest
<1>12. CASE PreScriptEnds
  BY <1>12 DEF PreScriptEnds
<1>13. CASE Resolve
  BY <1>13 DEF Resolve
<1>14. CASE Dispatch
  <2>1. Pooled'
    BY <1>14 DEF Dispatch, Pooled, ClientFor, ClientsOf
  <2> QED
    BY <1>14, <2>1 DEF Dispatch
<1>15. CASE CannotConnect
  <2>1. Pooled'
    BY <1>15 DEF CannotConnect, Pooled, ClientFor, ClientsOf
  <2> QED
    BY <1>15, <2>1 DEF CannotConnect
<1>16. CASE Reply
  BY <1>16 DEF Reply
<1>17. CASE BreakOff
  BY <1>17 DEF BreakOff
<1>18. CASE TimeOut
  BY <1>18 DEF TimeOut, BreakOff
<1>19. CASE PostScriptEnds
  BY <1>19 DEF PostScriptEnds
<1>20. CASE Report
  BY <1>20 DEF Report
<1>21. CASE DownloadFails
  BY <1>21 DEF DownloadFails, Abort
<1>22. CASE Finish
  BY <1>22 DEF Finish
<1>23. CASE ScriptTouchesFile
  BY <1>23 DEF ScriptTouchesFile, InScript
<1>24. CASE UNCHANGED vars
  BY <1>24 DEF vars
<1>25. CASE RejectEnv
  BY <1>25 DEF RejectEnv, Abort
<1>26. CASE ValidateNothing
  BY <1>26 DEF ValidateNothing, Abort
<1>27. CASE Validate
  BY <1>27 DEF Validate
<1>28. CASE ConvertNothing
  BY <1>28 DEF ConvertNothing, Abort
<1>29. CASE RefuseToConvert
  BY <1>29 DEF RefuseToConvert, Abort
<1>30. CASE Convert
  BY <1>30 DEF Convert
<1> QED
  BY <1>1, <1>2, <1>3, <1>4, <1>5, <1>6, <1>7, <1>8, <1>9, <1>10, <1>11,
     <1>12, <1>13, <1>14, <1>15, <1>16, <1>17, <1>18, <1>19, <1>20, <1>21,
     <1>22, <1>23, <1>24, <1>25, <1>26, <1>27, <1>28, <1>29, <1>30, <1>31
     DEF Next, Progress

LEMMA FreshIsEffective ==
    ASSUME Fresh, Loaded, NEW r
    PROVE  Needed(r) = Effective(r)
<1>1. \A n \in Names : Merge(base, globals)[n] =
                       Merge(Merge(plan.prelude, env), globals)[n]
  BY DEF Fresh, Merge
<1> QED
  BY <1>1 DEF Needed, Effective, Merge

(* Nothing but Dispatch sends, and nothing but a completed set saves.        *)
LEMMA OnlyDispatchSends == Next /\ wire' # wire /\ wire' # <<>> => Dispatch
<1> SUFFICES ASSUME Next, wire' # wire, wire' # <<>>
             PROVE  Dispatch
  OBVIOUS
<1>1. Progress \/ CannotConnect \/ Reply \/ BreakOff
  BY DEF Next, Invoke, SetGlobal, SetGlobalFails, ScriptTouchesFile,
     RejectConfig, DownloadFails, Abort, network
<1> QED
  BY <1>1 DEF Progress, RejectFlags, RejectEnv, RejectState, LoadState, RejectFile,
     AcceptFile, ValidateNothing, Validate, ConvertNothing, RefuseToConvert,
     Convert, RejectSelection, Select, StartRequest, PreScriptEnds, Resolve,
     TimeOut, PostScriptEnds, Report, Finish, CannotConnect, Reply, BreakOff,
     Abort, network

LEMMA OnlySetSaves ==
    Next /\ disk' # disk =>
        \E n \in Names, v \in Values : SetGlobal(n, v) \/ SetGlobalFails(n, v)
<1> SUFFICES ASSUME Next, disk' # disk
             PROVE  \E n \in Names, v \in Values :
                        SetGlobal(n, v) \/ SetGlobalFails(n, v)
  OBVIOUS
<1>1. \/ Progress \/ CannotConnect \/ Reply \/ BreakOff
      \/ \E n \in Names, v \in Values : SetGlobal(n, v) \/ SetGlobalFails(n, v)
  BY DEF Next, Invoke, ScriptTouchesFile, RejectConfig, DownloadFails, Abort,
     store
<1> QED
  BY <1>1 DEF Progress, RejectFlags, RejectEnv, RejectState, LoadState,
     RejectFile, AcceptFile, ValidateNothing, Validate, ConvertNothing,
     RefuseToConvert, Convert, RejectSelection, Select, StartRequest,
     PreScriptEnds, Resolve, Dispatch, TimeOut, PostScriptEnds, Report, Finish,
     CannotConnect, Reply, BreakOff, Abort, store

(* A state file that was cut short stays so, and no run gets past reading it. *)
LEMMA DamageStays ==
    Next /\ damaged => damaged' /\ ~(phase = "flags" /\ phase' = "parse")
<1> SUFFICES ASSUME Next, damaged
             PROVE  damaged' /\ ~(phase = "flags" /\ phase' = "parse")
  OBVIOUS
<1>1. CASE Progress
  BY <1>1 DEF Progress, RejectFlags, RejectEnv, RejectState, LoadState,
     RejectFile, AcceptFile, ValidateNothing, Validate, ConvertNothing,
     RefuseToConvert, Convert, RejectSelection, Select, StartRequest,
     PreScriptEnds, Resolve, Dispatch, TimeOut, BreakOff, PostScriptEnds,
     Report, Finish, Abort, store
<1>2. CASE ~Progress
  BY <1>2 DEF Next, Invoke, SetGlobal, SetGlobalFails, InScript,
     ScriptTouchesFile, RejectConfig, CannotConnect, Reply, BreakOff,
     DownloadFails, Abort, store
<1> QED
  BY <1>1, <1>2

(* Every request leaves with the values that are current when it is resolved *)
(* (sendWithScripts), whatever was persisted when the file was parsed.       *)
THEOREM RequestsAreCurrent == Spec => SentIsCurrent
<1>1. Fresh /\ [Next]_vars =>
        [Len(wire') > Len(wire) => Last(wire').seen = Effective(current)]_vars
  <2> SUFFICES ASSUME Fresh, Next, Len(wire') > Len(wire)
               PROVE  Last(wire').seen = Effective(current)
    BY DEF vars
  <2>0. wire \in Seq(Sent) /\ Len(wire) \in Nat
    BY DEF Fresh, Shaped, TypeOK
  <2>1. wire' # wire /\ wire' # <<>>
    BY <2>0
  <2>2. Dispatch
    BY <2>1, OnlyDispatchSends
  <2>3. Last(wire').seen = resolved
    BY <2>0, <2>2 DEF Dispatch, Last
  <2>4. resolved = Effective(current)
    BY <2>2, FreshIsEffective DEF Dispatch, Fresh, Loaded
  <2> QED
    BY <2>3, <2>4
<1> QED
  BY <1>1, FreshInit, FreshStep, PTL DEF Spec, SentIsCurrent

(* Whatever clients were cached before, a request goes by the proxy that is  *)
(* current and with the timeout of this run (clientFor).                     *)
THEOREM RoutesAreCurrent == Spec => RouteIsCurrent
<1>1. Fresh /\ [Next]_vars =>
        [Len(wire') > Len(wire) =>
           Last(wire').by = [via |-> Route(current, Effective(current)),
                             timeout |-> opts.timeout]]_vars
  <2> SUFFICES ASSUME Fresh, Next, Len(wire') > Len(wire)
               PROVE  Last(wire').by = [via |-> Route(current, Effective(current)),
                                        timeout |-> opts.timeout]
    BY DEF vars
  <2>0. wire \in Seq(Sent) /\ Len(wire) \in Nat
    BY DEF Fresh, Shaped, TypeOK
  <2>1. wire' # wire /\ wire' # <<>>
    BY <2>0
  <2>2. Dispatch
    BY <2>1, OnlyDispatchSends
  <2>3. resolved = Effective(current)
    BY <2>2, FreshIsEffective DEF Dispatch, Fresh, Loaded
  <2>4. PICK c \in ClientFor(Route(current, resolved)) :
          wire' = Append(wire,
            [at |-> Len(outcomes) + 1, seen |-> resolved, by |-> c])
    BY <2>2 DEF Dispatch
  <2>5. Last(wire').by = c
    BY <2>0, <2>4 DEF Last
  <2>6. c = [via |-> Route(current, resolved), timeout |-> opts.timeout]
    BY <2>2, <2>4 DEF Dispatch, Fresh, Handled, Pooled, ClientFor, ClientsOf
  <2> QED
    BY <2>3, <2>5, <2>6
<1> QED
  BY <1>1, FreshInit, FreshStep, PTL DEF Spec, RouteIsCurrent

(* A request of a long run is resolved as a run of its own would resolve it, *)
(* as long as every set of the run reached the file.                         *)
THEOREM OneRunOrSeveral == Spec => []SameAsSeparateRun
<1>1. Fresh => SameAsSeparateRun
  <2> SUFFICES ASSUME Fresh, phase = "send", ~unsaved
               PROVE  resolved = Merge(Merge(plan.prelude, Merge(env, disk)), current.local)
    BY DEF SameAsSeparateRun
  <2>1. resolved = Effective(current) /\ globals = disk
    BY FreshIsEffective DEF Fresh, Loaded
  <2>2. Merge(Merge(plan.prelude, env), disk) = Merge(plan.prelude, Merge(env, disk))
    BY DEF Merge
  <2> QED
    BY <2>1, <2>2 DEF Effective
<1> QED
  BY <1>1, FreshInit, FreshStep, PTL DEF Spec

(* Persisted names stay persisted across requests, failures and invocations *)
(* unless a save is cut short, which no later run takes for an empty state.  *)
THEOREM PersistedNamesKept == Spec => NamesKept
<1>1. Fresh /\ [Next]_vars =>
        [/\ \A n \in Names :
              disk[n] # Unset /\ disk'[n] = Unset => damaged' /\ unsaved'
         /\ damaged => damaged' /\ ~(phase = "flags" /\ phase' = "parse")]_vars
  <2> SUFFICES ASSUME Fresh, Next
               PROVE  /\ \A n \in Names :
                           disk[n] # Unset /\ disk'[n] = Unset => damaged' /\ unsaved'
                      /\ damaged =>
                           damaged' /\ ~(phase = "flags" /\ phase' = "parse")
    BY DEF vars
  <2>1. ASSUME NEW n \in Names, disk[n] # Unset, disk'[n] = Unset
        PROVE  damaged' /\ unsaved'
    <3>1. PICK m \in Names, v \in Values : SetGlobal(m, v) \/ SetGlobalFails(m, v)
      BY <2>1, OnlySetSaves
    <3>2. CASE SetGlobal(m, v)
      <4>1. globals[n] # Unset /\ globals \in [Names -> Values \cup {Unset}]
        BY <2>1, <3>2 DEF SetGlobal, InScript, Fresh, Loaded, Shaped, TypeOK, Bucket
      <4> QED
        BY <2>1, <3>2, <4>1, UnsetAssumption DEF SetGlobal
    <3>3. CASE SetGlobalFails(m, v)
      BY <2>1, <3>3 DEF SetGlobalFails
    <3> QED
      BY <3>1, <3>2, <3>3
  <2> QED
    BY <2>1, DamageStays
<1> QED
  BY <1>1, FreshInit, FreshStep, PTL DEF Spec, NamesKept

-----------------------------------------------------------------------------
(* What run and validate make of a file is a function of the file, the       *)
(* environment files and the state file; judged remembers it rightly.        *)
BadFile ==
    \/ plan.broken
    \/ \E r \in Range(plan.requests) :
         \/ r.broken
         \/ InvalidURL(r, Merge(Merge(plan.prelude, Merge(env, disk)), r.local))

JudgedRight ==
    /\ judged = "bad" => BadFile
    /\ judged = "good" => ~BadFile

LEMMA BadFileFound ==
    ASSUME Fresh, phase = "parse"
    PROVE  FileHasErrors <=> BadFile
  BY DEF Fresh, FileHasErrors, HasErrors, BadFile

LEMMA ValidateJudges ==
    ASSUME Fresh, phase = "parse", opts.name = AnyName
    PROVE  ReportedErrors <=> BadFile
<1>1. Reported = Range(plan.requests)
  BY DEF Reported, Selections
<1> QED
  BY <1>1, BadFileFound DEF ReportedErrors, FileHasErrors

(* The only steps that judge, or change what was judged.                     *)
LEMMA JudgingSteps ==
    ASSUME Next
    PROVE  \/ UNCHANGED <<plan, envs, disk, judged>>
           \/ \E o \in Options, f \in Plans : Invoke(o, f)
           \/ \E n \in Names, v \in Values :
                SetGlobal(n, v) \/ SetGlobalFails(n, v)
           \/ RejectFile \/ AcceptFile \/ Validate
<1>1. CASE Progress
  BY <1>1 DEF Progress, RejectFlags, RejectEnv, RejectState, LoadState, ValidateNothing,
     ConvertNothing, RefuseToConvert, Convert, RejectSelection, Select,
     StartRequest, PreScriptEnds, Resolve, Dispatch, TimeOut, BreakOff,
     PostScriptEnds, Report, Finish, Abort, invocation, store
<1>2. CASE ~Progress
  BY <1>2 DEF Next, ScriptTouchesFile, RejectConfig, CannotConnect,
     Reply, BreakOff, DownloadFails, Abort, invocation, store
<1> QED
  BY <1>1, <1>2

LEMMA SameFileAsBad ==
    ASSUME UNCHANGED <<plan, envs, disk>>
    PROVE  BadFile' <=> BadFile
<1>1. UNCHANGED env
  BY DEF env, Shared, Own, Listed
<1> QED
  BY <1>1 DEF BadFile, InvalidURL, ProxyOf

LEMMA JudgedStep == Fresh /\ JudgedRight /\ [Next]_vars => JudgedRight'
<1> SUFFICES ASSUME Fresh, JudgedRight, [Next]_vars
             PROVE  JudgedRight'
  OBVIOUS
<1>1. CASE UNCHANGED <<plan, envs, disk, judged>>
  BY <1>1, SameFileAsBad DEF JudgedRight
<1>2. ASSUME NEW o \in Options, NEW f \in Plans, Invoke(o, f)
      PROVE  JudgedRight'
  <2>1. CASE f = plan
    BY <1>2, <2>1, SameFileAsBad DEF Invoke, JudgedRight
  <2>2. CASE f # plan
    BY <1>2, <2>2 DEF Invoke, JudgedRight
  <2> QED
    BY <2>1, <2>2
<1>3. ASSUME NEW n \in Names, NEW v \in Values,
             SetGlobal(n, v) \/ SetGlobalFails(n, v)
      PROVE  JudgedRight'
  <2>1. CASE disk' = disk
    BY <1>3, <2>1, SameFileAsBad
    DEF SetGlobal, SetGlobalFails, JudgedRight, invocation
  <2>2. CASE disk' # disk
    BY <1>3, <2>2 DEF SetGlobal, SetGlobalFails, JudgedRight
  <2> QED
    BY <2>1, <2>2
<1>4. CASE RejectFile \/ AcceptFile
  <2>1. BadFile' <=> BadFile
    BY <1>4, SameFileAsBad DEF RejectFile, AcceptFile, Abort, invocation, store
  <2> QED
    BY <1>4, <2>1, BadFileFound DEF RejectFile, AcceptFile, JudgedRight
<1>5. CASE Validate
  <2>1. BadFile' <=> BadFile
    BY <1>5, SameFileAsBad DEF Validate, invocation, store
  <2> QED
    BY <1>5, <2>1, ValidateJudges DEF Validate, JudgedRight
<1> QED
  BY <1>1, <1>2, <1>3, <1>4, <1>5, JudgingSteps DEF vars, invocation, store

(* Once a file was judged, by run or by validate, every later verdict on it  *)
(* is the same, until the file or what is persisted changes.                 *)
THEOREM CommandsAgree == Spec => AgreeOnFile
<1>1. Init => JudgedRight
  BY DEF Init, JudgedRight
<1>2. Fresh /\ JudgedRight /\ [Next]_vars =>
        [judged # "unknown" /\ judged' # "unknown" => judged' = judged]_vars
  <2> SUFFICES ASSUME Fresh, JudgedRight, Next,
                      judged # "unknown", judged' # "unknown"
               PROVE  judged' = judged
    BY DEF vars
  <2>0. judged \in {"good", "bad"}
    BY DEF Fresh, Shaped, TypeOK
  <2>1. CASE RejectFile \/ AcceptFile
    BY <2>0, <2>1, BadFileFound DEF RejectFile, AcceptFile, JudgedRight
  <2>2. CASE Validate
    BY <2>0, <2>2, ValidateJudges DEF Validate, JudgedRight
  <2> QED
    BY <2>1, <2>2, JudgingSteps DEF Invoke, SetGlobal, SetGlobalFails
<1> QED
  BY <1>1, <1>2, FreshInit, FreshStep, JudgedStep, PTL DEF Spec, AgreeOnFile

(* to-curl prints a request with the values a run would send it with, and     *)
(* refuses exactly the ones that a run which reaches them without any set     *)
(* would not send (convertCommand, issuesAsFatal).                            *)
THEOREM ConversionsComplete == Spec => []ConvertedAsSent
<1>1. Init => ConvertedAsSent
  BY DEF Init, ConvertedAsSent
<1>2. Fresh /\ ConvertedAsSent /\ [Next]_vars => ConvertedAsSent'
  <2> SUFFICES ASSUME Fresh, ConvertedAsSent, [Next]_vars
               PROVE  ConvertedAsSent'
    OBVIOUS
  <2>e. UNCHANGED envs => UNCHANGED env
    BY DEF env, Shared, Own, Listed
  <2>m. phase = "parse" => /\ globals = disk
                           /\ \A r : Merge(base, r.local) = Effective(r)
    <3> SUFFICES ASSUME phase = "parse", NEW r
                 PROVE  globals = disk /\ Merge(base, r.local) = Effective(r)
      OBVIOUS
    <3>1. globals = disk /\ base = Merge(plan.prelude, Merge(env, disk))
      BY DEF Fresh
    <3>2. Merge(plan.prelude, Merge(env, disk)) =
            Merge(Merge(plan.prelude, env), globals)
      BY <3>1 DEF Merge
    <3> QED
      BY <3>1, <3>2 DEF Effective
  <2>f. UNCHANGED <<plan, env, globals, present>> =>
          \A r : /\ Effective(r)' = Effective(r)
                 /\ Fatal(r, Effective(r))' <=> Fatal(r, Effective(r))
    BY DEF Effective, Fatal, Undefined, InvalidURL, Placeholders, ProxyOf
  <2>s. UNCHANGED <<plan, opts>> => UNCHANGED Convertible
    BY DEF Convertible, Selections, FirstNamed, Named
  <2>1. CASE Convert
    <3>1. /\ UNCHANGED <<plan, opts, env, globals, disk, present, abort>>
          /\ phase = "parse" /\ todo' \in Convertible
          /\ resolved' = Merge(base, todo'[1].local)
          /\ ~Unfit(todo'[1])
      BY <2>1, <2>e DEF Convert, invocation, store
    <3>2. PICK s \in Convertible : s = todo'
      BY <3>1
    <3>3. globals' = disk' /\ resolved' = Effective(s[1])
      BY <2>m, <3>1, <3>2
    <3>4. ~s[1].broken /\ ~Fatal(s[1], Effective(s[1]))
      BY <2>m, <3>1, <3>2 DEF Unfit
    <3>5. ~s[1].broken /\ ~Fatal(s[1], Effective(s[1]))'
      BY <2>f, <3>1, <3>4
    <3>6. s \in Convertible'
      BY <2>s, <3>1
    <3>7. resolved' = Effective(s[1])'
      BY <2>f, <3>1, <3>3
    <3>8. Effective(s[1])' = Effective(todo[1])'
      BY <3>2 DEF Effective
    <3>9. abort' = "no"
      BY <2>1, <3>1 DEF Convert, Fresh
    <3> QED
      BY <3>3, <3>5, <3>6, <3>7, <3>8, <3>9 DEF ConvertedAsSent
  <2>2. CASE RefuseToConvert
    <3>1. /\ UNCHANGED <<plan, opts, env, globals, disk, present>>
          /\ phase = "parse" /\ abort' = "convert"
          /\ \E s \in Convertible : Unfit(s[1])
      BY <2>2, <2>e DEF RefuseToConvert, Abort, invocation, store
    <3>2. PICK s \in Convertible : Unfit(s[1])
      BY <3>1
    <3>3. globals' = disk' /\ (s[1].broken \/ Fatal(s[1], Effective(s[1])))
      BY <2>m, <3>1, <3>2 DEF Unfit
    <3>4. s[1].broken \/ Fatal(s[1], Effective(s[1]))'
      BY <2>f, <3>1, <3>3
    <3>5. s \in Convertible'
      BY <2>s, <3>1
    <3> QED
      BY <3>1, <3>3, <3>4, <3>5 DEF ConvertedAsSent
  <2>3. CASE UNCHANGED vars
    <3>1. UNCHANGED <<phase, opts, plan, env, globals, disk, present, abort,
                      todo, resolved>>
      BY <2>3, <2>e DEF vars, invocation, store, results
    <3>2. \A r : Effective(r)' = Effective(r)
      BY <2>f, <3>1
    <3>3. Effective(todo[1])' = Effective(todo[1])
      BY <3>1 DEF Effective
    <3> QED
      BY <2>f, <2>s, <3>1, <3>3 DEF ConvertedAsSent
  <2>4. CASE Next /\ ~Convert /\ ~RefuseToConvert
    <3>1. ~(phase' = "done" /\ abort' \in {"no", "convert"}
              /\ opts'.command = "to-curl")
      BY <2>4 DEF Next, Progress, Fresh, Handled, Invoke, RejectFlags,
         RejectEnv, RejectConfig, RejectState, LoadState, RejectFile,
         AcceptFile, ValidateNothing, Validate, ConvertNothing,
         RejectSelection, Select, StartRequest, PreScriptEnds, Resolve,
         Dispatch, CannotConnect, Reply, BreakOff, TimeOut, PostScriptEnds,
         Report, DownloadFails, Finish, ScriptTouchesFile, SetGlobal,
         SetGlobalFails, InScript, Abort, invocation
    <3> QED
      BY <3>1 DEF ConvertedAsSent
  <2> QED
    BY <2>1, <2>2, <2>3, <2>4
<1> QED
  BY <1>1, <1>2, FreshInit, FreshStep, PTL DEF Spec

-----------------------------------------------------------------------------
(* What a run says of itself: what left, what is reported, saved and         *)
(* returned as the exit code.                                                *)

Untold == {"idle", "flags", "parse", "select"}
OnWire == {"wait", "post", "report", "done"}

Left(k) == \E j \in 1..Len(wire) : wire[j].at = k

(* The results so far and the requests that left belong together; the one    *)
(* being handled is beyond the results.                                      *)
Wired ==
    /\ Len(outcomes) <= Len(todo)
    /\ phase \in Untold => wire = <<>> /\ outcomes = <<>>
    /\ \A j, k \in 1..Len(wire) : j < k => wire[j].at < wire[k].at
    /\ \A j \in 1..Len(wire) :
         wire[j].at <= Len(outcomes) + 1 /\ wire[j].at <= Len(todo)
    /\ phase \notin OnWire =>
         \A j \in 1..Len(wire) : wire[j].at <= Len(outcomes)
    /\ \A k \in 1..Len(outcomes) :
         /\ Responded(outcomes[k].verdict) => Left(k)
         /\ outcomes[k].verdict \in {"pre", "unresolved"} => ~Left(k)
    /\ phase \in {"wait", "post"} => Left(Len(outcomes) + 1)
    /\ phase = "report" =>
         /\ Responded(verdict) => Left(Len(outcomes) + 1)
         /\ verdict \in {"pre", "unresolved"} => ~Left(Len(outcomes) + 1)

LEMMA WiredInit == Init => Wired
  BY DEF Init, Wired, Untold, OnWire

(* A step that adds neither a result nor a request to the wire.              *)
LEMMA WiredKept ==
    ASSUME Wired, UNCHANGED <<wire, outcomes, todo>>,
           phase' \in Untold => wire = <<>> /\ outcomes = <<>>,
           phase \in OnWire => phase' \in OnWire,
           phase' \in {"wait", "post"} => phase \in {"wait", "post"},
           phase' = "report" =>
             \/ phase \in {"wait", "post"} /\ verdict' \notin {"pre", "unresolved"}
             \/ phase \notin OnWire /\ verdict' \in {"pre", "unresolved", "transport"}
             \/ phase = "report" /\ verdict' = verdict,
           Len(outcomes) \in Nat
    PROVE  Wired'
  BY DEF Wired, Left, OnWire, Responded

LEMMA WiredStep == Shaped /\ Wired /\ [Next]_vars => Wired'
<1> SUFFICES ASSUME Shaped, Wired, [Next]_vars
             PROVE  Wired'
  OBVIOUS
<1>0. /\ wire \in Seq(Sent) /\ outcomes \in Seq(Outcome)
      /\ Len(wire) \in Nat /\ Len(outcomes) \in Nat /\ Len(todo) \in Nat
      /\ \A j \in 1..Len(wire) : wire[j].at \in Nat
  <2>1. wire \in Seq(Sent) /\ outcomes \in Seq(Outcome) /\ todo \in Seq(Request)
    BY DEF Shaped, TypeOK
  <2>2. \A j \in 1..Len(wire) : wire[j] \in Sent
    BY <2>1
  <2>3. \A j \in 1..Len(wire) : wire[j].at \in Nat
    BY <2>2 DEF Sent
  <2> QED
    BY <2>1, <2>3
<1> USE <1>0 DEF invocation, store, network, results
<1>1. ASSUME NEW o \in Options, NEW f \in Plans, Invoke(o, f)
      PROVE  Wired'
  BY <1>1 DEF Invoke, Wired, Untold, OnWire
<1>2. ASSUME NEW n \in Names, NEW v \in Values,
             SetGlobal(n, v) \/ SetGlobalFails(n, v)
      PROVE  Wired'
  BY <1>2, WiredKept DEF SetGlobal, SetGlobalFails, InScript, Untold
<1>3. CASE \/ RejectFlags \/ RejectEnv \/ RejectConfig
           \/ RejectState \/ RejectFile
           \/ ValidateNothing \/ ConvertNothing \/ RefuseToConvert
           \/ RejectSelection \/ DownloadFails
  <2>1. phase' = "done" /\ UNCHANGED <<wire, outcomes, todo>>
    BY <1>3 DEF RejectFlags, RejectEnv, RejectConfig,
       RejectState, RejectFile,
       ValidateNothing, ConvertNothing, RefuseToConvert, RejectSelection,
       DownloadFails, Abort
  <2> QED
    BY <2>1, WiredKept DEF Untold, OnWire
<1>4. CASE LoadState \/ AcceptFile \/ Validate
  BY <1>4, WiredKept DEF LoadState, AcceptFile, Validate, Wired, Untold, OnWire
<1>5. CASE Select \/ Convert
  <2>1. /\ wire = <<>> /\ outcomes = <<>> /\ UNCHANGED <<wire, outcomes>>
        /\ phase' \in {"next", "done"}
    BY <1>5 DEF Select, Convert, Wired, Untold
  <2>2. Len(todo') >= 0
    BY <1>5, ShapedStep DEF Shaped, TypeOK
  <2> QED
    BY <2>1, <2>2 DEF Wired, Untold, OnWire
<1>6. CASE StartRequest \/ PreScriptEnds \/ Resolve \/ ScriptTouchesFile
  BY <1>6, WiredKept DEF StartRequest, PreScriptEnds, Resolve,
     ScriptTouchesFile, InScript, Untold, OnWire
<1>7. CASE Dispatch
  <2>1. PICK c : wire' = Append(wire,
                   [at |-> Len(outcomes) + 1, seen |-> resolved, by |-> c])
    BY <1>7 DEF Dispatch
  <2>2. /\ Len(wire') = Len(wire) + 1
        /\ \A j \in 1..Len(wire) : wire'[j] = wire[j]
        /\ wire'[Len(wire) + 1].at = Len(outcomes) + 1
    BY <2>1
  <2>3. /\ phase = "send" /\ phase' = "wait" /\ UNCHANGED <<outcomes, todo>>
        /\ Len(outcomes) + 1 <= Len(todo)
    BY <1>7 DEF Dispatch, Shaped, Handling, TypeOK
  <2>4. ASSUME NEW k \in 1..Len(outcomes)
        PROVE  Left(k)' <=> Left(k)
    <3>1. Left(k) => Left(k)'
      BY <2>2 DEF Left
    <3>2. ASSUME NEW j \in 1..Len(wire'), wire'[j].at = k
          PROVE  j \in 1..Len(wire) /\ wire[j].at = k
      BY <2>2, <3>2
    <3> QED
      BY <3>1, <3>2 DEF Left
  <2>5. Left(Len(outcomes) + 1)'
    BY <2>2, <2>3 DEF Left
  <2>6. \A j \in 1..Len(wire) : wire[j].at <= Len(outcomes)
    BY <2>3 DEF Wired, OnWire
  <2>7. ASSUME NEW j \in 1..Len(wire'), NEW k \in 1..Len(wire'), j < k
        PROVE  wire'[j].at < wire'[k].at
    <3>1. j \in 1..Len(wire) /\ wire'[j].at <= Len(outcomes)
      BY <2>2, <2>6, <2>7
    <3>2. CASE k = Len(wire) + 1
      BY <2>2, <3>1, <3>2
    <3>3. CASE k \in 1..Len(wire)
      BY <2>2, <2>7, <3>1, <3>3 DEF Wired
    <3> QED
      BY <2>2, <3>2, <3>3
  <2>8. ASSUME NEW j \in 1..Len(wire')
        PROVE  wire'[j].at <= Len(outcomes) + 1 /\ wire'[j].at <= Len(todo)
    BY <2>2, <2>3, <2>6
  <2>9. \A k \in 1..Len(outcomes) :
          /\ Responded(outcomes[k].verdict) => Left(k)'
          /\ outcomes[k].verdict \in {"pre", "unresolved"} => ~Left(k)'
    BY <2>4 DEF Wired
  <2> QED
    BY <2>3, <2>5, <2>7, <2>8, <2>9 DEF Wired, Untold, OnWire
<1>8. CASE CannotConnect \/ Reply \/ BreakOff \/ TimeOut \/ PostScriptEnds
  BY <1>8, WiredKept DEF CannotConnect, Reply, BreakOff, TimeOut,
     PostScriptEnds, Untold, OnWire
<1>9. CASE Report
  <2>1. /\ outcomes' = Append(outcomes, [id |-> current.id, verdict |-> verdict])
        /\ phase = "report" /\ phase' = "next" /\ UNCHANGED <<wire, todo>>
        /\ Len(outcomes) + 1 <= Len(todo)
    BY <1>9 DEF Report, Shaped, Handling, TypeOK
  <2>2. /\ Len(outcomes') = Len(outcomes) + 1
        /\ \A k \in 1..Len(outcomes) : outcomes'[k] = outcomes[k]
        /\ outcomes'[Len(outcomes) + 1].verdict = verdict
    BY <2>1
  <2>3. \A k \in 1..Len(outcomes') : Left(k)' <=> Left(k)
    BY <2>1 DEF Left
  <2>4. \A k \in 1..Len(outcomes') :
          /\ Responded(outcomes'[k].verdict) => Left(k)'
          /\ outcomes'[k].verdict \in {"pre", "unresolved"} => ~Left(k)'
    BY <2>1, <2>2, <2>3 DEF Wired
  <2>5. \A j, k \in 1..Len(wire') : j < k => wire'[j].at < wire'[k].at
    BY <2>1 DEF Wired
  <2>6. \A j \in 1..Len(wire') :
          wire'[j].at <= Len(outcomes') /\ wire'[j].at <= Len(todo')
    BY <2>1, <2>2 DEF Wired
  <2>7. Len(outcomes') <= Len(todo') /\ Len(outcomes') \in Nat
    BY <2>1, <2>2
  <2>8. \A j \in 1..Len(wire') : wire'[j].at <= Len(outcomes') + 1
    BY <2>1, <2>6, <2>7
  <2> QED
    BY <2>1, <2>4, <2>5, <2>6, <2>7, <2>8 DEF Wired, Untold, OnWire
<1>10. CASE Finish
  BY <1>10, WiredKept DEF Finish, Untold, OnWire
<1>11. CASE UNCHANGED vars
  BY <1>11, WiredKept DEF vars, Wired, OnWire
<1> QED
  BY <1>1, <1>2, <1>3, <1>4, <1>5, <1>6, <1>7, <1>8, <1>9, <1>10, <1>11
  DEF Next, Progress

(* Requests leave once each and in order, results with a response stand for  *)
(* requests that left, and none leaves behind a failed script.               *)
THEOREM ReportMatchesWire == Spec => []WireMatchesReport
<1>1. Wired => WireMatchesReport
  BY DEF Wired, WireMatchesReport, Left
<1> QED
  BY <1>1, ShapedInit, ShapedStep, WiredInit, WiredStep, PTL DEF Spec

-----------------------------------------------------------------------------
(* The counter tells whether a result is bad, an error ends the command, and *)
(* with -download there is one request, whose response is what was saved.    *)
Bad == \E k \in 1..Len(outcomes) : outcomes[k].verdict # "ok"
GotResponse == \E k \in 1..Len(outcomes) : Responded(outcomes[k].verdict)

Told ==
    /\ phase \in Untold => outcomes = <<>> /\ failed = 0 /\ ~saved
    /\ phase # "done" => abort = "no" /\ exit = 0
    /\ failed > 0 <=> Bad
    /\ phase = "done" => (exit = 1 <=> abort # "no" \/ Bad)
    /\ opts.download =>
         /\ phase \notin Untold \cup {"done"} => Len(todo) = 1
         /\ saved <=> GotResponse

LEMMA ToldInit == Init => Told
  BY DEF Init, Told, Untold, Bad, GotResponse

(* A step between the selection and the end that adds no result.             *)
LEMMA ToldKept ==
    ASSUME Told, UNCHANGED <<invocation, todo, results, abort, exit>>,
           phase \notin Untold \cup {"done"},
           phase' \notin Untold \cup {"done"}
    PROVE  Told'
  BY DEF Told, Bad, GotResponse, invocation, results

LEMMA ToldStep == Shaped /\ Told /\ [Next]_vars => Told'
<1> SUFFICES ASSUME Shaped, Told, [Next]_vars
             PROVE  Told'
  OBVIOUS
<1>0. /\ outcomes \in Seq(Outcome) /\ Len(outcomes) \in Nat
      /\ failed \in Nat /\ phase \in Phases /\ opts \in Options
      /\ Len(todo) \in Nat
  BY DEF Shaped, TypeOK
<1> USE <1>0 DEF invocation, store, network, results
<1>1. ASSUME NEW o \in Options, NEW f \in Plans, Invoke(o, f)
      PROVE  Told'
  BY <1>1 DEF Invoke, Told, Untold, Bad, GotResponse
<1>2. CASE \/ RejectFlags \/ RejectEnv \/ RejectConfig
           \/ RejectState \/ RejectFile
           \/ ValidateNothing \/ ConvertNothing \/ RefuseToConvert
           \/ RejectSelection \/ DownloadFails
  <2>1. /\ phase' = "done" /\ abort' # "no" /\ exit' = 1
        /\ UNCHANGED <<opts, todo, results>>
    BY <1>2 DEF RejectFlags, RejectEnv, RejectConfig,
       RejectState, RejectFile,
       ValidateNothing, ConvertNothing, RefuseToConvert, RejectSelection,
       DownloadFails, Abort
  <2> QED
    BY <2>1 DEF Told, Untold, Bad, GotResponse
<1>3. CASE LoadState \/ AcceptFile
  BY <1>3 DEF LoadState, AcceptFile, Told, Untold, Bad, GotResponse
<1>4. CASE Validate \/ Convert
  <2>1. /\ outcomes = <<>> /\ failed = 0 /\ ~saved /\ phase' = "done"
        /\ UNCHANGED <<opts, results>> /\ (exit' = 1 <=> abort' # "no")
    BY <1>4 DEF Validate, Convert, Told, Untold
  <2> QED
    BY <2>1 DEF Told, Untold, Bad, GotResponse
<1>5. CASE Select
  <2>1. opts.download => Len(todo') = 1
    BY <1>5 DEF Select, NothingToSelect, Selections
  <2>2. /\ outcomes = <<>> /\ failed = 0 /\ ~saved /\ phase' = "next"
        /\ abort = "no" /\ exit = 0
        /\ UNCHANGED <<opts, results, abort, exit>>
    BY <1>5 DEF Select, Told, Untold
  <2> QED
    BY <2>1, <2>2 DEF Told, Untold, Bad, GotResponse
<1>6. ASSUME NEW n \in Names, NEW v \in Values,
             SetGlobal(n, v) \/ SetGlobalFails(n, v)
      PROVE  Told'
  BY <1>6, ToldKept DEF SetGlobal, SetGlobalFails, InScript, Untold
<1>7. CASE StartRequest \/ PreScriptEnds \/ Resolve \/ ScriptTouchesFile
  BY <1>7, ToldKept DEF StartRequest, PreScriptEnds, Resolve,
     ScriptTouchesFile, InScript, Untold
<1>8. CASE \/ Dispatch \/ CannotConnect \/ Reply \/ BreakOff \/ TimeOut
           \/ PostScriptEnds
  BY <1>8, ToldKept DEF Dispatch, CannotConnect, Reply, BreakOff, TimeOut,
     PostScriptEnds, Untold
<1>9. CASE Report
  <2>1. /\ outcomes' = Append(outcomes, [id |-> current.id, verdict |-> verdict])
        /\ failed' = IF verdict = "ok" THEN failed ELSE failed + 1
        /\ saved' = (opts.download /\ Responded(verdict))
        /\ phase = "report" /\ phase' = "next"
        /\ Len(outcomes) + 1 <= Len(todo)
        /\ UNCHANGED <<opts, todo, abort, exit>>
    BY <1>9 DEF Report, Shaped, Handling
  <2>2. /\ Len(outcomes') = Len(outcomes) + 1
        /\ \A k \in 1..Len(outcomes) : outcomes'[k] = outcomes[k]
        /\ outcomes'[Len(outcomes) + 1].verdict = verdict
    BY <2>1
  <2>3. Bad' <=> Bad \/ verdict # "ok"
    BY <2>2 DEF Bad
  <2>4. failed' > 0 <=> Bad'
    BY <2>1, <2>3 DEF Told
  <2>5. opts.download => Len(todo) = 1 /\ Len(outcomes) = 0
    <3>1. phase \notin Untold \cup {"done"}
      BY <2>1 DEF Untold
    <3>2. opts.download => Len(todo) = 1
      BY <3>1 DEF Told
    <3> QED
      BY <2>1, <3>2
  <2>6. opts.download => (GotResponse' <=> Responded(verdict))
    BY <2>2, <2>5 DEF GotResponse
  <2> QED
    BY <2>1, <2>4, <2>5, <2>6 DEF Told, Untold
<1>10. CASE Finish
  <2>1. /\ phase' = "done" /\ abort = "no" /\ exit' = IF failed > 0 THEN 1 ELSE 0
        /\ UNCHANGED <<opts, todo, outcomes, failed, saved, abort>>
    BY <1>10 DEF Finish, Told
  <2> QED
    BY <2>1 DEF Told, Untold, Bad, GotResponse
<1>11. CASE UNCHANGED vars
  BY <1>11 DEF vars, Told, Untold, Bad, GotResponse
<1> QED
  BY <1>1, <1>2, <1>3, <1>4, <1>5, <1>6, <1>7, <1>8, <1>9, <1>10, <1>11
  DEF Next, Progress

LEMMA ToldOfResults ==
    ASSUME Shaped, Told
    PROVE  ExitTellsFailure /\ DownloadKept
<1>1. (\E o \in Range(outcomes) : o.verdict # "ok") <=> Bad
  BY DEF Shaped, TypeOK, Range, Bad
<1>2. (\E o \in Range(outcomes) : Responded(o.verdict)) <=> GotResponse
  BY DEF Shaped, TypeOK, Range, GotResponse, Responded
<1> QED
  BY <1>1, <1>2 DEF Told, ExitTellsFailure, DownloadKept

(* The exit code is 1 exactly for a command that stopped early or with a     *)
(* result that is not good, of whichever requests and in whichever order.    *)
THEOREM ExitCodeTells == Spec => []ExitTellsFailure
  BY ToldOfResults, ShapedInit, ShapedStep, ToldInit, ToldStep, PTL DEF Spec

(* A download is saved exactly when a response came, whatever its script did. *)
THEOREM DownloadsKept == Spec => []DownloadKept
  BY ToldOfResults, ShapedInit, ShapedStep, ToldInit, ToldStep, PTL DEF Spec

-----------------------------------------------------------------------------
(* What is on stdout so far, if it is printed at once; the results stand for *)
(* the first of the selected requests.                                       *)
Shown ==
    /\ phase \in Untold => outcomes = <<>> /\ printed = <<>>
    /\ phase \notin {"idle", "flags"} /\ abort = "no" /\ opts.command = "run" =>
         ~(opts.json /\ opts.silent)
    /\ ~opts.json => PrintsWanted
    /\ \A k \in 1..Len(outcomes) : outcomes[k].id = todo[k].id
    /\ phase = "done" /\ abort = "no" /\ opts.command = "run" =>
         /\ Len(outcomes) = Len(todo)
         /\ opts.json => printed = outcomes

LEMMA NothingWanted ==
    ASSUME outcomes = <<>>, printed = <<>>
    PROVE  PrintsWanted
<1> DEFINE f == [j \in 1..Len(printed) |-> 0]
<1>1. Len(printed) = 0 /\ Len(outcomes) = 0 /\ f \in [1..Len(printed) -> 1..Len(outcomes)]
  OBVIOUS
<1>2. (\A j \in 1..Len(printed) : FALSE) /\ (\A k \in 1..Len(outcomes) : FALSE)
  BY <1>1
<1> HIDE DEF f
<1> QED
  BY <1>1, <1>2 DEF PrintsWanted

LEMMA ShownInit == Init => Shown
  BY NothingWanted DEF Init, Shown

(* A step that adds no result.                                               *)
LEMMA ShownKept ==
    ASSUME Shown, UNCHANGED <<opts, outcomes, printed>>,
           abort' = abort \/ opts.command # "run",
           todo' = todo \/ (outcomes = <<>> /\ phase # "done"),
           phase' \in Untold => phase \in Untold,
           phase \in {"idle", "flags"} =>
             phase' \in {"idle", "flags"} \/ ~FlagsClash,
           phase' = "done" => phase = "done" \/ opts.command # "run"
    PROVE  Shown'
<1>1. PrintsWanted' <=> PrintsWanted
  BY DEF PrintsWanted
<1>2. phase' \in Untold => outcomes' = <<>> /\ printed' = <<>>
  BY DEF Shown
<1>3. phase' \notin {"idle", "flags"} /\ abort' = "no" /\ opts'.command = "run" =>
        ~(opts'.json /\ opts'.silent)
  BY DEF Shown, FlagsClash
<1>4. \A k \in 1..Len(outcomes') : outcomes'[k].id = todo'[k].id
  <2>1. outcomes = <<>> => Len(outcomes) = 0
    OBVIOUS
  <2> QED
    BY <2>1 DEF Shown
<1>5. phase' = "done" /\ abort' = "no" /\ opts'.command = "run" =>
        /\ Len(outcomes') = Len(todo')
        /\ opts'.json => printed' = outcomes'
  BY DEF Shown
<1> QED
  BY <1>1, <1>2, <1>3, <1>4, <1>5 DEF Shown

(* The next result, printed or not, goes with those before it.               *)
LEMMA WantedGrows ==
    ASSUME outcomes \in Seq(Outcome), printed \in Seq(Outcome), PrintsWanted,
           NEW o \in Outcome, opts' = opts,
           outcomes' = Append(outcomes, o),
           printed' = IF opts.silent => Responded(o.verdict)
                      THEN Append(printed, o) ELSE printed
    PROVE  PrintsWanted'
<1>1. PICK f \in [1..Len(printed) -> 1..Len(outcomes)] :
        /\ \A j, k \in 1..Len(printed) : j < k => f[j] < f[k]
        /\ \A j \in 1..Len(printed) : printed[j] = outcomes[f[j]]
        /\ \A k \in 1..Len(outcomes) :
             (\E j \in 1..Len(printed) : f[j] = k)
                <=> (opts.silent => Responded(outcomes[k].verdict))
  BY DEF PrintsWanted
<1>2. /\ Len(outcomes) \in Nat /\ Len(outcomes') = Len(outcomes) + 1
      /\ \A k \in 1..Len(outcomes) : outcomes'[k] = outcomes[k]
      /\ outcomes'[Len(outcomes) + 1] = o /\ Len(printed) \in Nat
  OBVIOUS
<1>6. \A k \in 1..Len(outcomes') : k \in 1..Len(outcomes) \/ k = Len(outcomes) + 1
  BY <1>2
<1>3. \A j \in 1..Len(printed) : f[j] \in 1..Len(outcomes)
  BY <1>1
<1>4. CASE opts.silent => Responded(o.verdict)
  <2> DEFINE g == [j \in 1..Len(printed') |->
                    IF j = Len(printed) + 1 THEN Len(outcomes) + 1 ELSE f[j]]
  <2>1. /\ Len(printed') = Len(printed) + 1
        /\ \A j \in 1..Len(printed) : printed'[j] = printed[j]
        /\ printed'[Len(printed) + 1] = o
    BY <1>4
  <2>2. /\ g[Len(printed) + 1] = Len(outcomes) + 1
        /\ \A j \in 1..Len(printed) : g[j] = f[j]
    BY <1>2, <2>1
  <2>3. g \in [1..Len(printed') -> 1..Len(outcomes')]
    BY <1>2, <1>3, <2>1
  <2>4. \A j \in 1..Len(printed') : j \in 1..Len(printed) \/ j = Len(printed) + 1
    BY <1>2, <2>1
  <2>5. \A j, k \in 1..Len(printed') : j < k => g[j] < g[k]
    <3>1. ASSUME NEW j \in 1..Len(printed'), NEW k \in 1..Len(printed'), j < k
          PROVE  g[j] < g[k]
      <4>1. j \in 1..Len(printed) /\ g[j] = f[j]
        BY <1>2, <2>1, <2>2, <3>1
      <4>2. CASE k \in 1..Len(printed)
        BY <1>1, <2>2, <3>1, <4>1, <4>2
      <4>3. CASE k = Len(printed) + 1
        BY <1>2, <1>3, <2>2, <4>1, <4>3
      <4> QED
        BY <2>4, <4>2, <4>3
    <3> QED
      BY <3>1
  <2>6. \A j \in 1..Len(printed') : printed'[j] = outcomes'[g[j]]
    BY <1>1, <1>2, <1>3, <2>1, <2>2, <2>4
  <2>7. ASSUME NEW k \in 1..Len(outcomes')
        PROVE  (\E j \in 1..Len(printed') : g[j] = k)
                 <=> (opts.silent => Responded(outcomes'[k].verdict))
    <3>1. CASE k = Len(outcomes) + 1
      <4>1. Len(printed) + 1 \in 1..Len(printed')
        BY <1>2, <2>1
      <4> QED
        BY <1>2, <1>4, <2>2, <3>1, <4>1
    <3>2. CASE k \in 1..Len(outcomes)
      <4>1. (\E j \in 1..Len(printed') : g[j] = k) <=> \E j \in 1..Len(printed) : f[j] = k
        <5>1. ASSUME NEW j \in 1..Len(printed'), g[j] = k
              PROVE  j \in 1..Len(printed) /\ f[j] = k
          BY <1>2, <2>2, <2>4, <3>2, <5>1
        <5>2. \A j \in 1..Len(printed) : j \in 1..Len(printed') /\ g[j] = f[j]
          BY <1>2, <2>1, <2>2
        <5> HIDE DEF g
        <5> QED
          BY <5>1, <5>2
      <4> QED
        BY <1>1, <1>2, <3>2, <4>1
    <3> QED
      BY <1>6, <3>1, <3>2
  <2> HIDE DEF g
  <2>8. \A k \in 1..Len(outcomes') :
          (\E j \in 1..Len(printed') : g[j] = k)
            <=> (opts'.silent => Responded(outcomes'[k].verdict))
    BY <2>7
  <2> QED
    BY <2>3, <2>5, <2>6, <2>8 DEF PrintsWanted
<1>5. CASE ~(opts.silent => Responded(o.verdict))
  <2>1. printed' = printed
    BY <1>5
  <2>2. f \in [1..Len(printed) -> 1..Len(outcomes')]
    BY <1>2
  <2>3. ASSUME NEW k \in 1..Len(outcomes')
        PROVE  (\E j \in 1..Len(printed) : f[j] = k)
                 <=> (opts.silent => Responded(outcomes'[k].verdict))
    <3>1. CASE k = Len(outcomes) + 1
      <4>1. \A j \in 1..Len(printed) : f[j] # k
        BY <1>2, <1>3, <3>1
      <4>2. outcomes'[k] = o
        BY <1>2, <3>1
      <4> QED
        BY <1>5, <4>1, <4>2
    <3>2. CASE k \in 1..Len(outcomes)
      <4>1. outcomes'[k] = outcomes[k]
        BY <1>2, <3>2
      <4> QED
        BY <1>1, <3>2, <4>1
    <3> QED
      BY <1>6, <3>1, <3>2
  <2>4. \A j \in 1..Len(printed) : printed[j] = outcomes'[f[j]]
    BY <1>1, <1>2, <1>3
  <2>5. \A k \in 1..Len(outcomes') :
          (\E j \in 1..Len(printed') : f[j] = k)
            <=> (opts'.silent => Responded(outcomes'[k].verdict))
    BY <2>1, <2>3
  <2>6. /\ f \in [1..Len(printed') -> 1..Len(outcomes')]
        /\ \A j, k \in 1..Len(printed') : j < k => f[j] < f[k]
        /\ \A j \in 1..Len(printed') : printed'[j] = outcomes'[f[j]]
    BY <1>1, <2>1, <2>2, <2>4
  <2> QED
    BY <2>5, <2>6 DEF PrintsWanted
<1> QED
  BY <1>4, <1>5

LEMMA ShownStep == Shaped /\ Shown /\ [Next]_vars => Shown'
<1> SUFFICES ASSUME Shaped, Shown, [Next]_vars
             PROVE  Shown'
  OBVIOUS
<1>0. /\ outcomes \in Seq(Outcome) /\ printed \in Seq(Outcome)
      /\ Len(outcomes) \in Nat
  BY DEF Shaped, TypeOK
<1> USE DEF invocation, store, network, results
<1>1. ASSUME NEW o \in Options, NEW f \in Plans, Invoke(o, f)
      PROVE  Shown'
  <2>1. phase' = "flags" /\ outcomes' = <<>> /\ printed' = <<>>
    BY <1>1 DEF Invoke
  <2>2. PrintsWanted'
    <3> DEFINE nobody == [j \in 1..Len(printed') |-> 0]
    <3>1. /\ Len(printed') = 0 /\ Len(outcomes') = 0
          /\ nobody \in [1..Len(printed') -> 1..Len(outcomes')]
      BY <2>1
    <3>2. (\A j \in 1..Len(printed') : FALSE) /\ (\A k \in 1..Len(outcomes') : FALSE)
      BY <3>1
    <3> HIDE DEF nobody
    <3> QED
      BY <3>1, <3>2 DEF PrintsWanted
  <2> QED
    BY <2>1, <2>2 DEF Shown
<1>2. ASSUME NEW n \in Names, NEW v \in Values,
             SetGlobal(n, v) \/ SetGlobalFails(n, v)
      PROVE  Shown'
  BY <1>2, ShownKept DEF SetGlobal, SetGlobalFails, InScript, Untold
<1>3. CASE \/ RejectFlags \/ RejectEnv \/ RejectConfig
           \/ RejectState \/ RejectFile
           \/ ValidateNothing \/ ConvertNothing \/ RefuseToConvert
           \/ RejectSelection \/ DownloadFails
  <2>1. /\ phase' = "done" /\ abort' # "no"
        /\ UNCHANGED <<opts, todo, outcomes, printed>>
    BY <1>3 DEF RejectFlags, RejectEnv, RejectConfig,
       RejectState, RejectFile,
       ValidateNothing, ConvertNothing, RefuseToConvert, RejectSelection,
       DownloadFails, Abort
  <2>2. PrintsWanted' <=> PrintsWanted
    BY <2>1 DEF PrintsWanted
  <2> QED
    BY <2>1, <2>2 DEF Shown, Untold
<1>4. CASE LoadState \/ AcceptFile \/ Validate \/ Convert \/ Select
  <2>1. outcomes = <<>> /\ phase # "done"
    BY <1>4 DEF LoadState, AcceptFile, Validate, Convert, Select, Shown, Untold
  <2>2. CASE LoadState \/ AcceptFile
    BY <2>1, <2>2, ShownKept DEF LoadState, AcceptFile, Untold
  <2>3. CASE Validate \/ Convert \/ Select
    BY <2>1, <2>3, ShownKept DEF Validate, Convert, Select, Untold
  <2> QED
    BY <1>4, <2>2, <2>3
<1>5. CASE StartRequest \/ PreScriptEnds \/ Resolve \/ ScriptTouchesFile
  BY <1>5, ShownKept DEF StartRequest, PreScriptEnds, Resolve,
     ScriptTouchesFile, InScript, Untold
<1>6. CASE \/ Dispatch \/ CannotConnect \/ Reply \/ BreakOff \/ TimeOut
           \/ PostScriptEnds
  BY <1>6, ShownKept DEF Dispatch, CannotConnect, Reply, BreakOff, TimeOut,
     PostScriptEnds, Untold
<1>7. CASE Report
  <2> DEFINE o == [id |-> current.id, verdict |-> verdict]
  <2>1. /\ outcomes' = Append(outcomes, o)
        /\ printed' = IF Shows(o) THEN Append(printed, o) ELSE printed
        /\ phase = "report" /\ phase' = "next"
        /\ UNCHANGED <<opts, todo, abort>>
    BY <1>7 DEF Report
  <2>2. o \in Outcome
    BY <1>0, <2>1, ShapedStep DEF Shaped, TypeOK
  <2>3. /\ Len(outcomes') = Len(outcomes) + 1
        /\ \A k \in 1..Len(outcomes) : outcomes'[k] = outcomes[k]
        /\ outcomes'[Len(outcomes) + 1].id = todo[Len(outcomes) + 1].id
    BY <1>0, <2>1 DEF current
  <2>4. \A k \in 1..Len(outcomes') : outcomes'[k].id = todo'[k].id
    BY <1>0, <2>1, <2>3 DEF Shown
  <2>5. ~opts.json => PrintsWanted'
    <3> HIDE DEF o
    <3> QED
      BY <1>0, <2>1, <2>2, WantedGrows DEF Shows, Shown
  <2> QED
    BY <2>1, <2>4, <2>5 DEF Shown, Untold
<1>8. CASE Finish
  <2>1. /\ phase = "next" /\ phase' = "done" /\ Len(outcomes) = Len(todo)
        /\ printed' = IF opts.json THEN outcomes ELSE printed
        /\ UNCHANGED <<opts, todo, outcomes, abort>>
    BY <1>8 DEF Finish
  <2>2. ASSUME ~opts.json
        PROVE  PrintsWanted'
    <3>1. printed' = printed /\ outcomes' = outcomes /\ opts' = opts /\ PrintsWanted
      BY <2>1, <2>2 DEF Shown
    <3> QED
      BY <3>1 DEF PrintsWanted, Responded
  <2> QED
    BY <2>1, <2>2 DEF Shown, Untold
<1>9. CASE UNCHANGED vars
  <2>1. PrintsWanted' <=> PrintsWanted
    BY <1>9 DEF PrintsWanted, vars
  <2> QED
    BY <1>9, <2>1 DEF vars, Shown
<1> QED
  BY <1>1, <1>2, <1>3, <1>4, <1>5, <1>6, <1>7, <1>8, <1>9
  DEF Next, Progress

(* A run that is not stopped early reports every selected request, once and  *)
(* in its place, however many failed: at once, or all of it as JSON; only    *)
(* with -silent are the ones without a response left out.                    *)
THEOREM EveryResultReported == Spec => []ReportsComplete
<1>1. Shaped /\ Shown => ReportsComplete
  <2> SUFFICES ASSUME Shaped, Shown, phase = "done", abort = "no",
                      opts.command = "run"
               PROVE  /\ Len(outcomes) = Len(todo)
                      /\ \A k \in 1..Len(todo) : outcomes[k].id = todo[k].id
                      /\ PrintsWanted
    BY DEF ReportsComplete
  <2>1. CASE opts.json
    <3>1. printed = outcomes /\ ~opts.silent
      BY <2>1 DEF Shown
    <3> DEFINE f == [j \in 1..Len(printed) |-> j]
    <3>2. f \in [1..Len(printed) -> 1..Len(outcomes)]
      BY <3>1
    <3>3. \A j \in 1..Len(printed) : f[j] = j
      OBVIOUS
    <3> HIDE DEF f
    <3>4. PrintsWanted
      BY <3>1, <3>2, <3>3 DEF PrintsWanted
    <3> QED
      BY <3>4 DEF Shown
  <2>2. CASE ~opts.json
    BY <2>2 DEF Shown
  <2> QED
    BY <2>1, <2>2
<1> QED
  BY <1>1, ShapedInit, ShapedStep, ShownInit, ShownStep, PTL DEF Spec

=============================================================================
