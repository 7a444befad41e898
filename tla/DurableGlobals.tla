--------------------------- MODULE DurableGlobals ---------------------------
(***************************************************************************)
(* What httpfly promises about client.global, as doc/scripting.md and the  *)
(* comments of internal/state and internal/script tell it: one durable     *)
(* store with one bucket per environment.  A run opens a view of its own   *)
(* bucket; a set reaches the store before the script goes on, and reaches  *)
(* no other bucket; a later run sees everything earlier runs set.          *)
(*                                                                         *)
(* There is no state file here, no reading back of other buckets and no    *)
(* truncation: StateStore has those and is shown to implement this module  *)
(* as long as the runs of one directory do not overlap.  The one way the   *)
(* promise is known to end is stated as an action of its own: a set that   *)
(* is cut short may lose the store for good, and every later run refuses.  *)
(***************************************************************************)
CONSTANTS
    Procs,     \* httpfly processes started in one working directory
    Envs,      \* environments, no -env at all being one of them
    Names,     \* names of variables
    Vals,      \* values a script may store
    Unset      \* stands for a name that has no value

VARIABLES
    store,     \* store[e] is the durable bucket of environment e
    lost,      \* the store can no longer be opened
    stage,     \* where a process is with respect to the store
    env,       \* the environment of a process
    view       \* the bucket as the process's own scripts see it

vars == <<store, lost, stage, env, view>>

Bucket == [Names -> Vals \cup {Unset}]
Nothing == [n \in Names |-> Unset]
Stages == {"off", "open", "setting", "refused"}

Init ==
    /\ store = [e \in Envs |-> Nothing]
    /\ lost = FALSE
    /\ stage = [p \in Procs |-> "off"]
    /\ env \in [Procs -> Envs]
    /\ view = [p \in Procs |-> Nothing]

(* One run at a time: it starts from everything the runs before it kept.   *)
Open(p, e) ==
    /\ \A q \in Procs : stage[q] = "off"
    /\ ~lost
    /\ stage' = [stage EXCEPT ![p] = "open"]
    /\ env' = [env EXCEPT ![p] = e]
    /\ view' = [view EXCEPT ![p] = store[e]]
    /\ UNCHANGED <<store, lost>>

Refuse(p) ==
    /\ stage[p] = "off"
    /\ lost
    /\ stage' = [stage EXCEPT ![p] = "refused"]
    /\ UNCHANGED <<store, lost, env, view>>

(* client.global:set changes the view first ...                            *)
Assign(p, n, v) ==
    /\ stage[p] = "open"
    /\ stage' = [stage EXCEPT ![p] = "setting"]
    /\ view' = [view EXCEPT ![p][n] = v]
    /\ UNCHANGED <<store, lost, env>>

(* ... and the bucket of its own environment, and only that one, next.     *)
Commit(p) ==
    /\ stage[p] = "setting"
    /\ ~lost
    /\ stage' = [stage EXCEPT ![p] = "open"]
    /\ store' = [store EXCEPT ![env[p]] = view[p]]
    /\ UNCHANGED <<lost, env, view>>

(* The set fails: the script gets an error, the store is as it was, and    *)
(* the view keeps the value.                                               *)
Abandon(p) ==
    /\ stage[p] = "setting"
    /\ stage' = [stage EXCEPT ![p] = "open"]
    /\ UNCHANGED <<store, lost, env, view>>

(* The set, or the whole process, is cut short and takes the store along.  *)
Lose(p) ==
    /\ stage[p] = "setting"
    /\ lost' = TRUE
    /\ \E s \in {"open", "off"} : stage' = [stage EXCEPT ![p] = s]
    /\ view' = IF stage'[p] = "off" THEN [view EXCEPT ![p] = Nothing] ELSE view
    /\ UNCHANGED <<store, env>>

(* The process ends or is killed.                                          *)
Close(p) ==
    /\ stage[p] # "off"
    /\ stage' = [stage EXCEPT ![p] = "off"]
    /\ view' = [view EXCEPT ![p] = Nothing]
    /\ UNCHANGED <<store, lost, env>>

Next ==
    \E p \in Procs :
        \/ \E e \in Envs : Open(p, e)
        \/ Refuse(p)
        \/ \E n \in Names, v \in Vals : Assign(p, n, v)
        \/ Commit(p)
        \/ Abandon(p)
        \/ Lose(p)
        \/ Close(p)

Spec == Init /\ [][Next]_vars
=============================================================================
