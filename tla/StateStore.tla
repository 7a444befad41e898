----------------------------- MODULE StateStore -----------------------------
(***************************************************************************)
(* The persisted client.global variables: .httpfly/state.json, read and    *)
(* written by internal/state, and the write path GlobalState.set that every *)
(* client.global:set of a script takes.  Several httpfly processes may be  *)
(* alive in one directory (Overlap); nothing in the code keeps them apart. *)
(*                                                                         *)
(* A process loads its bucket once, then every set changes its own map     *)
(* (mem), reads the whole file back (read), and writes the whole file with *)
(* its own bucket replaced: os.WriteFile truncates first and writes next,  *)
(* so the file is empty in between.  Values are tagged by the environment  *)
(* whose scripts store them (Stored), which is what isolation is about.    *)
(***************************************************************************)
CONSTANTS
    Procs,     \* httpfly processes started in one working directory
    Envs,      \* environments, no -env at all being one of them
    Names,     \* names of variables
    Stored,    \* Stored[e]: what scripts run under environment e may store
    Unset,     \* stands for a name that has no value in a bucket
    Overlap    \* TRUE: a process may start while another is alive

Vals == UNION {Stored[e] : e \in Envs}

ASSUME OverlapAssumption == Overlap \in BOOLEAN
ASSUME UnsetAssumption == Unset \notin Vals

VARIABLES
    form,      \* what the file holds: a document, nothing, or half of one
    buckets,   \* the buckets of the last complete document
    pc,        \* where each process is
    env,       \* the environment of a process
    mem,       \* GlobalState.vars of a process
    read       \* the buckets a save has read back, NoBuckets outside of one

vars == <<form, buckets, pc, env, mem, read>>

Bucket == [Names -> Vals \cup {Unset}]
Nothing == [n \in Names |-> Unset]
NoBuckets == [e \in Envs |-> Nothing]

(* "json" also stands for the file that does not exist yet: it reads as no *)
(* buckets.  An empty file does not: it is a JSON syntax error.            *)
Forms == {"json", "blank", "garbled"}
Readable == form = "json"

Stages == {"off", "refused", "running", "reading", "saving", "truncated"}

TypeOK ==
    /\ form \in Forms
    /\ buckets \in [Envs -> Bucket]
    /\ pc \in [Procs -> Stages]
    /\ env \in [Procs -> Envs]
    /\ mem \in [Procs -> Bucket]
    /\ read \in [Procs -> [Envs -> Bucket]]

Init ==
    /\ form = "json"
    /\ buckets = NoBuckets
    /\ pc = [p \in Procs |-> "off"]
    /\ env \in [Procs -> Envs]
    /\ mem = [p \in Procs |-> Nothing]
    /\ read = [p \in Procs |-> NoBuckets]

MayStart(p) ==
    /\ pc[p] = "off"
    /\ Overlap \/ \A q \in Procs : pc[q] = "off"

(* Mutated: the environment given with -env is not used to pick the bucket. *)
LoadAnyBucket(p, e) ==
    /\ MayStart(p)
    /\ Readable
    /\ pc' = [pc EXCEPT ![p] = "running"]
    /\ env' = [env EXCEPT ![p] = e]
    /\ \E other \in Envs : mem' = [mem EXCEPT ![p] = buckets[other]]
    /\ UNCHANGED <<form, buckets, read>>

(* Mutated: the globals of a run start empty instead of with the persisted. *)
LoadNothing(p, e) ==
    /\ MayStart(p)
    /\ Readable
    /\ pc' = [pc EXCEPT ![p] = "running"]
    /\ env' = [env EXCEPT ![p] = e]
    /\ mem' = [mem EXCEPT ![p] = Nothing]
    /\ UNCHANGED <<form, buckets, read>>

(* Mutated: the nil map of an environment that has no bucket is handed out. *)
LoadNil(p, e) ==
    /\ MayStart(p)
    /\ Readable
    /\ pc' = [pc EXCEPT ![p] = "running"]
    /\ env' = [env EXCEPT ![p] = e]
    /\ mem' = [mem EXCEPT ![p] =
                 IF buckets[e] = Nothing THEN [n \in {} |-> Unset] ELSE buckets[e]]
    /\ UNCHANGED <<form, buckets, read>>

(* state.Load, and NewGlobalState around what it returned.                 *)
Load(p, e) ==
    /\ MayStart(p)
    /\ Readable
    /\ pc' = [pc EXCEPT ![p] = "running"]
    /\ env' = [env EXCEPT ![p] = e]
    /\ mem' = [mem EXCEPT ![p] = buckets[e]]
    /\ UNCHANGED <<form, buckets, read>>

(* A file that does not parse stops every run before it does anything.     *)
LoadFails(p) ==
    /\ MayStart(p)
    /\ ~Readable
    /\ pc' = [pc EXCEPT ![p] = "refused"]
    /\ UNCHANGED <<form, buckets, env, mem, read>>

(* GlobalState.set: the map is changed before anything is saved.           *)
Set(p, n, v) ==
    /\ pc[p] = "running"
    /\ pc' = [pc EXCEPT ![p] = "reading"]
    /\ mem' = [mem EXCEPT ![p][n] = v]
    /\ UNCHANGED <<form, buckets, env, read>>

(* Mutated: the save starts from no buckets instead of those of the file.  *)
ReadNoBuckets(p) ==
    /\ pc[p] = "reading"
    /\ Readable
    /\ pc' = [pc EXCEPT ![p] = "saving"]
    /\ UNCHANGED <<form, buckets, env, mem, read>>

(* state.Save reads the whole file back ...                                *)
ReadBuckets(p) ==
    /\ pc[p] = "reading"
    /\ Readable
    /\ pc' = [pc EXCEPT ![p] = "saving"]
    /\ read' = [read EXCEPT ![p] = buckets]
    /\ UNCHANGED <<form, buckets, env, mem>>

(* ... opens it for writing, which empties it ...                          *)
Truncate(p) ==
    /\ pc[p] = "saving"
    /\ pc' = [pc EXCEPT ![p] = "truncated"]
    /\ form' = "blank"
    /\ UNCHANGED <<buckets, env, mem, read>>

(* ... and writes what it read with its own bucket replaced.  Over a file  *)
(* another process has written meanwhile, the tail of a longer text stays. *)
Write(p) ==
    /\ pc[p] = "truncated"
    /\ pc' = [pc EXCEPT ![p] = "running"]
    /\ \/ /\ form' = "json"
          /\ buckets' = [read[p] EXCEPT ![env[p]] = mem[p]]
       \/ /\ form # "blank"
          /\ form' = "garbled"
          /\ UNCHANGED buckets
    /\ read' = [read EXCEPT ![p] = NoBuckets]
    /\ UNCHANGED <<env, mem>>

(* Mutated: a failed save rolls the map back, as if it were transactional,  *)
(* to what the save had read: nothing at all if the read itself failed.    *)
RollBack(p) ==
    /\ pc[p] \in {"reading", "saving", "truncated"}
    /\ pc' = [pc EXCEPT ![p] = "running"]
    /\ mem' = [mem EXCEPT ![p] = read[p][env[p]]]
    /\ read' = [read EXCEPT ![p] = NoBuckets]
    /\ form' \in IF pc[p] = "truncated" THEN {form, "garbled"} ELSE {form}
    /\ UNCHANGED <<buckets, env>>

(* Any step of Save may fail: reading back, MkdirAll and the open leave    *)
(* the file alone, a write that fails leaves it empty or half written. The *)
(* script gets a Lua error; the map keeps the value.                       *)
SaveFails(p) ==
    /\ pc[p] \in {"reading", "saving", "truncated"}
    /\ pc' = [pc EXCEPT ![p] = "running"]
    /\ read' = [read EXCEPT ![p] = NoBuckets]
    /\ form' \in IF pc[p] = "truncated" THEN {form, "garbled"} ELSE {form}
    /\ UNCHANGED <<buckets, env, mem>>

(* The command returns, or the process is killed between any two steps.    *)
Leave(p) ==
    /\ pc' = [pc EXCEPT ![p] = "off"]
    /\ mem' = [mem EXCEPT ![p] = Nothing]
    /\ read' = [read EXCEPT ![p] = NoBuckets]
    /\ UNCHANGED <<buckets, env>>

Exit(p) ==
    /\ pc[p] \in {"running", "refused"}
    /\ UNCHANGED form
    /\ Leave(p)

Kill(p) ==
    /\ pc[p] \in {"reading", "saving", "truncated"}
    /\ form' \in IF pc[p] = "truncated" THEN {form, "garbled"} ELSE {form}
    /\ Leave(p)

Next ==
    \E p \in Procs :
        \/ \E e \in Envs : Load(p, e)
        \/ LoadFails(p)
        \/ \E n \in Names, v \in Stored[env[p]] : Set(p, n, v)
        \/ ReadBuckets(p)
        \/ Truncate(p)
        \/ Write(p)
        \/ SaveFails(p)
        \/ Exit(p)
        \/ Kill(p)

Spec == Init /\ [][Next]_vars

-----------------------------------------------------------------------------
(* A bucket never holds, on disk or in any process, a value that a script  *)
(* stored under another environment: "a value set while running against    *)
(* prod never leaks into a dev run" (state.Load), whatever overlaps, fails *)
(* or is killed.                                                           *)
Holds(b, e) == \A n \in Names : b[n] \in Stored[e] \cup {Unset}

EnvIsolation ==
    /\ \A e \in Envs : Holds(buckets[e], e)
    /\ \A p \in Procs : Holds(mem[p], env[p])

(* "Other environments' buckets are left untouched" (state.Save): a save   *)
(* that completes changes the bucket of its own environment at most.       *)
OthersUntouched ==
    [][\A p \in Procs : pc[p] = "truncated" /\ form' = "json" =>
         \A e \in Envs \ {env[p]} : buckets'[e] = buckets[e]]_vars

(* "Durably updates it for later runs" (GlobalState): a save overwrites a  *)
(* variable that an earlier one persisted for the environment at most, it  *)
(* never makes one disappear.                                              *)
KeepsNames(old, new) ==
    \A n \in Names : old[n] # Unset => new[n] # Unset

DurableSets ==
    [][\A p \in Procs : pc[p] = "truncated" /\ form' = "json" =>
         KeepsNames(buckets[env[p]], buckets'[env[p]])]_vars

(* Whenever no save is under way, the next run can load the variables.     *)
AlwaysLoadable ==
    (\A p \in Procs : pc[p] # "truncated") => Readable

(* The map of a live process never lacks a variable that the file has for  *)
(* its environment, also after a failed save: it can only be ahead.  This  *)
(* is what makes writing the whole bucket back harmless.                   *)
NeverBehind ==
    \A p \in Procs : pc[p] \notin {"off", "refused"} =>
        KeepsNames(buckets[env[p]], mem[p])

-----------------------------------------------------------------------------
(* StateStore implements DurableGlobals when runs do not overlap.          *)
AbsStage == [p \in Procs |->
    CASE pc[p] \in {"reading", "saving", "truncated"} -> "setting"
      [] pc[p] = "running" -> "open"
      [] OTHER -> pc[p]]

AbsLost == ~Readable /\ \A p \in Procs : pc[p] # "truncated"

Abs == INSTANCE DurableGlobals WITH
    store <- buckets, lost <- AbsLost, stage <- AbsStage, view <- mem

Implements == Abs!Spec
=============================================================================
