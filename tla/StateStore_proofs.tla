-------------------------- MODULE StateStore_proofs --------------------------
(* Theorems about StateStore: what holds however many runs overlap, and     *)
(* what holds when they do not, down to the implementation of               *)
(* DurableGlobals.                                                          *)
EXTENDS StateStore, TLAPS

LEMMA EmptyBuckets ==
    /\ Nothing \in Bucket
    /\ NoBuckets \in [Envs -> Bucket]
  BY DEF Nothing, NoBuckets, Bucket

LEMMA StoredInVals == \A e \in Envs : Stored[e] \subseteq Vals
  BY DEF Vals

LEMMA TypeInit == Init => TypeOK
  BY EmptyBuckets DEF Init, TypeOK, Forms, Stages

LEMMA TypeStep == TypeOK /\ [Next]_vars => TypeOK'
<1> SUFFICES ASSUME TypeOK, [Next]_vars
             PROVE  TypeOK'
  OBVIOUS
<1> USE EmptyBuckets DEF TypeOK, Forms, Stages
<1>1. ASSUME NEW p \in Procs, NEW e \in Envs, Load(p, e)
      PROVE  TypeOK'
  BY <1>1 DEF Load
<1>2. ASSUME NEW p \in Procs, LoadFails(p)
      PROVE  TypeOK'
  BY <1>2 DEF LoadFails
<1>3. ASSUME NEW p \in Procs, NEW n \in Names, NEW v \in Stored[env[p]], Set(p, n, v)
      PROVE  TypeOK'
  <2>1. v \in Vals
    BY StoredInVals
  <2>2. mem' \in [Procs -> Bucket]
    BY <1>3, <2>1 DEF Set, Bucket
  <2> QED
    BY <1>3, <2>2 DEF Set
<1>4. ASSUME NEW p \in Procs, ReadBuckets(p)
      PROVE  TypeOK'
  BY <1>4 DEF ReadBuckets
<1>5. ASSUME NEW p \in Procs, Truncate(p)
      PROVE  TypeOK'
  BY <1>5 DEF Truncate
<1>6. ASSUME NEW p \in Procs, Write(p)
      PROVE  TypeOK'
  <2>1. read[p] \in [Envs -> Bucket] /\ mem[p] \in Bucket
    OBVIOUS
  <2>2. [read[p] EXCEPT ![env[p]] = mem[p]] \in [Envs -> Bucket]
    BY <2>1
  <2>3. buckets' \in [Envs -> Bucket] /\ form' \in Forms
    BY <1>6, <2>2 DEF Write
  <2>4. read' \in [Procs -> [Envs -> Bucket]] /\ pc' \in [Procs -> Stages]
    BY <1>6 DEF Write
  <2> QED
    BY <1>6, <2>3, <2>4 DEF Write
<1>7. ASSUME NEW p \in Procs, SaveFails(p)
      PROVE  TypeOK'
  BY <1>7 DEF SaveFails
<1>8. ASSUME NEW p \in Procs, Exit(p)
      PROVE  TypeOK'
  BY <1>8 DEF Exit, Leave
<1>9. ASSUME NEW p \in Procs, Kill(p)
      PROVE  TypeOK'
  BY <1>9 DEF Kill, Leave
<1>10. CASE UNCHANGED vars
  BY <1>10 DEF vars
<1> QED
  BY <1>1, <1>2, <1>3, <1>4, <1>5, <1>6, <1>7, <1>8, <1>9, <1>10 DEF Next

(* The file holds a bucket per environment and a form that readers tell     *)
(* apart, and every process has a map of its own, in every reachable state. *)
THEOREM TypeCorrect == Spec => []TypeOK
  BY TypeInit, TypeStep, PTL DEF Spec

-----------------------------------------------------------------------------
(* Isolation is not inductive by itself: a save writes what it has read, so  *)
(* the buckets a save holds must be isolated too.                            *)
Isolated ==
    /\ TypeOK
    /\ EnvIsolation
    /\ \A p \in Procs, e \in Envs : Holds(read[p][e], e)

LEMMA EmptyHolds ==
    ASSUME NEW e \in Envs
    PROVE  Holds(Nothing, e) /\ Holds(NoBuckets[e], e)
  BY DEF Holds, Nothing, NoBuckets

LEMMA IsolatedInit == Init => Isolated
  BY TypeInit, EmptyHolds DEF Init, Isolated, EnvIsolation, TypeOK

LEMMA IsolatedStep == Isolated /\ [Next]_vars => Isolated'
<1> SUFFICES ASSUME Isolated, [Next]_vars
             PROVE  Isolated'
  OBVIOUS
<1>0. TypeOK /\ TypeOK'
  BY TypeStep DEF Isolated
<1> USE <1>0, EmptyHolds DEF Isolated, EnvIsolation, TypeOK
<1>1. ASSUME NEW p \in Procs, NEW e \in Envs, Load(p, e)
      PROVE  Isolated'
  BY <1>1 DEF Load, Holds
<1>2. ASSUME NEW p \in Procs, LoadFails(p)
      PROVE  Isolated'
  BY <1>2 DEF LoadFails, Holds
<1>3. ASSUME NEW p \in Procs, NEW n \in Names, NEW v \in Stored[env[p]], Set(p, n, v)
      PROVE  Isolated'
  <2>1. \A q \in Procs \ {p} : mem'[q] = mem[q]
    BY <1>3 DEF Set
  <2>2. Holds(mem'[p], env[p])
    BY <1>3 DEF Set, Holds, Bucket
  <2> QED
    BY <1>3, <2>1, <2>2 DEF Set, Holds
<1>4. ASSUME NEW p \in Procs, ReadBuckets(p)
      PROVE  Isolated'
  BY <1>4 DEF ReadBuckets, Holds
<1>5. ASSUME NEW p \in Procs, Truncate(p)
      PROVE  Isolated'
  BY <1>5 DEF Truncate, Holds
<1>6. ASSUME NEW p \in Procs, Write(p)
      PROVE  Isolated'
  <2>1. \A e \in Envs : Holds(buckets'[e], e)
    BY <1>6 DEF Write, Holds
  <2> QED
    BY <1>6, <2>1 DEF Write, Holds
<1>7. ASSUME NEW p \in Procs, SaveFails(p)
      PROVE  Isolated'
  BY <1>7 DEF SaveFails, Holds
<1>8. ASSUME NEW p \in Procs, Exit(p)
      PROVE  Isolated'
  BY <1>8 DEF Exit, Leave, Holds
<1>9. ASSUME NEW p \in Procs, Kill(p)
      PROVE  Isolated'
  BY <1>9 DEF Kill, Leave, Holds
<1>10. CASE UNCHANGED vars
  BY <1>10 DEF vars, Holds
<1> QED
  BY <1>1, <1>2, <1>3, <1>4, <1>5, <1>6, <1>7, <1>8, <1>9, <1>10 DEF Next

(* No value crosses environments, in the file or in a process, however many  *)
(* runs overlap, fail to save or are killed.                                 *)
THEOREM Isolation == Spec => []EnvIsolation
<1>1. Isolated => EnvIsolation
  BY DEF Isolated
<1> QED
  BY <1>1, IsolatedInit, IsolatedStep, PTL DEF Spec

-----------------------------------------------------------------------------
(* Without overlap one process is alive at most, so what a save has read is  *)
(* what the file still holds, and an empty file is the one it has truncated. *)
Serial ==
    /\ TypeOK
    /\ \A p, q \in Procs : pc[p] # "off" /\ pc[q] # "off" => p = q
    /\ \A p \in Procs : pc[p] \in {"saving", "truncated"} => read[p] = buckets
    /\ \A p \in Procs : pc[p] = "saving" => Readable
    /\ \A p \in Procs : pc[p] = "truncated" => form = "blank"
    /\ NeverBehind

LEMMA SerialInit == Init => Serial
  BY TypeInit DEF Init, Serial, NeverBehind

LEMMA SerialStep ==
    ASSUME Overlap = FALSE
    PROVE  Serial /\ [Next]_vars => Serial'
<1> SUFFICES ASSUME Serial, [Next]_vars
             PROVE  Serial'
  OBVIOUS
<1>0. TypeOK /\ TypeOK'
  BY TypeStep DEF Serial
<1> USE <1>0 DEF Serial, TypeOK, NeverBehind, KeepsNames, Readable
<1>1. ASSUME NEW p \in Procs, NEW e \in Envs, Load(p, e)
      PROVE  Serial'
  BY <1>1, Overlap = FALSE DEF Load, MayStart
<1>2. ASSUME NEW p \in Procs, LoadFails(p)
      PROVE  Serial'
  BY <1>2, Overlap = FALSE DEF LoadFails, MayStart
<1>3. ASSUME NEW p \in Procs, NEW n \in Names, NEW v \in Stored[env[p]], Set(p, n, v)
      PROVE  Serial'
  <2>1. v # Unset
    BY StoredInVals, UnsetAssumption
  <2>2. \A q \in Procs : KeepsNames(mem[q], mem'[q])
    BY <1>3, <2>1 DEF Set, Bucket
  <2>3. NeverBehind'
    BY <1>3, <2>2 DEF Set
  <2> QED
    BY <1>3, <2>3 DEF Set
<1>4. ASSUME NEW p \in Procs, ReadBuckets(p)
      PROVE  Serial'
  BY <1>4 DEF ReadBuckets
<1>5. ASSUME NEW p \in Procs, Truncate(p)
      PROVE  Serial'
  BY <1>5 DEF Truncate
<1>6. ASSUME NEW p \in Procs, Write(p)
      PROVE  Serial'
  BY <1>6 DEF Write
<1>7. ASSUME NEW p \in Procs, SaveFails(p)
      PROVE  Serial'
  BY <1>7 DEF SaveFails
<1>8. ASSUME NEW p \in Procs, Exit(p)
      PROVE  Serial'
  BY <1>8 DEF Exit, Leave
<1>9. ASSUME NEW p \in Procs, Kill(p)
      PROVE  Serial'
  BY <1>9 DEF Kill, Leave
<1>10. CASE UNCHANGED vars
  BY <1>10 DEF vars
<1> QED
  BY <1>1, <1>2, <1>3, <1>4, <1>5, <1>6, <1>7, <1>8, <1>9, <1>10 DEF Next

(* A live run's map never lacks a variable the file has for its environment  *)
(* when runs do not overlap.                                                 *)
THEOREM MemoryNeverBehind ==
    ASSUME Overlap = FALSE
    PROVE  Spec => []NeverBehind
<1>1. Serial => NeverBehind
  BY DEF Serial
<1> QED
  BY <1>1, SerialInit, SerialStep, PTL DEF Spec

-----------------------------------------------------------------------------
(* A completed save is the only step that leaves a process which had emptied *)
(* the file with a document in it.                                           *)
LEMMA CompletedSave ==
    ASSUME Overlap = FALSE, Serial, Next,
           NEW p \in Procs, pc[p] = "truncated", form' = "json"
    PROVE  buckets' = [buckets EXCEPT ![env[p]] = mem[p]]
<1> USE DEF Serial, TypeOK
<1>1. \A q \in Procs : pc[q] # "off" => q = p
  OBVIOUS
<1>2. form = "blank"
  OBVIOUS
<1>3. ~ \E q \in Procs : LoadFails(q) \/ (\E e \in Envs : Load(q, e))
  BY <1>1 DEF LoadFails, Load, MayStart
<1>4. ~ \E q \in Procs : ReadBuckets(q) \/ Truncate(q) \/ Exit(q)
  BY <1>1 DEF ReadBuckets, Truncate, Exit
<1>5. ~ \E q \in Procs : \E n \in Names, v \in Stored[env[q]] : Set(q, n, v)
  BY <1>1 DEF Set
<1>6. ~ \E q \in Procs : SaveFails(q) \/ Kill(q)
  BY <1>1, <1>2 DEF SaveFails, Kill
<1>7. Write(p)
  BY <1>1, <1>3, <1>4, <1>5, <1>6 DEF Next, Write
<1> QED
  BY <1>2, <1>7 DEF Write

(* Without overlap a save changes no bucket but its own environment's.       *)
THEOREM SavesTouchNoOther ==
    ASSUME Overlap = FALSE
    PROVE  Spec => OthersUntouched
<1>1. Serial /\ [Next]_vars =>
        [\A p \in Procs : pc[p] = "truncated" /\ form' = "json" =>
            \A e \in Envs \ {env[p]} : buckets'[e] = buckets[e]]_vars
  <2> SUFFICES ASSUME Serial, Next,
                      NEW p \in Procs, pc[p] = "truncated", form' = "json",
                      NEW e \in Envs \ {env[p]}
               PROVE  buckets'[e] = buckets[e]
    BY DEF vars
  <2>1. buckets' = [buckets EXCEPT ![env[p]] = mem[p]]
    BY CompletedSave, Overlap = FALSE
  <2> QED
    BY <2>1 DEF Serial, TypeOK
<1> QED
  BY <1>1, SerialInit, SerialStep, PTL DEF Spec, OthersUntouched

(* Without overlap no persisted variable of the saved environment disappears. *)
THEOREM SavesAreDurable ==
    ASSUME Overlap = FALSE
    PROVE  Spec => DurableSets
<1>1. Serial /\ [Next]_vars =>
        [\A p \in Procs : pc[p] = "truncated" /\ form' = "json" =>
            KeepsNames(buckets[env[p]], buckets'[env[p]])]_vars
  <2> SUFFICES ASSUME Serial, Next,
                      NEW p \in Procs, pc[p] = "truncated", form' = "json"
               PROVE  KeepsNames(buckets[env[p]], buckets'[env[p]])
    BY DEF vars
  <2>1. buckets' = [buckets EXCEPT ![env[p]] = mem[p]]
    BY CompletedSave, Overlap = FALSE
  <2>2. buckets'[env[p]] = mem[p]
    BY <2>1 DEF Serial, TypeOK
  <2> QED
    BY <2>2 DEF Serial, NeverBehind
<1> QED
  BY <1>1, SerialInit, SerialStep, PTL DEF Spec, DurableSets

-----------------------------------------------------------------------------
LEMMA AbsInit == Init => Abs!Init
<1> SUFFICES ASSUME Init
             PROVE  Abs!Init
  OBVIOUS
<1>1. AbsStage = [p \in Procs |-> "off"]
  BY DEF Init, AbsStage
<1> QED
  BY <1>1 DEF Init, Abs!Init, AbsLost, Readable, NoBuckets, Nothing, Abs!Nothing

(* The stage of one process changes in a step, so the mapped one does too.   *)
LEMMA AbsStageStep ==
    ASSUME NEW p \in Procs, NEW s \in Stages, pc \in [Procs -> Stages],
           pc' = [pc EXCEPT ![p] = s]
    PROVE  /\ s \in {"off", "refused"} => AbsStage' = [AbsStage EXCEPT ![p] = s]
           /\ s = "running" => AbsStage' = [AbsStage EXCEPT ![p] = "open"]
           /\ s \in {"reading", "saving", "truncated"} =>
                AbsStage' = [AbsStage EXCEPT ![p] = "setting"]
  BY DEF AbsStage, Stages

LEMMA AbsStageOf ==
    ASSUME NEW p \in Procs
    PROVE  /\ pc[p] \in {"off", "refused"} => AbsStage[p] = pc[p]
           /\ pc[p] = "running" => AbsStage[p] = "open"
           /\ pc[p] \in {"reading", "saving", "truncated"} => AbsStage[p] = "setting"
  BY DEF AbsStage

LEMMA AbsStep ==
    ASSUME Overlap = FALSE
    PROVE  Serial /\ [Next]_vars => [Abs!Next]_(Abs!vars)
<1> SUFFICES ASSUME Serial, [Next]_vars
             PROVE  Abs!Next \/ UNCHANGED Abs!vars
  BY DEF Abs!vars
<1> USE AbsStageOf, AbsStageStep DEF Serial, TypeOK, AbsLost, Readable, Stages
<1>1. ASSUME NEW p \in Procs, NEW e \in Envs, Load(p, e)
      PROVE  Abs!Open(p, e)
  BY <1>1, Overlap = FALSE DEF Load, MayStart, Abs!Open
<1>2. ASSUME NEW p \in Procs, LoadFails(p)
      PROVE  Abs!Refuse(p)
  BY <1>2, Overlap = FALSE DEF LoadFails, MayStart, Abs!Refuse
<1>3. ASSUME NEW p \in Procs, NEW n \in Names, NEW v \in Stored[env[p]], Set(p, n, v)
      PROVE  Abs!Assign(p, n, v)
  BY <1>3 DEF Set, Abs!Assign
<1>4. ASSUME NEW p \in Procs, ReadBuckets(p)
      PROVE  UNCHANGED Abs!vars
  <2>1. AbsStage' = AbsStage
    BY <1>4 DEF ReadBuckets, AbsStage
  <2> QED
    BY <1>4, <2>1 DEF ReadBuckets, Abs!vars
<1>5. ASSUME NEW p \in Procs, Truncate(p)
      PROVE  UNCHANGED Abs!vars
  <2>1. AbsStage' = AbsStage
    BY <1>5 DEF Truncate, AbsStage
  <2> QED
    BY <1>5, <2>1 DEF Truncate, Abs!vars
<1>6. ASSUME NEW p \in Procs, Write(p)
      PROVE  Abs!Commit(p)
  BY <1>6 DEF Write, Abs!Commit
<1>7. ASSUME NEW p \in Procs, SaveFails(p)
      PROVE  Abs!Abandon(p) \/ Abs!Lose(p)
  <2>1. CASE pc[p] = "truncated"
    <3>1. form' # "json" /\ \A q \in Procs : pc'[q] # "truncated"
      BY <1>7, <2>1 DEF SaveFails
    <3>2. AbsLost'
      BY <3>1
    <3>3. AbsStage' = [AbsStage EXCEPT ![p] = "open"] /\ AbsStage'[p] = "open"
      BY <1>7 DEF SaveFails, AbsStage
    <3> QED
      BY <1>7, <2>1, <3>2, <3>3 DEF SaveFails, Abs!Lose
  <2>2. CASE pc[p] # "truncated"
    BY <1>7, <2>2 DEF SaveFails, Abs!Abandon
  <2> QED
    BY <2>1, <2>2
<1>8. ASSUME NEW p \in Procs, Exit(p)
      PROVE  Abs!Close(p)
  BY <1>8 DEF Exit, Leave, Abs!Close, Abs!Nothing, Nothing
<1>9. ASSUME NEW p \in Procs, Kill(p)
      PROVE  Abs!Close(p) \/ Abs!Lose(p)
  <2>1. CASE pc[p] = "truncated"
    <3>1. form' # "json" /\ \A q \in Procs : pc'[q] # "truncated"
      BY <1>9, <2>1 DEF Kill, Leave
    <3>2. AbsLost'
      BY <3>1
    <3>3. AbsStage' = [AbsStage EXCEPT ![p] = "off"] /\ AbsStage'[p] = "off"
      BY <1>9 DEF Kill, Leave, AbsStage
    <3> QED
      BY <1>9, <2>1, <3>2, <3>3
         DEF Kill, Leave, Abs!Lose, Abs!Nothing, Nothing
  <2>2. CASE pc[p] # "truncated"
    BY <1>9, <2>2 DEF Kill, Leave, Abs!Close, Abs!Nothing, Nothing
  <2> QED
    BY <2>1, <2>2
<1>10. CASE UNCHANGED vars
  <2>1. AbsStage' = AbsStage
    BY <1>10 DEF vars, AbsStage
  <2> QED
    BY <1>10, <2>1 DEF vars, Abs!vars
<1>11. \A e \in Envs : Stored[e] \subseteq Vals
  BY StoredInVals
<1> QED
  BY <1>1, <1>2, <1>3, <1>4, <1>5, <1>6, <1>7, <1>8, <1>9, <1>10, <1>11
     DEF Next, Abs!Next

(* Without overlap the state file, with all its reading back, truncating and *)
(* failing, is the durable store the documentation describes.                *)
THEOREM ImplementsDurableGlobals ==
    ASSUME Overlap = FALSE
    PROVE  Spec => Implements
  BY AbsInit, AbsStep, SerialInit, SerialStep, PTL DEF Spec, Implements, Abs!Spec
=============================================================================
