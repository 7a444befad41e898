--------------------------- MODULE Convert_proofs ---------------------------
(* Theorems about Convert, for commands of any length and arguments of any  *)
(* kind: what curl.Parse makes of each of them, that the parser reads back   *)
(* what Format writes, that httpfly sends what curl sends, and that the      *)
(* command ToCurl prints sends what httpfly sends.                          *)
EXTENDS Convert, Lists_proofs, TLAPS

USE DEF DataKinds

-----------------------------------------------------------------------------
(* The positions that Parse keeps are positions of arguments of their kind.  *)
Sorted ==
    /\ seen \in Seq(Arg) /\ got \in Got
    /\ got.url \in 0..Len(seen) /\ got.method \in 0..Len(seen)
    /\ got.proxy \in 0..Len(seen) /\ got.file \in 0..Len(seen)
    /\ got.url # 0 => seen[got.url].is \in {"url", "positional", "dashes"}
    /\ got.method # 0 => seen[got.method].is \in {"method", "head"}
    /\ got.proxy # 0 => seen[got.proxy].is = "proxy"
    /\ got.file # 0 => seen[got.file].is \in {"data", "binary"}
    /\ \A j \in 1..Len(got.data) :
         /\ got.data[j] \in 1..Len(seen)
         /\ seen[got.data[j]].is \in DataKinds

(* Where the argument at k is, once it is read: OnlyTheseLostSilently for one. *)
Placed(k) ==
    \/ k \in got.warned \cup {got.url, got.method, got.proxy, got.file}
    \/ Contains(got.headers, k) \/ Contains(got.data, k) \/ Contains(got.forms, k)
    \/ seen[k].is \in DataKinds /\ 0 \in got.warned
    \/ seen[k].is \in {"dashes", "ignored"}
    \/ seen[k].is \in {"url", "positional"} /\ got.url > k
    \/ seen[k].is = "method" /\ got.method > k
    \/ seen[k].is = "head" /\ got.method # 0
    \/ seen[k].is = "proxy" /\ got.proxy > k
    \/ EmptyPath(seen[k])

Kept == Sorted /\ \A k \in 1..Len(seen) : Placed(k)

LEMMA KeptInit == Init => Kept
  BY DEF Init, Kept, Sorted, GotNothing, Got

(* The step of a flag: it is read, and kept, replaced or warned about.       *)
LEMMA Longer ==
    ASSUME NEW s \in Seq(Nat), NEW n \in Nat
    PROVE  /\ Append(s, n) \in Seq(Nat)
           /\ Contains(Append(s, n), n)
           /\ \A k : Contains(s, k) => Contains(Append(s, n), k)
  BY DEF Contains

LEMMA ReadTypes ==
    ASSUME Sorted, NEW a \in Args, Read(a)
    PROVE  /\ a \in Arg /\ seen' \in Seq(Arg)
           /\ Len(seen) \in Nat /\ Len(seen') = Len(seen) + 1
           /\ here = Len(seen) + 1 /\ here \in Nat /\ seen'[here] = a
           /\ \A k \in 1..Len(seen) : seen'[k] = seen[k]
  BY ArgsAssumption DEF Sorted, Read, here

(* An argument that was placed stays so if nothing is taken from got but     *)
(* what a later argument of its kind replaces.                               *)
Follows ==
    /\ got' \in Got
    /\ got.warned \subseteq got'.warned
    /\ \A k : Contains(got.headers, k) => Contains(got'.headers, k)
    /\ \A k : Contains(got.data, k) => Contains(got'.data, k)
    /\ \A k : Contains(got.forms, k) => Contains(got'.forms, k)
    /\ got'.url \in {got.url, here} /\ got'.method \in {got.method, here}
    /\ got'.proxy \in {got.proxy, here}
    /\ got'.file = got.file \/ (got.file = 0 /\ got'.file = here)

LEMMA StaysPlaced ==
    ASSUME Sorted, NEW a \in Args, Read(a), Follows,
           NEW k \in 1..Len(seen), Placed(k)
    PROVE  Placed(k)'
<1>1. k \in Nat /\ k # 0 /\ k < here /\ seen'[k] = seen[k] /\ here \in Nat
  BY ReadTypes
<1>2. /\ got.url \in Nat /\ got.method \in Nat /\ got.proxy \in Nat
  BY DEF Sorted
<1>3. CASE k \in {got.url, got.method, got.proxy, got.file}
  BY <1>1, <1>2, <1>3 DEF Placed, Follows, Sorted
<1>4. CASE k \notin {got.url, got.method, got.proxy, got.file}
  BY <1>1, <1>2, <1>4 DEF Placed, Follows
<1> QED
  BY <1>3, <1>4

LEMMA KeptByReading ==
    ASSUME Kept, NEW a \in Args, Read(a), Follows, Sorted',
           NEW n, n = here, Placed(n)'
    PROVE  Kept'
<1>1. \A k \in 1..Len(seen) : Placed(k)'
  BY StaysPlaced DEF Kept
<1>2. Len(seen') = Len(seen) + 1 /\ Len(seen) \in Nat /\ n = Len(seen) + 1
  BY ReadTypes DEF Kept
<1>3. \A k \in 1..Len(seen') : k \in 1..Len(seen) \/ k = n
  BY <1>2
<1> QED
  BY <1>1, <1>3 DEF Kept

(* What a flag may do to the positions kept, which leaves them in order.     *)
LEMMA SortedByReading ==
    ASSUME Sorted, NEW a \in Args, Read(a), NEW n, n = here, got' \in Got,
           got'.url = got.url \/ (got'.url = n /\ a.is \in {"url", "positional", "dashes"}),
           got'.method = got.method \/ (got'.method = n /\ a.is \in {"method", "head"}),
           got'.proxy = got.proxy \/ (got'.proxy = n /\ a.is = "proxy"),
           got'.file = got.file \/ (got'.file = n /\ a.is \in {"data", "binary"}),
           \/ got'.data = got.data
           \/ got'.data = Append(got.data, n) /\ a.is \in DataKinds
    PROVE  Sorted'
<1>1. /\ seen' \in Seq(Arg) /\ Len(seen) \in Nat /\ Len(seen') = n
      /\ n = Len(seen) + 1 /\ n \in Nat /\ n # 0 /\ seen'[n] = a
      /\ \A k \in 1..Len(seen) : seen'[k] = seen[k]
  BY ReadTypes
<1>2. /\ got.url \in 0..Len(seen) /\ got.method \in 0..Len(seen)
      /\ got.proxy \in 0..Len(seen) /\ got.file \in 0..Len(seen)
      /\ got.data \in Seq(Nat)
  BY DEF Sorted, Got
<1>3. \A k \in 0..Len(seen) : k \in 0..Len(seen') /\ (k # 0 => seen'[k] = seen[k])
  BY <1>1
<1>4. n \in 0..Len(seen')
  BY <1>1
<1>5. got'.url \in 0..Len(seen') /\ (got'.url # 0 => seen'[got'.url].is \in {"url", "positional", "dashes"})
  BY <1>1, <1>2, <1>3, <1>4 DEF Sorted
<1>6. got'.method \in 0..Len(seen') /\ (got'.method # 0 => seen'[got'.method].is \in {"method", "head"})
  BY <1>1, <1>2, <1>3, <1>4 DEF Sorted
<1>7. got'.proxy \in 0..Len(seen') /\ (got'.proxy # 0 => seen'[got'.proxy].is = "proxy")
  BY <1>1, <1>2, <1>3, <1>4 DEF Sorted
<1>8. got'.file \in 0..Len(seen') /\ (got'.file # 0 => seen'[got'.file].is \in {"data", "binary"})
  BY <1>1, <1>2, <1>3, <1>4 DEF Sorted
<1>9. ASSUME NEW j \in 1..Len(got'.data)
      PROVE  /\ got'.data[j] \in 1..Len(seen')
             /\ seen'[got'.data[j]].is \in DataKinds
  <2>1. CASE j \in 1..Len(got.data)
    <3>1. got'.data[j] = got.data[j]
      <4>1. CASE got'.data = got.data
        BY <4>1
      <4>2. CASE got'.data = Append(got.data, n)
        <5>1. got.data \in Seq(Nat) /\ n \in Nat
          BY <1>1, <1>2
        <5>2. Append(got.data, n)[j] = got.data[j]
          BY <2>1, <5>1
        <5> QED
          BY <4>2, <5>2
      <4> QED
        BY <4>1, <4>2
    <3>2. got.data[j] \in 1..Len(seen) /\ seen[got.data[j]].is \in DataKinds
      BY <2>1 DEF Sorted
    <3> QED
      BY <1>1, <1>3, <3>1, <3>2
  <2>2. CASE j \notin 1..Len(got.data)
    <3>1. got'.data = Append(got.data, n) /\ a.is \in DataKinds
      BY <2>2
    <3>2. got'.data[j] = n
      BY <1>1, <1>2, <2>2, <3>1
    <3> QED
      BY <1>1, <3>1, <3>2
  <2> QED
    BY <2>1, <2>2
<1> QED
  BY <1>1, <1>5, <1>6, <1>7, <1>8, <1>9 DEF Sorted

(* One case per kind of argument.                                            *)
LEMMA KeptByArgument ==
    ASSUME Kept, NEW a \in Args,
           \/ Dashes(a) \/ Positional(a) \/ Url(a) \/ Method(a) \/ HeadOnly(a)
           \/ Header(a) \/ Data(a) \/ Form(a) \/ Proxy(a) \/ Dropped(a)
           \/ Ignored(a)
    PROVE  Kept'
<1>n. PICK n : n = here
  OBVIOUS
<1>0. Sorted /\ Read(a) /\ got \in Got
  BY DEF Kept, Sorted, Option, Dashes, Positional, Url, Method, HeadOnly,
     Header, Data, Form, Proxy, Dropped, Ignored
<1>1. /\ seen' \in Seq(Arg) /\ Len(seen) \in Nat /\ Len(seen') = n
      /\ n = Len(seen) + 1 /\ n \in Nat /\ n # 0 /\ seen'[n] = a
      /\ \A k \in 1..Len(seen) : seen'[k] = seen[k]
  BY <1>0, <1>n, ReadTypes
<1>2. /\ got.url \in 0..Len(seen) /\ got.method \in 0..Len(seen)
      /\ got.proxy \in 0..Len(seen) /\ got.file \in 0..Len(seen)
      /\ got.headers \in Seq(Nat) /\ got.data \in Seq(Nat)
      /\ got.forms \in Seq(Nat) /\ got.warned \in SUBSET Nat
  BY <1>0 DEF Sorted, Got
<1>3. CASE Warn
  <2>1. /\ got' \in Got /\ got'.warned = got.warned \cup {n}
        /\ got'.url = got.url /\ got'.method = got.method
        /\ got'.proxy = got.proxy /\ got'.file = got.file
        /\ got'.headers = got.headers /\ got'.data = got.data
        /\ got'.forms = got.forms
    BY <1>n, <1>0, <1>1, <1>3 DEF Warn, Got
  <2>2. Follows /\ Placed(n)'
    BY <1>n, <1>0, <1>1, <2>1 DEF Follows, Placed
  <2>3. Sorted'
    BY <1>n, <1>0, <1>1, <2>1, SortedByReading
  <2> QED
    BY <1>n, <1>0, <2>2, <2>3, KeptByReading
<1>4. CASE /\ got' = got
           /\ a.is = "ignored" \/ (a.is = "head" /\ got.method # 0) \/ EmptyPath(a)
  <2>1. Follows /\ Placed(n)'
    BY <1>n, <1>0, <1>1, <1>4 DEF Follows, Placed
  <2>2. Sorted'
    BY <1>n, <1>0, <1>1, <1>4, SortedByReading
  <2> QED
    BY <1>n, <1>0, <2>1, <2>2, KeptByReading
<1>5. CASE Dashes(a)
  <2>1. /\ got' \in Got /\ got'.warned = got.warned
        /\ got'.url = got.url /\ got'.method = got.method
        /\ got'.proxy = got.proxy /\ got'.file = got.file
        /\ got'.headers = got.headers /\ got'.data = got.data
        /\ got'.forms = got.forms /\ a.is = "dashes"
    BY <1>0, <1>5 DEF Dashes, Option, Got
  <2>2. Follows /\ Placed(n)'
    BY <1>n, <1>1, <2>1 DEF Follows, Placed
  <2>3. Sorted'
    BY <1>n, <1>0, <1>1, <2>1, SortedByReading
  <2> QED
    BY <1>n, <1>0, <2>2, <2>3, KeptByReading
<1>6. CASE got' = [got EXCEPT !.url = n] /\ a.is \in {"url", "positional", "dashes"}
  <2>1. /\ got' \in Got /\ got'.warned = got.warned
        /\ got'.url = n /\ got'.method = got.method
        /\ got'.proxy = got.proxy /\ got'.file = got.file
        /\ got'.headers = got.headers /\ got'.data = got.data
        /\ got'.forms = got.forms
    BY <1>0, <1>1, <1>6 DEF Got
  <2>2. Follows /\ Placed(n)'
    BY <1>n, <1>1, <2>1 DEF Follows, Placed
  <2>3. Sorted'
    BY <1>n, <1>0, <1>1, <1>6, <2>1, SortedByReading
  <2> QED
    BY <1>n, <1>0, <2>2, <2>3, KeptByReading
<1>7. CASE got' = [got EXCEPT !.method = n] /\ a.is \in {"method", "head"}
  <2>1. /\ got' \in Got /\ got'.warned = got.warned
        /\ got'.url = got.url /\ got'.method = n
        /\ got'.proxy = got.proxy /\ got'.file = got.file
        /\ got'.headers = got.headers /\ got'.data = got.data
        /\ got'.forms = got.forms
    BY <1>0, <1>1, <1>7 DEF Got
  <2>2. Follows /\ Placed(n)'
    BY <1>n, <1>1, <2>1 DEF Follows, Placed
  <2>3. Sorted'
    BY <1>n, <1>0, <1>1, <1>7, <2>1, SortedByReading
  <2> QED
    BY <1>n, <1>0, <2>2, <2>3, KeptByReading
<1>8. CASE Proxy(a)
  <2>1. /\ got' \in Got /\ got'.warned = got.warned
        /\ got'.url = got.url /\ got'.method = got.method
        /\ got'.proxy = n /\ got'.file = got.file
        /\ got'.headers = got.headers /\ got'.data = got.data
        /\ got'.forms = got.forms /\ a.is = "proxy"
    BY <1>n, <1>0, <1>1, <1>8 DEF Proxy, Option, Got
  <2>2. Follows /\ Placed(n)'
    BY <1>n, <1>1, <2>1 DEF Follows, Placed
  <2>3. Sorted'
    BY <1>n, <1>0, <1>1, <2>1, SortedByReading
  <2> QED
    BY <1>n, <1>0, <2>2, <2>3, KeptByReading
<1>9. CASE got' = [got EXCEPT !.headers = Append(@, n)] \/ got' = [got EXCEPT !.forms = Append(@, n)]
  <2>1. /\ got' \in Got /\ got'.warned = got.warned
        /\ got'.url = got.url /\ got'.method = got.method
        /\ got'.proxy = got.proxy /\ got'.file = got.file
        /\ got'.data = got.data
        /\ \/ got'.headers = Append(got.headers, n) /\ got'.forms = got.forms
           \/ got'.headers = got.headers /\ got'.forms = Append(got.forms, n)
    <3>1. /\ Append(got.headers, n) \in Seq(Nat)
          /\ Append(got.forms, n) \in Seq(Nat)
      BY <1>1, <1>2
    <3> QED
      BY <1>0, <1>9, <3>1 DEF Got
  <2>2. /\ \A k : Contains(got.headers, k) => Contains(got'.headers, k)
        /\ \A k : Contains(got.forms, k) => Contains(got'.forms, k)
        /\ Contains(got'.headers, n) \/ Contains(got'.forms, n)
    <3>1. CASE got'.headers = Append(got.headers, n) /\ got'.forms = got.forms
      BY <1>1, <1>2, <3>1, Longer
    <3>2. CASE got'.headers = got.headers /\ got'.forms = Append(got.forms, n)
      BY <1>1, <1>2, <3>2, Longer
    <3> QED
      BY <2>1, <3>1, <3>2
  <2>3. Follows /\ Placed(n)'
    BY <1>n, <1>1, <2>1, <2>2 DEF Follows, Placed
  <2>4. Sorted'
    BY <1>n, <1>0, <1>1, <2>1, SortedByReading
  <2> QED
    BY <1>n, <1>0, <2>3, <2>4, KeptByReading
<1>10. CASE /\ got' = [got EXCEPT !.data = Append(@, n)]
            /\ a.is \in DataKinds
  <2>1. /\ got' \in Got /\ got'.warned = got.warned
        /\ got'.url = got.url /\ got'.method = got.method
        /\ got'.proxy = got.proxy /\ got'.file = got.file
        /\ got'.headers = got.headers /\ got'.forms = got.forms
        /\ got'.data = Append(got.data, n)
    <3>1. Append(got.data, n) \in Seq(Nat)
      BY <1>1, <1>2
    <3> QED
      BY <1>0, <1>10, <3>1 DEF Got
  <2>2. /\ \A k : Contains(got.data, k) => Contains(got'.data, k)
        /\ Contains(got'.data, n)
    BY <1>1, <1>2, <2>1, Longer
  <2>3. Follows /\ Placed(n)'
    BY <1>n, <1>1, <2>1, <2>2 DEF Follows, Placed
  <2>4. Sorted'
    BY <1>n, <1>0, <1>1, <1>10, <2>1, SortedByReading
  <2> QED
    BY <1>n, <1>0, <2>3, <2>4, KeptByReading
<1>11. CASE got' = [got EXCEPT !.file = n] /\ got.file = 0 /\ a.is \in {"data", "binary"}
  <2>1. /\ got' \in Got /\ got'.warned = got.warned
        /\ got'.url = got.url /\ got'.method = got.method
        /\ got'.proxy = got.proxy /\ got'.file = n
        /\ got'.headers = got.headers /\ got'.data = got.data
        /\ got'.forms = got.forms
    BY <1>0, <1>1, <1>11 DEF Got
  <2>2. Follows /\ Placed(n)'
    BY <1>n, <1>1, <1>11, <2>1 DEF Follows, Placed
  <2>3. Sorted'
    BY <1>n, <1>0, <1>1, <1>11, <2>1, SortedByReading
  <2> QED
    BY <1>n, <1>0, <2>2, <2>3, KeptByReading
<1> QED
  <2>1. CASE Positional(a)
    BY <1>n, <1>3, <1>6, <2>1 DEF Positional
  <2>2. CASE Url(a) \/ Method(a)
    BY <1>n, <1>6, <1>7, <2>2 DEF Url, Method, Option
  <2>3. CASE HeadOnly(a)
    BY <1>n, <1>4, <1>7, <2>3 DEF HeadOnly, Option, Explicit
  <2>4. CASE Header(a) \/ Form(a)
    BY <1>n, <1>3, <1>9, <2>4 DEF Header, Form
  <2>5. CASE Data(a)
    <3>1. got' = got /\ EmptyPath(a) => Kept'
      BY <1>4
    <3>2. NamesFile(a) => a.is \in {"data", "binary"}
      BY DEF NamesFile
    <3>3. a.is \in DataKinds
      BY <2>5 DEF Data, Option
    <3>4. got.file # 0 \/ HasAt(a) \/ (NamesFile(a) /\ got.data # <<>>) => Warn
      BY <2>5 DEF Data
    <3>5. \/ Warn
          \/ got.file = 0 /\ got' = got /\ EmptyPath(a)
          \/ got.file = 0 /\ got' = [got EXCEPT !.file = here] /\ NamesFile(a)
          \/ got.file = 0 /\ got' = [got EXCEPT !.data = Append(@, here)]
      BY <2>5 DEF Data
    <3> QED
      BY <1>n, <1>3, <1>10, <1>11, <3>1, <3>2, <3>3, <3>5
  <2>6. CASE Dropped(a) \/ Ignored(a)
    BY <1>n, <1>3, <1>4, <2>6 DEF Dropped, Ignored, Option
  <2> QED
    BY <1>5, <1>8, <2>1, <2>2, <2>3, <2>4, <2>5, <2>6

LEMMA ContainsInThree ==
    ASSUME NEW s \in Seq(Nat), NEW t \in Seq(Nat), NEW u \in Seq(Nat), NEW k,
           Contains(s, k) \/ Contains(t, k) \/ Contains(u, k)
    PROVE  Contains(s \o t \o u, k)
<1>1. CASE Contains(s, k)
  <2>1. PICK j \in 1..Len(s) : s[j] = k
    BY <1>1 DEF Contains
  <2>2. j \in 1..Len(s \o t \o u) /\ (s \o t \o u)[j] = k
    BY <2>1
  <2> QED
    BY <2>2 DEF Contains
<1>2. CASE Contains(t, k)
  <2>1. PICK j \in 1..Len(t) : t[j] = k
    BY <1>2 DEF Contains
  <2>2. /\ Len(s) + j \in 1..Len(s \o t \o u)
        /\ (s \o t \o u)[Len(s) + j] = k
    BY <2>1
  <2> QED
    BY <2>2 DEF Contains
<1>3. CASE Contains(u, k)
  <2>1. PICK j \in 1..Len(u) : u[j] = k
    BY <1>3 DEF Contains
  <2>2. /\ Len(s) + Len(t) + j \in 1..Len(s \o t \o u)
        /\ (s \o t \o u)[Len(s) + Len(t) + j] = k
    BY <2>1
  <2> QED
    BY <2>2 DEF Contains
<1> QED
  BY <1>1, <1>2, <1>3

LEMMA KeptStep == Kept /\ [Next]_vars => Kept'
<1> SUFFICES ASSUME Kept, [Next]_vars
             PROVE  Kept'
  OBVIOUS
<1>1. CASE ReadArgument
  BY <1>1, KeptByArgument DEF ReadArgument
<1>2. CASE UNCHANGED <<seen, got>>
  BY <1>2 DEF Kept, Sorted, Placed
<1>3. CASE Build
  <2>1. got' = Settled /\ UNCHANGED seen /\ Sorted
    BY <1>3 DEF Build, Kept
  <2>2. CASE got' = got
    BY <2>1, <2>2 DEF Kept, Sorted, Placed
  <2>3. CASE got' = [got EXCEPT !.data = <<>>, !.file = 0, !.warned = @ \cup {0}]
    <3>1. /\ got' \in Got /\ got'.warned = got.warned \cup {0}
          /\ got'.url = got.url /\ got'.method = got.method
          /\ got'.proxy = got.proxy /\ got'.file = 0
          /\ got'.headers = got.headers /\ got'.data = <<>>
          /\ got'.forms = got.forms
      <4>1. got \in Got /\ 0 \in Nat /\ <<>> \in Seq(Nat)
        BY <2>1 DEF Sorted
      <4>2. got.warned \cup {0} \in SUBSET Nat
        BY <4>1 DEF Got
      <4> QED
        BY <2>3, <4>1, <4>2 DEF Got
    <3>2. Sorted'
      BY <2>1, <3>1 DEF Sorted
    <3>3. ASSUME NEW k \in 1..Len(seen), Placed(k)
          PROVE  Placed(k)'
      <4>1. k \in Nat /\ k # 0
        BY <2>1 DEF Sorted
      <4>2. CASE k = got.file \/ Contains(got.data, k)
        <5>1. seen[k].is \in DataKinds
          BY <2>1, <4>1, <4>2 DEF Sorted, Contains
        <5> QED
          BY <2>1, <3>1, <5>1 DEF Placed
      <4>3. CASE k # got.file /\ ~Contains(got.data, k)
        BY <2>1, <3>1, <3>3, <4>3 DEF Placed
      <4> QED
        BY <4>2, <4>3
    <3> QED
      BY <2>1, <3>2, <3>3 DEF Kept
  <2> QED
    BY <2>1, <2>2, <2>3 DEF Settled
<1> QED
  BY <1>1, <1>2, <1>3 DEF Next, GiveUp, Refuse, WriteAndRead, ToCurl, vars

(* What is dropped without a warning: whatever flags a command has and in    *)
(* whichever order, each argument is part of the request, warned about,      *)
(* without effect, overridden (a URL, a method, a proxy, or -I by -X), or a  *)
(* -d @ that names no path (curl.Parse).                                     *)
THEOREM SilentlyLost == Spec => []OnlyTheseLostSilently
<1>1. Kept => OnlyTheseLostSilently
  <2> SUFFICES ASSUME Kept, NEW k \in 1..Len(seen)
               PROVE  \/ k \in got.warned \cup {got.url, got.method, got.proxy, got.file}
                      \/ Contains(got.headers \o got.data \o got.forms, k)
                      \/ seen[k].is \in DataKinds /\ 0 \in got.warned
                      \/ seen[k].is \in {"dashes", "ignored"}
                      \/ Superseded(k)
                      \/ EmptyPath(seen[k])
    BY DEF OnlyTheseLostSilently
  <2>1. Placed(k) /\ Sorted
    BY DEF Kept
  <2>2. /\ got.headers \in Seq(Nat) /\ got.data \in Seq(Nat) /\ got.forms \in Seq(Nat)
        /\ got.url \in 0..Len(seen) /\ got.method \in 0..Len(seen)
        /\ got.proxy \in 0..Len(seen) /\ Len(seen) \in Nat
    BY <2>1 DEF Sorted, Got
  <2>3. CASE Contains(got.headers, k) \/ Contains(got.data, k) \/ Contains(got.forms, k)
    BY <2>2, <2>3, ContainsInThree
  <2>4. CASE \/ seen[k].is \in {"url", "positional"} /\ got.url > k
             \/ seen[k].is = "method" /\ got.method > k
             \/ seen[k].is = "head" /\ got.method # 0
             \/ seen[k].is = "proxy" /\ got.proxy > k
    BY <2>2, <2>4 DEF Superseded
  <2> QED
    BY <2>1, <2>3, <2>4 DEF Placed
<1> QED
  BY <1>1, KeptInit, KeptStep, PTL DEF Spec

-----------------------------------------------------------------------------
(* What the helpers on sequences do, for sequences of any length.            *)

(* A sequence that is not empty: the last element, and those before it.      *)
LEMMA LastOf ==
    ASSUME NEW X, NEW s \in Seq(X), NEW n \in Nat, Len(s) = n + 1
    PROVE  \E u \in Seq(X), x \in X : s = Append(u, x) /\ Len(u) = n
<1>1. SubSeq(s, 1, n) \in Seq(X) /\ Len(SubSeq(s, 1, n)) = n
  OBVIOUS
<1>2. \A k \in 1..n : SubSeq(s, 1, n)[k] = s[k]
  OBVIOUS
<1>3. s[n + 1] \in X
  OBVIOUS
<1>4. s = Append(SubSeq(s, 1, n), s[n + 1])
  BY <1>1, <1>2, <1>3
<1> QED
  BY <1>1, <1>2, <1>3, <1>4

LEMMA Extension ==
    ASSUME NEW X, NEW p \in Seq(X), NEW o \in X, NEW f \in Seq(X),
           Len(f) = Len(p) + 1, \A k \in 1..Len(p) : f[k] = p[k], f[Len(f)] = o
    PROVE  f = Append(p, o)
<1>1. /\ Append(p, o) \in Seq(X) /\ Len(Append(p, o)) = Len(f) /\ Len(p) \in Nat
      /\ Append(p, o)[Len(f)] = o
      /\ \A k \in 1..Len(p) : Append(p, o)[k] = p[k]
  BY AppendProperties
<1>2. ASSUME NEW k \in 1..Len(f)
      PROVE  Append(p, o)[k] = f[k]
  <2>1. k \in 1..Len(p) \/ k = Len(f)
    BY <1>1
  <2> QED
    BY <1>1, <2>1
<1> QED
  BY <1>1, <1>2, SeqEqual

(* The first element, and those after it.                                    *)
LEMMA FirstOf ==
    ASSUME NEW X, NEW s \in Seq(X), s # <<>>
    PROVE  /\ Tail(s) \in Seq(X) /\ s = <<s[1]>> \o Tail(s) /\ s[1] \in X
           /\ Len(s) > 0 /\ Len(Tail(s)) = Len(s) - 1
           /\ \A k \in 1..(Len(s) - 1) : Tail(s)[k] = s[k + 1]
<1>1. Len(s) > 0
  OBVIOUS
<1> QED
  BY <1>1

(* A sequence around one of its elements.                                    *)
LEMMA Around ==
    ASSUME NEW X, NEW s \in Seq(X), NEW n \in 1..Len(s)
    PROVE  /\ SubSeq(s, 1, n - 1) \in Seq(X) /\ SubSeq(s, n + 1, Len(s)) \in Seq(X)
           /\ Len(SubSeq(s, 1, n - 1)) = n - 1
           /\ Len(SubSeq(s, n + 1, Len(s))) = Len(s) - n
           /\ s = (SubSeq(s, 1, n - 1) \o <<s[n]>>) \o SubSeq(s, n + 1, Len(s))
<1>1. /\ s[n] \in X /\ Len(s) \in Nat
      /\ SubSeq(s, 1, n - 1) \in Seq(X) /\ SubSeq(s, n + 1, Len(s)) \in Seq(X)
  OBVIOUS
<1>2. /\ Len(SubSeq(s, 1, n - 1)) = n - 1
      /\ Len(SubSeq(s, n + 1, Len(s))) = Len(s) - n
  BY <1>1
<1>3. SubSeq(s, 1, n - 1) \o <<s[n]>> = SubSeq(s, 1, n)
  <2>1. 1 \in 1..Len(s) /\ n \in 1..Len(s)
    BY <1>1
  <2> QED
    BY <2>1, SubSeqRecursiveSecond
<1>4. SubSeq(s, 1, n) \o SubSeq(s, n + 1, Len(s)) = SubSeq(s, 1, Len(s))
  <2>1. 1 \in 1..(Len(s) + 1) /\ n \in (1 - 1)..Len(s) /\ Len(s) \in n..Len(s)
    BY <1>1
  <2> QED
    BY <2>1, ConcatAdjacentSubSeq
<1>5. SubSeq(s, 1, Len(s)) = s
  BY SubSeqFull
<1> QED
  BY <1>1, <1>2, <1>3, <1>4, <1>5, Zenon

(* An element between two sequences.                                         *)
LEMMA Middle ==
    ASSUME NEW X, NEW u \in Seq(X), NEW x \in X, NEW w \in Seq(X),
           NEW s, s = (u \o <<x>>) \o w
    PROVE  /\ s \in Seq(X) /\ Len(s) = Len(u) + 1 + Len(w)
           /\ Len(u) + 1 \in 1..Len(s) /\ s[Len(u) + 1] = x
           /\ \A k \in 1..Len(u) : s[k] = u[k]
           /\ SubSeq(s, 1, Len(u)) = u /\ SubSeq(s, Len(u) + 2, Len(s)) = w
<1>1. /\ s \in Seq(X) /\ Len(s) = Len(u) + 1 + Len(w)
      /\ Len(u) \in Nat /\ Len(w) \in Nat
  OBVIOUS
<1>2. s[Len(u) + 1] = x
  OBVIOUS
<1>3. \A k \in 1..Len(u) : s[k] = u[k]
  OBVIOUS
<1>4. \A k \in 1..Len(w) : s[Len(u) + 1 + k] = w[k]
  OBVIOUS
<1>5. SubSeq(s, 1, Len(u)) = u
  <2>1. SubSeq(s, 1, Len(u)) \in Seq(X) /\ Len(SubSeq(s, 1, Len(u))) = Len(u)
    BY <1>1
  <2>2. ASSUME NEW k \in 1..Len(u)
        PROVE  SubSeq(s, 1, Len(u))[k] = u[k]
    BY <1>1, <1>3
  <2> QED
    BY <2>1, <2>2, SeqEqual
<1>6. SubSeq(s, Len(u) + 2, Len(s)) = w
  <2>1. SubSeq(s, Len(u) + 2, Len(s)) \in Seq(X) /\ Len(SubSeq(s, Len(u) + 2, Len(s))) = Len(w)
    BY <1>1
  <2>2. ASSUME NEW k \in 1..Len(w)
        PROVE  SubSeq(s, Len(u) + 2, Len(s))[k] = w[k]
    <3>1. SubSeq(s, Len(u) + 2, Len(s))[k] = s[Len(u) + 1 + k]
      BY <1>1
    <3> QED
      BY <1>4, <3>1
  <2> QED
    BY <2>1, <2>2, SeqEqual
<1> QED
  BY <1>1, <1>2, <1>3, <1>5, <1>6

LEMMA AmongType ==
    ASSUME NEW X, NEW s \in Seq(X), NEW S
    PROVE  Among(s, S) \in Seq(X) /\ Among(s, S) \in Seq(X \cap S)
<1> DEFINE pieces == [k \in 1..Len(s) |-> IF s[k] \in S THEN <<s[k]>> ELSE <<>>]
<1>1. ASSUME NEW k \in 1..Len(s)
      PROVE  /\ pieces[k] \in Seq(X) /\ pieces[k] \in Seq(X \cap S)
  <2>1. s[k] \in X
    OBVIOUS
  <2>2. CASE s[k] \in S
    <3>1. <<s[k]>> \in Seq(X) /\ <<s[k]>> \in Seq(X \cap S)
      BY <2>1, <2>2
    <3> QED
      BY <2>2, <3>1
  <2>3. CASE s[k] \notin S
    <3>1. <<>> \in Seq(X) /\ <<>> \in Seq(X \cap S)
      OBVIOUS
    <3> QED
      BY <2>3, <3>1
  <2> QED
    BY <2>2, <2>3
<1>2. Len(s) \in Nat
  OBVIOUS
<1>3. pieces \in Seq(Seq(X))
  BY <1>1, <1>2
<1>4. pieces \in Seq(Seq(X \cap S))
  BY <1>1, <1>2
<1>5. Among(s, S) = FlattenSeq(pieces)
  BY DEF Among
<1> HIDE DEF pieces
<1> QED
  BY <1>3, <1>4, <1>5, FlatText

LEMMA AmongNothing ==
    ASSUME NEW S
    PROVE  Among(<<>>, S) = <<>>
<1>1. [k \in 1..Len(<<>>) |-> IF <<>>[k] \in S THEN <<<<>>[k]>> ELSE <<>>] = <<>>
  OBVIOUS
<1> QED
  BY <1>1, FlatNothing DEF Among

LEMMA AmongAppend ==
    ASSUME NEW X, NEW s \in Seq(X), NEW x \in X, NEW S
    PROVE  Among(Append(s, x), S) = IF x \in S THEN Append(Among(s, S), x) ELSE Among(s, S)
<1> DEFINE pieces == [k \in 1..Len(s) |-> IF s[k] \in S THEN <<s[k]>> ELSE <<>>]
           one == IF x \in S THEN <<x>> ELSE <<>>
           t == Append(s, x)
           longer == [k \in 1..Len(t) |-> IF t[k] \in S THEN <<t[k]>> ELSE <<>>]
<1>1. one \in Seq(X)
  <2>1. <<x>> \in Seq(X) /\ <<>> \in Seq(X)
    OBVIOUS
  <2> QED
    BY <2>1
<1>2. ASSUME NEW k \in 1..Len(s)
      PROVE  pieces[k] \in Seq(X)
  <2>1. s[k] \in X
    OBVIOUS
  <2>2. <<s[k]>> \in Seq(X) /\ <<>> \in Seq(X)
    BY <2>1
  <2> QED
    BY <2>2
<1>3. Len(s) \in Nat
  OBVIOUS
<1>4. pieces \in Seq(Seq(X)) /\ Len(pieces) = Len(s)
  BY <1>2, <1>3
<1>5. Len(t) = Len(s) + 1 /\ t[Len(s) + 1] = x /\ \A k \in 1..Len(s) : t[k] = s[k]
  OBVIOUS
<1>6. /\ \A k \in 1..Len(s) : longer[k] = pieces[k]
      /\ longer[Len(s) + 1] = one
  BY <1>3, <1>5
<1>7. longer = Append(pieces, one)
  <2>1. Len(t) \in Nat
    BY <1>3, <1>5
  <2>2. ASSUME NEW k \in 1..Len(t)
        PROVE  longer[k] \in Seq(X)
    <3>1. k \in 1..Len(s) \/ k = Len(s) + 1
      BY <1>3, <1>5
    <3>2. longer[k] = pieces[k] \/ longer[k] = one
      BY <1>6, <3>1
    <3>3. CASE k \in 1..Len(s)
      <4>1. longer[k] = pieces[k]
        BY <1>6, <3>3
      <4>2. pieces[k] \in Seq(X)
        BY <1>2, <3>3
      <4> QED
        BY <4>1, <4>2
    <3>4. CASE k = Len(s) + 1
      <4>1. longer[k] = one
        BY <1>6, <3>4
      <4> QED
        BY <1>1, <4>1
    <3> QED
      BY <3>1, <3>3, <3>4
  <2>3. longer \in Seq(Seq(X)) /\ Len(longer) = Len(t)
    BY <2>1, <2>2
  <2> HIDE DEF longer, pieces, one
  <2>4. Len(longer) = Len(pieces) + 1 /\ longer[Len(longer)] = one
    BY <1>4, <1>5, <1>6, <2>3
  <2>5. \A k \in 1..Len(pieces) : longer[k] = pieces[k]
    BY <1>4, <1>6
  <2> QED
    BY <1>1, <1>4, <2>3, <2>4, <2>5, Extension
<1>8. FlattenSeq(longer) = FlattenSeq(pieces) \o one
  <2> HIDE DEF pieces, one, longer
  <2> QED
    BY <1>1, <1>4, <1>7, FlatAppend
<1>9. Among(t, S) = FlattenSeq(longer) /\ Among(s, S) = FlattenSeq(pieces)
  BY DEF Among
<1>10. Among(s, S) \in Seq(X)
  BY AmongType
<1>11. PICK a \in Seq(X) : a = Among(s, S)
  BY <1>10
<1>12. Among(t, S) = a \o one
  BY <1>8, <1>9, <1>11
<1> QED
  <2>1. CASE x \in S
    <3>1. one = <<x>>
      BY <2>1
    <3>2. a \o <<x>> = Append(a, x)
      BY AppendIsConcat
    <3> QED
      BY <1>11, <1>12, <2>1, <3>1, <3>2
  <2>2. CASE x \notin S
    <3>1. one = <<>>
      BY <2>2
    <3>2. a \o <<>> = a
      BY ConcatEmptySeq
    <3> QED
      BY <1>11, <1>12, <2>2, <3>1, <3>2
  <2> QED
    BY <2>1, <2>2

LEMMA AmongTaken ==
    ASSUME NEW X, NEW s \in Seq(X), NEW x \in X, NEW S, x \in S
    PROVE  Among(Append(s, x), S) = Append(Among(s, S), x)
  BY AmongAppend

LEMMA AmongLeft ==
    ASSUME NEW X, NEW s \in Seq(X), NEW x \in X, NEW S, x \notin S
    PROVE  Among(Append(s, x), S) = Among(s, S)
  BY AmongAppend

(* Whether an element is in the set is all that counts.                      *)
LEMMA AmongSame ==
    ASSUME NEW s, NEW S, NEW T, \A k \in 1..Len(s) : s[k] \in S <=> s[k] \in T
    PROVE  Among(s, S) = Among(s, T)
<1>1. [k \in 1..Len(s) |-> IF s[k] \in S THEN <<s[k]>> ELSE <<>>]
        = [k \in 1..Len(s) |-> IF s[k] \in T THEN <<s[k]>> ELSE <<>>]
  OBVIOUS
<1> QED
  BY <1>1 DEF Among

LEMMA AmongAll ==
    ASSUME NEW X, NEW s \in Seq(X), NEW S, \A k \in 1..Len(s) : s[k] \in S
    PROVE  Among(s, S) = s
<1> DEFINE Lengths == {n \in Nat : \A t \in Seq(X) :
                 Len(t) = n /\ (\A k \in 1..n : t[k] \in S) => Among(t, S) = t}
<1>1. 0 \in Lengths
  <2>1. ASSUME NEW t \in Seq(X), Len(t) = 0
        PROVE  Among(t, S) = t
    BY <2>1, AmongNothing, EmptySeq
  <2> QED
    BY <2>1
<1>2. ASSUME NEW n \in Nat, n \in Lengths
      PROVE  n + 1 \in Lengths
  <2> SUFFICES ASSUME NEW t \in Seq(X), Len(t) = n + 1, \A k \in 1..(n + 1) : t[k] \in S
               PROVE  Among(t, S) = t
    OBVIOUS
  <2>1. PICK u \in Seq(X), x \in X : t = Append(u, x) /\ Len(u) = n
    BY LastOf
  <2>2. x \in S /\ \A k \in 1..n : u[k] \in S
    BY <2>1
  <2>3. Among(u, S) = u
    BY <1>2, <2>1, <2>2
  <2>4. Among(t, S) = Append(u, x)
    BY <2>1, <2>2, <2>3, AmongTaken
  <2> QED
    BY <2>1, <2>4
<1>3. Nat \subseteq Lengths
  BY <1>1, <1>2, Counting
<1>4. Len(s) \in Lengths
  BY <1>3
<1> QED
  BY <1>4

LEMMA AmongNone ==
    ASSUME NEW X, NEW s \in Seq(X), NEW S, \A k \in 1..Len(s) : s[k] \notin S
    PROVE  Among(s, S) = <<>>
<1> DEFINE Lengths == {n \in Nat : \A t \in Seq(X) :
                 Len(t) = n /\ (\A k \in 1..n : t[k] \notin S) => Among(t, S) = <<>>}
<1>1. 0 \in Lengths
  <2>1. ASSUME NEW t \in Seq(X), Len(t) = 0
        PROVE  Among(t, S) = <<>>
    BY <2>1, AmongNothing, EmptySeq
  <2> QED
    BY <2>1
<1>2. ASSUME NEW n \in Nat, n \in Lengths
      PROVE  n + 1 \in Lengths
  <2> SUFFICES ASSUME NEW t \in Seq(X), Len(t) = n + 1, \A k \in 1..(n + 1) : t[k] \notin S
               PROVE  Among(t, S) = <<>>
    OBVIOUS
  <2>1. PICK u \in Seq(X), x \in X : t = Append(u, x) /\ Len(u) = n
    BY LastOf
  <2>2. x \notin S /\ \A k \in 1..n : u[k] \notin S
    BY <2>1
  <2>3. Among(u, S) = <<>>
    BY <1>2, <2>1, <2>2
  <2>4. Among(t, S) = Among(u, S)
    BY <2>1, <2>2, AmongLeft
  <2> QED
    BY <2>3, <2>4
<1>3. Nat \subseteq Lengths
  BY <1>1, <1>2, Counting
<1>4. Len(s) \in Lengths
  BY <1>3
<1> QED
  BY <1>4

AmongParted(s, t, S) == Among(s \o t, S) = Among(s, S) \o Among(t, S)

LEMMA AmongJoined ==
    ASSUME NEW X, NEW s \in Seq(X), NEW t \in Seq(X), NEW S
    PROVE  AmongParted(s, t, S)
<1> DEFINE Lengths == {n \in Nat : \A v \in Seq(X) :
                 Len(v) = n => Among(s \o v, S) = Among(s, S) \o Among(v, S)}
<1>1. 0 \in Lengths
  <2>1. ASSUME NEW v \in Seq(X), Len(v) = 0
        PROVE  Among(s \o v, S) = Among(s, S) \o Among(v, S)
    <3>1. v = <<>> /\ s \o <<>> = s /\ Among(s, S) \o <<>> = Among(s, S)
      BY <2>1, AmongType, EmptySeq, ConcatEmptySeq
    <3> QED
      BY <3>1, AmongNothing
  <2> QED
    BY <2>1
<1>2. ASSUME NEW n \in Nat, n \in Lengths
      PROVE  n + 1 \in Lengths
  <2> SUFFICES ASSUME NEW v \in Seq(X), Len(v) = n + 1
               PROVE  Among(s \o v, S) = Among(s, S) \o Among(v, S)
    OBVIOUS
  <2>1. PICK u \in Seq(X), x \in X : v = Append(u, x) /\ Len(u) = n
    BY LastOf
  <2>3. PICK a \in Seq(X) : a = Among(s, S)
    BY AmongType
  <2>4. PICK b \in Seq(X) : b = Among(u, S)
    BY AmongType
  <2>5. Among(s \o u, S) = a \o b
    BY <1>2, <2>1, <2>3, <2>4
  <2>9. s \o u \in Seq(X)
    OBVIOUS
  <2>6. s \o Append(u, x) = Append(s \o u, x) /\ a \o Append(b, x) = Append(a \o b, x)
    OBVIOUS
  <2>7. CASE x \in S
    <3>1. Among(Append(s \o u, x), S) = Append(Among(s \o u, S), x)
      BY <2>9, <2>7, AmongTaken
    <3>2. Among(Append(u, x), S) = Append(Among(u, S), x)
      BY <2>7, AmongTaken
    <3> QED
      BY <2>1, <2>3, <2>4, <2>5, <2>6, <3>1, <3>2
  <2>8. CASE x \notin S
    <3>1. Among(Append(s \o u, x), S) = Among(s \o u, S)
      BY <2>9, <2>8, AmongLeft
    <3>2. Among(Append(u, x), S) = Among(u, S)
      BY <2>8, AmongLeft
    <3> QED
      BY <2>1, <2>3, <2>4, <2>5, <2>6, <3>1, <3>2
  <2> QED
    BY <2>7, <2>8
<1>3. Nat \subseteq Lengths
  BY <1>1, <1>2, Counting
<1>4. Len(t) \in Lengths
  BY <1>3
<1>5. Among(s \o t, S) = Among(s, S) \o Among(t, S)
  BY <1>4
<1> QED
  BY <1>5 DEF AmongParted

(* The elements before one that is in the set, that one, and those after.    *)
LEMMA AmongAround ==
    ASSUME NEW X, NEW s \in Seq(X), NEW S, NEW k \in 1..Len(s), s[k] \in S
    PROVE  Among(s, S) = Append(Among(SubSeq(s, 1, k - 1), S), s[k])
                         \o Among(SubSeq(s, k + 1, Len(s)), S)
<1>1. s[k] \in X /\ <<s[k]>> \in Seq(X)
  <2>1. s[k] \in X
    OBVIOUS
  <2> QED
    BY <2>1
<1>2. PICK u \in Seq(X) : u = SubSeq(s, 1, k - 1)
  BY Around
<1>3. PICK v \in Seq(X) : v = SubSeq(s, k + 1, Len(s))
  BY Around
<1>4. s = (u \o <<s[k]>>) \o v
  BY <1>2, <1>3, Around
<1>5. PICK t \in Seq(X) : t = u \o <<s[k]>>
  <2>1. u \o <<s[k]>> \in Seq(X)
    BY <1>1
  <2> QED
    BY <2>1
<1>6. Among(t \o v, S) = Among(t, S) \o Among(v, S)
  <2>1. AmongParted(t, v, S)
    BY AmongJoined
  <2> QED
    BY <2>1 DEF AmongParted
<1>7. u \o <<s[k]>> = Append(u, s[k])
  BY <1>1, AppendIsConcat
<1>8. Among(u \o <<s[k]>>, S) = Append(Among(u, S), s[k])
  BY <1>1, <1>7, AmongTaken
<1>9. Among(s, S) = Append(Among(u, S), s[k]) \o Among(v, S)
  BY <1>4, <1>5, <1>6, <1>8
<1> QED
  BY <1>2, <1>3, <1>9

LEMMA AmongSome ==
    ASSUME NEW X, NEW s \in Seq(X), NEW S, NEW k \in 1..Len(s), s[k] \in S
    PROVE  Among(s, S) # <<>>
<1>1. PICK u \in Seq(X) : u = SubSeq(s, 1, k - 1)
  BY Around
<1>0. PICK v \in Seq(X) : v = SubSeq(s, k + 1, Len(s))
  BY Around
<1>n. Among(s, S) = Append(Among(u, S), s[k]) \o Among(v, S)
  BY <1>1, <1>0, AmongAround
<1>2. PICK a \in Seq(X) : a = Among(u, S)
  BY AmongType
<1>3. PICK b \in Seq(X) : b = Among(v, S)
  BY AmongType
<1>4. s[k] \in X
  OBVIOUS
<1>5. Len(Append(a, s[k]) \o b) = Len(a) + 1 + Len(b)
  BY <1>4
<1>6. Len(a) \in Nat /\ Len(b) \in Nat
  OBVIOUS
<1>7. Len(Among(s, S)) > 0
  BY <1>n, <1>2, <1>3, <1>5, <1>6
<1> QED
  BY <1>7

(* The one element that is in the set.                                       *)
LEMMA AmongOne ==
    ASSUME NEW X, NEW s \in Seq(X), NEW S, NEW k \in 1..Len(s), s[k] \in S,
           Len(Among(s, S)) <= 1
    PROVE  /\ Among(s, S) = <<s[k]>>
           /\ \A j \in 1..Len(s) : s[j] \in S => j = k
<1>1. PICK u \in Seq(X) : u = SubSeq(s, 1, k - 1)
  BY Around
<1>0. PICK v \in Seq(X) : v = SubSeq(s, k + 1, Len(s))
  BY Around
<1>n. Among(s, S) = Append(Among(u, S), s[k]) \o Among(v, S)
  BY <1>1, <1>0, AmongAround
<1>2. PICK a \in Seq(X) : a = Among(u, S)
  BY AmongType
<1>3. PICK b \in Seq(X) : b = Among(v, S)
  BY AmongType
<1>4. s[k] \in X
  OBVIOUS
<1>5. Len(a) = 0 /\ Len(b) = 0
  BY <1>n, <1>2, <1>3, <1>4
<1>6. a = <<>> /\ b = <<>>
  BY <1>5, EmptySeq
<1>7. Append(<<>>, s[k]) \o <<>> = <<s[k]>>
  BY <1>4
<1>8. ASSUME NEW j \in 1..Len(s), s[j] \in S
      PROVE  j = k
  <2>1. CASE j < k
    <3>1. j \in 1..Len(u) /\ u[j] = s[j]
      BY <1>1, <2>1
    <3> QED
      BY <1>2, <1>6, <1>8, <3>1, AmongSome
  <2>2. CASE j > k
    <3>0. /\ Len(v) = Len(s) - k
          /\ \A i \in 1..(Len(s) - k) : v[i] = s[k + i]
      BY <1>0
    <3>1. j - k \in 1..Len(v) /\ k + (j - k) = j
      BY <2>2, <3>0
    <3>2. v[j - k] = s[j]
      BY <3>0, <3>1
    <3> QED
      BY <1>3, <1>6, <1>8, <3>1, <3>2, AmongSome
  <2> QED
    BY <2>1, <2>2
<1> QED
  BY <1>n, <1>2, <1>3, <1>6, <1>7, <1>8

LEMMA AmongOnly ==
    ASSUME NEW X, NEW s \in Seq(X), NEW S, NEW k \in 1..Len(s), s[k] \in S,
           \A j \in 1..Len(s) : s[j] \in S => j = k
    PROVE  Among(s, S) = <<s[k]>>
<1>1. PICK u \in Seq(X) : u = SubSeq(s, 1, k - 1)
  BY Around
<1>0. PICK v \in Seq(X) : v = SubSeq(s, k + 1, Len(s))
  BY Around
<1>n. Among(s, S) = Append(Among(u, S), s[k]) \o Among(v, S)
  BY <1>1, <1>0, AmongAround
<1>2. ASSUME NEW j \in 1..Len(u)
      PROVE  u[j] \notin S
  <2>1. u[j] = s[j] /\ j \in 1..Len(s) /\ j < k
    BY <1>1
  <2> QED
    BY <2>1
<1>3. ASSUME NEW j \in 1..Len(v)
      PROVE  v[j] \notin S
  <2>1. Len(v) = Len(s) - k
    BY <1>0, Around
  <2>2. k + j \in 1..Len(s) /\ k + j > k
    BY <2>1
  <2>3. v[j] = s[k + j]
    BY <1>0, <2>1, <2>2
  <2> QED
    BY <2>2, <2>3
<1>4. Among(u, S) = <<>> /\ Among(v, S) = <<>>
  BY <1>2, <1>3, AmongNone
<1>5. s[k] \in X
  OBVIOUS
<1>6. Append(<<>>, s[k]) \o <<>> = <<s[k]>>
  BY <1>5
<1> QED
  BY <1>n, <1>4, <1>6

(* A function applied to every element, of a sequence or of its pieces.      *)
Mapped(g, v) == [k \in 1..Len(v) |-> g[v[k]]]
Takes(g, X, Y) == \A x \in X : g[x] \in Y
Follow(g, v, m) == Len(m) = Len(v) /\ \A k \in 1..Len(v) : m[k] = g[v[k]]

LEMMA MappedType ==
    ASSUME NEW X, NEW Y, NEW g, Takes(g, X, Y), NEW v \in Seq(X)
    PROVE  Mapped(g, v) \in Seq(Y) /\ Follow(g, v, Mapped(g, v))
<1>1. Len(v) \in Nat /\ \A k \in 1..Len(v) : g[v[k]] \in Y
  BY DEF Takes
<1> QED
  BY <1>1 DEF Mapped, Follow

Parted(g, u, v) == Mapped(g, u \o v) = Mapped(g, u) \o Mapped(g, v)

LEMMA MappedJoined ==
    ASSUME NEW X, NEW Y, NEW g, Takes(g, X, Y), NEW u \in Seq(X), NEW v \in Seq(X)
    PROVE  Parted(g, u, v)
<1>1. PICK w \in Seq(X) : w = u \o v
  BY ConcatProperties
<1>2. PICK a \in Seq(Y) : a = Mapped(g, u)
  BY MappedType
<1>3. PICK b \in Seq(Y) : b = Mapped(g, v)
  BY MappedType
<1>4. PICK c \in Seq(Y) : c = Mapped(g, w)
  BY MappedType
<1>5. PICK d \in Seq(Y) : d = a \o b
  BY ConcatProperties
<1>0. Follow(g, u, a) /\ Follow(g, v, b) /\ Follow(g, w, c)
  BY <1>1, <1>2, <1>3, <1>4, MappedType
<1>6. Len(c) = Len(u) + Len(v) /\ Len(d) = Len(u) + Len(v)
  <2>1. Len(w) = Len(u) + Len(v)
    BY <1>1, ConcatProperties
  <2>2. Len(d) = Len(a) + Len(b)
    BY <1>2, <1>3, <1>5, ConcatProperties
  <2> QED
    BY <1>0, <2>1, <2>2 DEF Follow
<1>7. ASSUME NEW k \in 1..Len(c)
      PROVE  c[k] = d[k]
  <2>1. CASE k \in 1..Len(u)
    <3>1. w[k] = u[k] /\ d[k] = a[k]
      BY <1>0, <1>1, <1>5, <2>1 DEF Follow
    <3> QED
      BY <1>0, <1>6, <2>1, <3>1 DEF Follow
  <2>2. CASE k \notin 1..Len(u)
    <3>1. k - Len(u) \in 1..Len(v) /\ w[k] = v[k - Len(u)] /\ d[k] = b[k - Len(u)]
      BY <1>0, <1>1, <1>5, <1>6, <2>2 DEF Follow
    <3> QED
      BY <1>0, <1>6, <3>1 DEF Follow
  <2> QED
    BY <2>1, <2>2
<1>8. c = d
  BY <1>6, <1>7, SeqEqual
<1> QED
  BY <1>1, <1>2, <1>3, <1>4, <1>5, <1>8 DEF Parted

LEMMA FlatMapped ==
    ASSUME NEW X, NEW Y, NEW g, Takes(g, X, Y), NEW s \in Seq(Seq(X))
    PROVE  /\ [k \in 1..Len(s) |-> Mapped(g, s[k])] \in Seq(Seq(Y))
           /\ Mapped(g, FlattenSeq(s)) = FlattenSeq([k \in 1..Len(s) |-> Mapped(g, s[k])])
<1> DEFINE t == [k \in 1..Len(s) |-> Mapped(g, s[k])]
<1>1. PICK n \in Nat : n = Len(s)
  OBVIOUS
<1>2. t \in Seq(Seq(Y)) /\ Len(t) = n /\ \A k \in 1..n : t[k] = Mapped(g, s[k])
  <2>1. PICK Z : Z = Seq(Y)
    OBVIOUS
  <2>2. \A k \in 1..Len(s) : Mapped(g, s[k]) \in Z
    BY <2>1, MappedType
  <2> QED
    BY <1>1, <2>1, <2>2
<1> HIDE DEF t
<1> DEFINE S == {k \in Nat : k <= n =>
                   Mapped(g, FlattenSeq(SubSeq(s, 1, k))) = FlattenSeq(SubSeq(t, 1, k))}
<1>3. 0 \in S
  <2>1. SubSeq(s, 1, 0) = <<>> /\ SubSeq(t, 1, 0) = <<>>
    BY SubSeqEmpty
  <2>2. Mapped(g, <<>>) = <<>>
    BY DEF Mapped
  <2> QED
    BY <2>1, <2>2, FlatNothing
<1>4. ASSUME NEW k \in Nat, k \in S
      PROVE  k + 1 \in S
  <2> SUFFICES ASSUME k + 1 <= n
               PROVE  Mapped(g, FlattenSeq(SubSeq(s, 1, k + 1))) = FlattenSeq(SubSeq(t, 1, k + 1))
    OBVIOUS
  <2>1. k + 1 \in 1..n /\ (k + 1) - 1 = k /\ k <= n
    OBVIOUS
  <2>2. PICK x \in Seq(X) : x = s[k + 1] /\ t[k + 1] = Mapped(g, x)
    BY <1>1, <1>2, <2>1
  <2>3. PICK u \in Seq(X) : u = FlattenSeq(SubSeq(s, 1, k))
    <3>1. SubSeq(s, 1, k) \in Seq(Seq(X))
      BY <1>1, <2>1, FlatPiece
    <3> QED
      BY <3>1, FlatText
  <2>4. FlattenSeq(SubSeq(s, 1, k + 1)) = u \o x
    BY <1>1, <2>1, <2>2, <2>3, FlatPiece
  <2>5. FlattenSeq(SubSeq(t, 1, k + 1)) = FlattenSeq(SubSeq(t, 1, k)) \o Mapped(g, x)
    BY <1>2, <2>1, <2>2, FlatPiece
  <2>6. Mapped(g, u) = FlattenSeq(SubSeq(t, 1, k))
    BY <1>4, <2>1, <2>3
  <2>7. Parted(g, u, x)
    BY <2>2, <2>3, MappedJoined
  <2> QED
    BY <2>4, <2>5, <2>6, <2>7 DEF Parted
<1>5. Nat \subseteq S
  BY <1>3, <1>4, Counting
<1>6. Mapped(g, FlattenSeq(SubSeq(s, 1, n))) = FlattenSeq(SubSeq(t, 1, n))
  <2>1. n \in S /\ n <= n
    BY <1>5
  <2> QED
    BY <2>1
<1>7. SubSeq(s, 1, n) = s /\ SubSeq(t, 1, n) = t
  BY <1>1, <1>2, SubSeqFull
<1>8. t \in Seq(Seq(Y)) /\ Mapped(g, FlattenSeq(s)) = FlattenSeq(t)
  BY <1>2, <1>6, <1>7
<1> USE DEF t
<1> QED
  BY <1>8

LEMMA MinIs ==
    ASSUME NEW S, S \subseteq Nat, NEW m \in S, \A k \in S : m <= k
    PROVE  Min(S) = m
<1>1. Min(S) \in S /\ \A k \in S : Min(S) <= k
  BY DEF Min
<1>2. m \in Nat /\ Min(S) \in Nat /\ Min(S) <= m /\ m <= Min(S)
  BY <1>1
<1> QED
  BY <1>2

LEMMA MaxIs ==
    ASSUME NEW S, S \subseteq Nat, NEW m \in S, \A k \in S : k <= m
    PROVE  Max(S) = m
<1>1. Max(S) \in S /\ \A k \in S : Max(S) >= k
  BY DEF Max
<1>2. m \in Nat /\ Max(S) \in Nat /\ Max(S) >= m /\ Max(S) <= m
  BY <1>1
<1> QED
  BY <1>2

LEMMA GreatestNumber ==
    ASSUME NEW n \in Nat, NEW S, S \subseteq 1..n, S # {}
    PROVE  \E m \in S : \A k \in S : k <= m
<1> DEFINE T == {n - k : k \in S}
<1>1. T \subseteq Nat /\ T # {}
  <2>1. ASSUME NEW k \in S
        PROVE  n - k \in Nat
    <3>1. k \in 1..n
      OBVIOUS
    <3> QED
      BY <3>1
  <2>2. PICK k \in S : TRUE
    OBVIOUS
  <2>3. n - k \in T
    OBVIOUS
  <2> QED
    BY <2>1, <2>3
<1>2. PICK t \in T : \A k \in T : t <= k
  BY <1>1, LeastNumber
<1>3. PICK m \in S : t = n - m
  OBVIOUS
<1>4. ASSUME NEW k \in S
      PROVE  k <= m
  <2>1. n - k \in T /\ k \in Int /\ m \in Int
    OBVIOUS
  <2>2. n - m <= n - k
    BY <1>2, <1>3, <2>1
  <2> QED
    BY <2>1, <2>2
<1> QED
  BY <1>4

(* The first blank line of a text, and what is before and after it.          *)
LEMMA NoBlank ==
    ASSUME NEW v, \A k \in 1..Len(v) : v[k] # <<>>
    PROVE  Until(v, Blank) = v /\ Past(v, Blank) = <<>>
  BY DEF Until, Past, SelectInSeq, Blank

LEMMA CutAtBlank ==
    ASSUME NEW X, NEW v \in Seq(X), NEW n \in 1..Len(v), v[n] = <<>>,
           \A k \in 1..(n - 1) : v[k] # <<>>
    PROVE  /\ Until(v, Blank) = SubSeq(v, 1, n - 1)
           /\ Past(v, Blank) = SubSeq(v, n + 1, Len(v))
<1> DEFINE I == {i \in 1..Len(v) : Blank(v[i])}
<1>1. I \subseteq Nat /\ n \in I
  BY DEF Blank
<1>2. ASSUME NEW k \in I
      PROVE  n <= k
  BY <1>2 DEF Blank
<1>3. Min(I) = n
  <2> HIDE DEF I
  <2> QED
    BY <1>1, <1>2, MinIs
<1>4. n # 0 /\ SelectInSeq(v, Blank) = n
  BY <1>1, <1>3 DEF SelectInSeq
<1> QED
  BY <1>4 DEF Until, Past

LEMMA CutBetween ==
    ASSUME NEW X, NEW u \in Seq(X), NEW w \in Seq(X), <<>> \in X,
           \A k \in 1..Len(u) : u[k] # <<>>
    PROVE  /\ Until((u \o <<<<>>>>) \o w, Blank) = u
           /\ Past((u \o <<<<>>>>) \o w, Blank) = w
<1>1. PICK v : v = (u \o <<<<>>>>) \o w
  OBVIOUS
<1>2. PICK n \in Nat : n = Len(u)
  OBVIOUS
<1>3. /\ v \in Seq(X) /\ n + 1 \in 1..Len(v) /\ v[n + 1] = <<>>
      /\ \A k \in 1..n : v[k] = u[k]
      /\ SubSeq(v, 1, n) = u /\ SubSeq(v, n + 2, Len(v)) = w
  BY <1>1, <1>2, Middle
<1>4. \A k \in 1..n : v[k] # <<>>
  BY <1>2, <1>3
<1>5. (n + 1) - 1 = n /\ (n + 1) + 1 = n + 2
  OBVIOUS
<1>6. Until(v, Blank) = SubSeq(v, 1, n) /\ Past(v, Blank) = SubSeq(v, n + 2, Len(v))
  BY <1>3, <1>4, <1>5, CutAtBlank
<1> QED
  BY <1>1, <1>3, <1>6

(* Any text has a first blank line, or none.                                 *)
LEMMA CutSomewhere ==
    ASSUME NEW X, NEW v \in Seq(X)
    PROVE  \/ \A k \in 1..Len(v) : v[k] # <<>>
           \/ \E n \in 1..Len(v) : v[n] = <<>> /\ \A k \in 1..(n - 1) : v[k] # <<>>
<1> DEFINE I == {i \in 1..Len(v) : v[i] = <<>>}
<1>1. CASE I = {}
  BY <1>1
<1>2. CASE I # {}
  <2>1. I \subseteq Nat
    OBVIOUS
  <2>2. PICK n \in I : \A k \in I : n <= k
    BY <1>2, <2>1, LeastNumber
  <2>3. ASSUME NEW k \in 1..(n - 1)
        PROVE  v[k] # <<>>
    <3>1. k \in 1..Len(v) /\ ~(n <= k)
      BY <2>1
    <3> QED
      BY <2>2, <3>1
  <2> QED
    BY <2>2, <2>3
<1> QED
  BY <1>1, <1>2

(* Up to the next separator.                                                 *)
LEMMA UntilSeparator ==
    ASSUME NEW X, NEW v \in Seq(X)
    PROVE  \E m \in 0..Len(v) : /\ Until(v, Separates) = SubSeq(v, 1, m)
                                /\ m = Len(v) \/ Separates(v[m + 1])
<1> DEFINE I == {i \in 1..Len(v) : Separates(v[i])}
<1>1. CASE I = {}
  <2>1. SelectInSeq(v, Separates) = 0
    BY <1>1 DEF SelectInSeq
  <2>2. Until(v, Separates) = SubSeq(v, 1, Len(v))
    BY <2>1, SubSeqFull DEF Until
  <2>3. Len(v) \in 0..Len(v)
    OBVIOUS
  <2> QED
    BY <2>2, <2>3
<1>2. CASE I # {}
  <2>1. I \subseteq Nat
    OBVIOUS
  <2>2. PICK n \in I : \A k \in I : n <= k
    BY <1>2, <2>1, LeastNumber
  <2>3. Min(I) = n
    <3> HIDE DEF I
    <3> QED
      BY <2>1, <2>2, MinIs
  <2>4. n # 0 /\ SelectInSeq(v, Separates) = n
    BY <1>2, <2>3 DEF SelectInSeq
  <2>5. Until(v, Separates) = SubSeq(v, 1, n - 1)
    BY <2>4 DEF Until
  <2>6. n - 1 \in 0..Len(v) /\ (n - 1) + 1 = n /\ Separates(v[n])
    BY <2>2
  <2> QED
    BY <2>5, <2>6
<1> QED
  BY <1>1, <1>2

-----------------------------------------------------------------------------
(* Texts.                                                                    *)
LEMMA OneLine ==
    ASSUME NEW L, NEW l \in L
    PROVE  <<l>> \in Seq(L) /\ <<l>> # <<>> /\ Len(<<l>>) = 1 /\ <<l>>[1] = l
  OBVIOUS

LEMMA NoLine ==
    ASSUME NEW L
    PROVE  <<>> \in Seq(L)
  OBVIOUS

LEMMA LinesJoined ==
    ASSUME NEW L, NEW u \in Seq(L), NEW v \in Seq(L)
    PROVE  /\ u \o v \in Seq(L) /\ Len(u \o v) = Len(u) + Len(v)
           /\ (u # <<>> \/ v # <<>>) => u \o v # <<>>
<1>1. u \o v \in Seq(L) /\ Len(u \o v) = Len(u) + Len(v)
  OBVIOUS
<1>2. (u # <<>> => Len(u) > 0) /\ (v # <<>> => Len(v) > 0) /\ Len(u) \in Nat /\ Len(v) \in Nat
  BY EmptySeq
<1> QED
  BY <1>1, <1>2

(* What the values of -d make together.                                      *)
Joins(f, vs, n) ==
    f = [k \in 1..n |-> IF k = 1 THEN vs[1] ELSE JoinTwo(f[k - 1], vs[k])]

LEMMA SomethingJoins ==
    ASSUME NEW vs, NEW n \in Nat
    PROVE  \E f : Joins(f, vs, n)
<1> DEFINE S == {m \in Nat : \E f : Joins(f, vs, m)}
<1>1. 0 \in S
  <2>1. Joins([k \in 1..0 |-> <<>>], vs, 0)
    BY DEF Joins
  <2> QED
    BY <2>1
<1>2. ASSUME NEW m \in Nat, m \in S
      PROVE  m + 1 \in S
  <2>1. PICK f : Joins(f, vs, m)
    BY <1>2
  <2> DEFINE g == [k \in 1..(m + 1) |->
                     IF k <= m THEN f[k]
                     ELSE IF k = 1 THEN vs[1] ELSE JoinTwo(f[k - 1], vs[k])]
  <2>2. \A k \in 1..m : f[k] = IF k = 1 THEN vs[1] ELSE JoinTwo(f[k - 1], vs[k])
    BY <2>1 DEF Joins
  <2>3. ASSUME NEW k \in 1..(m + 1)
        PROVE  g[k] = IF k = 1 THEN vs[1] ELSE JoinTwo(g[k - 1], vs[k])
    <3>1. CASE k = 1
      BY <2>2, <3>1
    <3>2. CASE k # 1
      <4>1. k - 1 \in 1..(m + 1) /\ k - 1 <= m
        BY <3>2
      <4>2. g[k - 1] = f[k - 1]
        BY <4>1
      <4>3. CASE k <= m
        <5>1. k \in 1..m /\ g[k] = f[k]
          BY <4>3
        <5> QED
          BY <2>2, <3>2, <4>2, <5>1
      <4>4. CASE ~(k <= m)
        <5>1. g[k] = JoinTwo(f[k - 1], vs[k])
          BY <3>2, <4>4
        <5> QED
          BY <3>2, <4>2, <5>1
      <4> QED
        BY <4>3, <4>4
    <3> QED
      BY <3>1, <3>2
  <2>4. Joins(g, vs, m + 1)
    BY <2>3 DEF Joins
  <2> QED
    BY <2>4
<1>3. Nat \subseteq S
  BY <1>1, <1>2, Counting
<1> QED
  BY <1>3

LEMMA JoinIs ==
    ASSUME NEW vs, NEW n \in Nat, n = Len(vs), n > 0
    PROVE  \E f : /\ Join(vs) = f[n] /\ f[1] = vs[1]
                  /\ \A k \in 2..n : f[k] = JoinTwo(f[k - 1], vs[k])
<1>1. PICK f : Joins(f, vs, n) /\ Join(vs) = f[n]
  <2>1. Join(vs) = (CHOOSE f : Joins(f, vs, n))[n]
    BY DEF Join, Joins
  <2> QED
    BY <2>1, SomethingJoins
<1>2. \A k \in 1..n : f[k] = IF k = 1 THEN vs[1] ELSE JoinTwo(f[k - 1], vs[k])
  BY <1>1 DEF Joins
<1>3. 1 \in 1..n /\ \A k \in 2..n : k \in 1..n /\ k # 1
  OBVIOUS
<1> QED
  BY <1>1, <1>2, <1>3

LEMMA JoinOne ==
    ASSUME NEW v
    PROVE  Join(<<v>>) = v
<1>1. PICK vs : vs = <<v>>
  OBVIOUS
<1>2. 1 \in Nat /\ 1 = Len(vs) /\ 1 > 0 /\ vs[1] = v
  BY <1>1
<1>3. PICK f : Join(vs) = f[1] /\ f[1] = vs[1]
  BY <1>2, JoinIs
<1> QED
  BY <1>1, <1>2, <1>3

(* Sets of lines that stay among themselves when two are put together.       *)
Closed(L) ==
    /\ L \subseteq Seq(Pieces)
    /\ \A l, m \in L : (l \o <<"&">>) \o m \in L

LEMMA JoinTwoLines ==
    ASSUME NEW L, Closed(L), NEW u \in Seq(L), u # <<>>, NEW v \in Seq(L), v # <<>>
    PROVE  JoinTwo(u, v) \in Seq(L) /\ JoinTwo(u, v) # <<>>
<1>1. Front(u) \in Seq(L) /\ Last(u) \in L
  BY EmptySeq DEF Front, Last
<1>2. Tail(v) \in Seq(L) /\ v[1] \in L
  BY FirstOf
<1>3. PICK l \in L : l = (Last(u) \o <<"&">>) \o v[1]
  BY <1>1, <1>2 DEF Closed
<1>4. <<l>> \in Seq(L) /\ <<l>> # <<>>
  BY OneLine
<1>5. Front(u) \o <<l>> \in Seq(L) /\ Front(u) \o <<l>> # <<>>
  BY <1>1, <1>4, LinesJoined
<1>6. (Front(u) \o <<l>>) \o Tail(v) \in Seq(L) /\ (Front(u) \o <<l>>) \o Tail(v) # <<>>
  BY <1>2, <1>5, LinesJoined
<1> QED
  BY <1>3, <1>6 DEF JoinTwo, Line

LEMMA JoinLines ==
    ASSUME NEW L, Closed(L), NEW vs, NEW n \in Nat, n = Len(vs), n > 0,
           \A k \in 1..n : vs[k] \in Seq(L) /\ vs[k] # <<>>
    PROVE  Join(vs) \in Seq(L) /\ Join(vs) # <<>>
<1>1. PICK f : /\ Join(vs) = f[n] /\ f[1] = vs[1]
               /\ \A k \in 2..n : f[k] = JoinTwo(f[k - 1], vs[k])
  BY JoinIs
<1> DEFINE S == {k \in Nat : k + 1 <= n => f[k + 1] \in Seq(L) /\ f[k + 1] # <<>>}
<1>2. 0 \in S
  BY <1>1
<1>3. ASSUME NEW k \in Nat, k \in S
      PROVE  k + 1 \in S
  <2> SUFFICES ASSUME (k + 1) + 1 <= n
               PROVE  f[(k + 1) + 1] \in Seq(L) /\ f[(k + 1) + 1] # <<>>
    OBVIOUS
  <2>1. PICK i \in 2..n : i = (k + 1) + 1
    OBVIOUS
  <2>2. i - 1 = k + 1 /\ k + 1 <= n /\ i \in 1..n
    BY <2>1
  <2>3. f[i - 1] \in Seq(L) /\ f[i - 1] # <<>>
    BY <1>3, <2>2
  <2>4. vs[i] \in Seq(L) /\ vs[i] # <<>>
    BY <2>2
  <2>5. JoinTwo(f[i - 1], vs[i]) \in Seq(L) /\ JoinTwo(f[i - 1], vs[i]) # <<>>
    BY <2>3, <2>4, JoinTwoLines
  <2> QED
    BY <1>1, <2>1, <2>5
<1>4. Nat \subseteq S
  BY <1>2, <1>3, Counting
<1>5. n - 1 \in Nat /\ (n - 1) + 1 = n /\ n <= n
  OBVIOUS
<1>6. n - 1 \in S
  BY <1>4, <1>5
<1> QED
  BY <1>1, <1>5, <1>6

LEMMA AllLinesClosed == Closed(Seq(Pieces))
<1>1. ASSUME NEW l \in Seq(Pieces), NEW m \in Seq(Pieces)
      PROVE  (l \o <<"&">>) \o m \in Seq(Pieces)
  <2>1. "&" \in Pieces
    BY PiecesAssumption
  <2>2. <<"&">> \in Seq(Pieces)
    BY <2>1, OneLine
  <2> QED
    BY <2>2
<1> QED
  BY <1>1 DEF Closed

(* The text before a ";".                                                    *)
LEMMA SelectedWithin ==
    ASSUME NEW n \in Nat, NEW I, I \subseteq 1..n
    PROVE  (IF I # {} THEN Min(I) ELSE 0) \in 0..n
<1>1. CASE I = {}
  BY <1>1
<1>2. CASE I # {}
  <2>1. I \subseteq Nat
    OBVIOUS
  <2>2. PICK m \in I : \A k \in I : m <= k
    BY <1>2, <2>1, LeastNumber
  <2>3. Min(I) = m
    BY <2>1, <2>2, MinIs
  <2> QED
    BY <1>2, <2>3
<1> QED
  BY <1>1, <1>2

LEMMA BeforeSemicolonType ==
    ASSUME NEW v \in Text
    PROVE  BeforeSemicolon(v) \in Text
<1>1. v \in Seq(Seq(Pieces)) /\ v # <<>>
  BY DEF Text
<1> DEFINE I == {i \in 1..Len(v) : Contains(v[i], ";")}
<1>2. PICK n : n = IF I # {} THEN Min(I) ELSE 0
  OBVIOUS
<1>3. n \in 0..Len(v)
  <2>1. I \subseteq 1..Len(v)
    OBVIOUS
  <2>2. Len(v) \in Nat
    BY <1>1
  <2> HIDE DEF I
  <2> QED
    BY <1>2, <2>1, <2>2, SelectedWithin
<1>4. n = SelectInSeq(v, LAMBDA l : Contains(l, ";"))
  BY <1>2 DEF SelectInSeq
<1> DEFINE J == {i \in 1..Len(v[n]) : v[n][i] = ";"}
<1>5. PICK m : m = IF J # {} THEN Min(J) ELSE 0
  OBVIOUS
<1>6. m = SelectInSeq(v[n], LAMBDA p : p = ";")
  BY <1>5 DEF SelectInSeq
<1>7. BeforeSemicolon(v) = IF n = 0 THEN v ELSE Append(SubSeq(v, 1, n - 1), SubSeq(v[n], 1, m - 1))
  BY <1>4, <1>6 DEF BeforeSemicolon
<1>8. CASE n = 0
  BY <1>7, <1>8
<1>9. CASE n # 0
  <2>1. PICK w \in Seq(Pieces) : w = v[n]
    BY <1>1, <1>3, <1>9
  <2>2. m \in 0..Len(w)
    <3>1. J \subseteq 1..Len(v[n])
      OBVIOUS
    <3>2. Len(w) \in Nat
      OBVIOUS
    <3> HIDE DEF J
    <3> QED
      BY <1>5, <2>1, <3>1, <3>2, SelectedWithin
  <2>3. PICK l \in Seq(Pieces) : l = SubSeq(w, 1, m - 1)
    <3>1. m - 1 \in Int /\ 1 \in Int /\ \A i \in 1..(m - 1) : w[i] \in Pieces
      BY <2>2
    <3>2. SubSeq(w, 1, m - 1) \in Seq(Pieces)
      BY <3>1, SubSeqProperties
    <3> QED
      BY <3>2
  <2>4. PICK u \in Seq(Seq(Pieces)) : u = SubSeq(v, 1, n - 1)
    <3>1. n \in 1..Len(v)
      BY <1>3, <1>9
    <3> QED
      BY <1>1, <3>1, Around
  <2>5. Append(u, l) \in Seq(Seq(Pieces)) /\ Append(u, l) # <<>>
    BY AppendProperties
  <2> QED
    BY <1>7, <1>9, <2>1, <2>3, <2>4, <2>5 DEF Text
<1> QED
  BY <1>8, <1>9

-----------------------------------------------------------------------------
(* What Parse keeps of the arguments, in which order.                        *)
HeaderKinds == {"header", "agent", "user"}

TakenHeader(a) ==
    /\ a.is \in HeaderKinds
    /\ a.is = "header" =>
         a.value # Empty /\ ~Starts(a.value, "colonless") /\ OneLineOnly(a.value)
    /\ a.is = "agent" => ~HasLineEnd(a.value) /\ ~HasCR(a.value)
TakenForm(a) == a.is = "form" /\ ~Starts(a.value, "nameless")

(* The kept positions are those of arguments that make headers and parts.    *)
Filed ==
    /\ seen \in Seq(Args) /\ Len(seen) <= MaxArgs
    /\ \A j \in 1..Len(got.headers) :
         got.headers[j] \in 1..Len(seen) /\ TakenHeader(seen[got.headers[j]])
    /\ \A j \in 1..Len(got.forms) :
         got.forms[j] \in 1..Len(seen) /\ TakenForm(seen[got.forms[j]])
    /\ got.file # 0 => NamesFile(seen[got.file])

(* The whole effect of one argument on them.                                 *)
HeaderEffect(a) ==
    \/ TakenHeader(a) /\ got'.headers = Append(got.headers, here)
    \/ (a.is \notin HeaderKinds \/ here \in got'.warned) /\ got'.headers = got.headers
FormEffect(a) ==
    \/ TakenForm(a) /\ got'.forms = Append(got.forms, here)
    \/ (a.is # "form" \/ here \in got'.warned) /\ got'.forms = got.forms
DataEffect(a) ==
    \/ /\ a.is \in DataKinds /\ ~NamesFile(a) /\ got.file = 0
       /\ got'.file = 0 /\ got'.data = Append(got.data, here)
    \/ /\ NamesFile(a) /\ got.file = 0 /\ got.data = <<>>
       /\ got'.file = here /\ got'.data = <<>>
    \/ /\ a.is \notin DataKinds \/ here \in got'.warned \/ EmptyPath(a)
       /\ got'.file = got.file /\ got'.data = got.data

Effect(a) ==
    /\ seen' = Append(seen, a) /\ Len(seen') <= MaxArgs
    /\ got.warned \subseteq got'.warned
    /\ HeaderEffect(a) /\ FormEffect(a) /\ DataEffect(a)

LEMMA EffectOf ==
    ASSUME Kept, NEW a \in Args,
           \/ Dashes(a) \/ Positional(a) \/ Url(a) \/ Method(a) \/ HeadOnly(a)
           \/ Header(a) \/ Data(a) \/ Form(a) \/ Proxy(a) \/ Dropped(a)
           \/ Ignored(a)
    PROVE  Effect(a)
<1>n. PICK n : n = here
  OBVIOUS
<1>0. Sorted /\ Read(a) /\ got \in Got
  BY DEF Kept, Sorted, Option, Dashes, Positional, Url, Method, HeadOnly,
     Header, Data, Form, Proxy, Dropped, Ignored
<1>1. seen' = Append(seen, a) /\ Len(seen') <= MaxArgs /\ n \in Nat
  <2>1. Len(seen) < MaxArgs /\ seen' = Append(seen, a)
    BY <1>0 DEF Read
  <2>2. Len(seen') = Len(seen) + 1 /\ Len(seen) \in Nat /\ n \in Nat
    BY <1>n, <1>0, ReadTypes
  <2> QED
    BY <2>1, <2>2, MaxArgsAssumption
<1>2. /\ got.headers \in Seq(Nat) /\ got.data \in Seq(Nat)
      /\ got.forms \in Seq(Nat) /\ got.warned \in SUBSET Nat
  BY <1>0 DEF Got
<1> DEFINE Rest == /\ got'.headers = got.headers /\ got'.forms = got.forms
                   /\ got'.file = got.file /\ got'.data = got.data
<1>3. CASE Warn
  <2>1. got'.warned = got.warned \cup {n} /\ Rest
    BY <1>n, <1>0, <1>3 DEF Warn, Got
  <2> QED
    BY <1>n, <1>1, <2>1 DEF Effect, HeaderEffect, FormEffect, DataEffect
<1>4. CASE /\ got'.warned = got.warned /\ Rest
           /\ a.is \notin HeaderKinds \cup {"form"} /\ (a.is \in DataKinds => EmptyPath(a))
  BY <1>1, <1>4 DEF Effect, HeaderEffect, FormEffect, DataEffect
<1>5. CASE got' = [got EXCEPT !.headers = Append(@, n)] /\ TakenHeader(a)
  <2>1. /\ got'.warned = got.warned /\ got'.headers = Append(got.headers, n)
        /\ got'.forms = got.forms /\ got'.file = got.file /\ got'.data = got.data
    BY <1>0, <1>5 DEF Got
  <2>2. a.is \notin DataKinds /\ a.is # "form"
    BY <1>5 DEF TakenHeader, HeaderKinds, DataKinds
  <2> QED
    BY <1>n, <1>1, <1>5, <2>1, <2>2 DEF Effect, HeaderEffect, FormEffect, DataEffect
<1>6. CASE got' = [got EXCEPT !.forms = Append(@, n)] /\ TakenForm(a)
  <2>1. /\ got'.warned = got.warned /\ got'.forms = Append(got.forms, n)
        /\ got'.headers = got.headers /\ got'.file = got.file /\ got'.data = got.data
    BY <1>0, <1>6 DEF Got
  <2>2. a.is \notin DataKinds /\ a.is \notin HeaderKinds
    BY <1>6 DEF TakenForm, HeaderKinds, DataKinds
  <2> QED
    BY <1>n, <1>1, <1>6, <2>1, <2>2 DEF Effect, HeaderEffect, FormEffect, DataEffect
<1>7. CASE /\ got' = [got EXCEPT !.data = Append(@, n)]
           /\ a.is \in DataKinds /\ ~NamesFile(a) /\ got.file = 0
  <2>1. /\ got'.warned = got.warned /\ got'.data = Append(got.data, n)
        /\ got'.headers = got.headers /\ got'.file = got.file /\ got'.forms = got.forms
    BY <1>0, <1>7 DEF Got
  <2>2. a.is # "form" /\ a.is \notin HeaderKinds
    BY <1>7 DEF HeaderKinds, DataKinds
  <2> QED
    BY <1>n, <1>1, <1>7, <2>1, <2>2 DEF Effect, HeaderEffect, FormEffect, DataEffect
<1>8. CASE /\ got' = [got EXCEPT !.file = n]
           /\ NamesFile(a) /\ got.file = 0 /\ got.data = <<>>
  <2>1. /\ got'.warned = got.warned /\ got'.file = n
        /\ got'.headers = got.headers /\ got'.data = got.data /\ got'.forms = got.forms
    BY <1>0, <1>8 DEF Got
  <2>2. a.is # "form" /\ a.is \notin HeaderKinds
    BY <1>8 DEF HeaderKinds, NamesFile
  <2> QED
    BY <1>n, <1>1, <1>8, <2>1, <2>2 DEF Effect, HeaderEffect, FormEffect, DataEffect
<1> QED
  <2>1. CASE Dashes(a) \/ Url(a) \/ Method(a) \/ HeadOnly(a) \/ Proxy(a) \/ Ignored(a)
    <3>1. a.is \in {"dashes", "url", "method", "head", "proxy", "ignored"}
      BY <2>1 DEF Dashes, Url, Method, HeadOnly, Proxy, Ignored, Option
    <3>2. got'.warned = got.warned /\ Rest
      BY <1>0, <2>1 DEF Dashes, Url, Method, HeadOnly, Proxy, Ignored, Got
    <3> QED
      BY <1>4, <3>1, <3>2 DEF HeaderKinds, DataKinds
  <2>2. CASE Positional(a)
    <3>1. a.is \in {"dashes", "positional"}
      BY <2>2 DEF Positional
    <3>2. CASE ~HasURL
      <4>1. got'.warned = got.warned /\ Rest
        BY <1>0, <2>2, <3>2 DEF Positional, Got
      <4> QED
        BY <1>4, <3>1, <4>1 DEF HeaderKinds, DataKinds
    <3> QED
      BY <1>3, <2>2, <3>2 DEF Positional
  <2>3. CASE Header(a)
    BY <1>n, <1>3, <1>5, <2>3 DEF Header, Option, TakenHeader, HeaderKinds
  <2>4. CASE Form(a)
    BY <1>n, <1>3, <1>6, <2>4 DEF Form, Option, TakenForm
  <2>5. CASE Data(a)
    <3>1. a.is \in DataKinds /\ a.is \notin HeaderKinds \cup {"form"}
      BY <2>5 DEF Data, Option, HeaderKinds
    <3>2. EmptyPath(a) => NamesFile(a)
      BY DEF EmptyPath
    <3>3. \/ Warn
          \/ got' = got /\ EmptyPath(a)
          \/ /\ got.file = 0 /\ got' = [got EXCEPT !.file = here] /\ NamesFile(a)
             /\ got.data = <<>>
          \/ /\ got.file = 0 /\ got' = [got EXCEPT !.data = Append(@, here)]
             /\ ~NamesFile(a)
      BY <2>5, <3>2 DEF Data
    <3> QED
      BY <1>n, <1>3, <1>4, <1>7, <1>8, <3>1, <3>3
  <2>6. CASE Dropped(a)
    BY <1>3, <2>6 DEF Dropped
  <2> QED
    BY <2>1, <2>2, <2>3, <2>4, <2>5, <2>6

LEMMA ReadAppend ==
    ASSUME Filed, NEW a \in Args, seen' = Append(seen, a)
    PROVE  /\ seen' \in Seq(Args) /\ Len(seen) \in Nat /\ Len(seen') = Len(seen) + 1
           /\ here = Len(seen) + 1 /\ here \in Nat /\ seen'[here] = a
           /\ \A k \in 1..Len(seen) : seen'[k] = seen[k]
  BY DEF Filed, here

LEMMA FiledInit == Init => Filed
  BY MaxArgsAssumption DEF Init, Filed, GotNothing

LEMMA FiledByReading ==
    ASSUME Filed, Kept, NEW a \in Args, Effect(a)
    PROVE  Filed'
<1>1. PICK n : n = here
  OBVIOUS
<1>2. /\ seen' \in Seq(Args) /\ Len(seen) \in Nat /\ Len(seen') = Len(seen) + 1
      /\ n = Len(seen) + 1 /\ n \in Nat /\ seen'[n] = a /\ Len(seen') <= MaxArgs
      /\ \A k \in 1..Len(seen) : seen'[k] = seen[k] /\ k \in 1..Len(seen')
  BY <1>1, ReadAppend DEF Effect
<1>3. /\ got.headers \in Seq(Nat) /\ got.forms \in Seq(Nat)
      /\ got.file \in 0..Len(seen)
  BY DEF Kept, Sorted, Got
<1>4. ASSUME NEW j \in 1..Len(got'.headers)
      PROVE  got'.headers[j] \in 1..Len(seen') /\ TakenHeader(seen'[got'.headers[j]])
  <2>1. CASE got'.headers = got.headers
    <3>1. got.headers[j] \in 1..Len(seen) /\ TakenHeader(seen[got.headers[j]])
      BY <2>1 DEF Filed
    <3> QED
      BY <1>2, <2>1, <3>1
  <2>2. CASE TakenHeader(a) /\ got'.headers = Append(got.headers, n)
    <3>1. CASE j \in 1..Len(got.headers)
      <4>1. got'.headers[j] = got.headers[j]
        BY <1>2, <1>3, <2>2, <3>1, AppendProperties
      <4>2. got.headers[j] \in 1..Len(seen) /\ TakenHeader(seen[got.headers[j]])
        BY <3>1 DEF Filed
      <4> QED
        BY <1>2, <4>1, <4>2
    <3>2. CASE j \notin 1..Len(got.headers)
      <4>1. got'.headers[j] = n
        BY <1>2, <1>3, <2>2, <3>2
      <4> QED
        BY <1>2, <2>2, <4>1
    <3> QED
      BY <3>1, <3>2
  <2> QED
    BY <1>1, <2>1, <2>2 DEF Effect, HeaderEffect
<1>5. ASSUME NEW j \in 1..Len(got'.forms)
      PROVE  got'.forms[j] \in 1..Len(seen') /\ TakenForm(seen'[got'.forms[j]])
  <2>1. CASE got'.forms = got.forms
    <3>1. got.forms[j] \in 1..Len(seen) /\ TakenForm(seen[got.forms[j]])
      BY <2>1 DEF Filed
    <3> QED
      BY <1>2, <2>1, <3>1
  <2>2. CASE TakenForm(a) /\ got'.forms = Append(got.forms, n)
    <3>1. CASE j \in 1..Len(got.forms)
      <4>1. got'.forms[j] = got.forms[j]
        BY <1>2, <1>3, <2>2, <3>1, AppendProperties
      <4>2. got.forms[j] \in 1..Len(seen) /\ TakenForm(seen[got.forms[j]])
        BY <3>1 DEF Filed
      <4> QED
        BY <1>2, <4>1, <4>2
    <3>2. CASE j \notin 1..Len(got.forms)
      <4>1. got'.forms[j] = n
        BY <1>2, <1>3, <2>2, <3>2
      <4> QED
        BY <1>2, <2>2, <4>1
    <3> QED
      BY <3>1, <3>2
  <2> QED
    BY <1>1, <2>1, <2>2 DEF Effect, FormEffect
<1>6. got'.file # 0 => NamesFile(seen'[got'.file])
  <2>1. CASE got'.file = got.file
    <3> SUFFICES ASSUME got.file # 0
                 PROVE  NamesFile(seen'[got'.file])
      BY <2>1
    <3>1. got.file \in 1..Len(seen) /\ NamesFile(seen[got.file])
      BY <1>3 DEF Filed
    <3> QED
      BY <1>2, <2>1, <3>1
  <2>2. CASE NamesFile(a) /\ got'.file = n
    BY <1>2, <2>2
  <2> QED
    BY <1>1, <2>1, <2>2 DEF Effect, DataEffect
<1> QED
  BY <1>2, <1>4, <1>5, <1>6 DEF Filed

LEMMA FiledStep == Filed /\ Kept /\ [Next]_vars => Filed'
<1> SUFFICES ASSUME Filed, Kept, [Next]_vars
             PROVE  Filed'
  OBVIOUS
<1>1. CASE ReadArgument
  BY <1>1, EffectOf, FiledByReading DEF ReadArgument
<1>2. CASE UNCHANGED <<seen, got>>
  BY <1>2 DEF Filed, TakenHeader, TakenForm, NamesFile
<1>3. CASE Build
  <2>1. /\ seen' = seen /\ got'.headers = got.headers /\ got'.forms = got.forms
        /\ got'.file = 0 \/ got'.file = got.file
    <3>1. got' = Settled /\ seen' = seen /\ got \in Got
      BY <1>3 DEF Build, Kept, Sorted
    <3> QED
      BY <3>1 DEF Settled, Got
  <2> QED
    BY <2>1 DEF Filed
<1> QED
  BY <1>1, <1>2, <1>3 DEF Next, GiveUp, Refuse, WriteAndRead, ToCurl, vars

-----------------------------------------------------------------------------
(* The request that the arguments make.                                      *)
ParsesAs(g) ==
    /\ g.url \in 1..Len(seen) /\ seen[g.url].value # Empty
    /\ seen[g.url].is \in {"url", "positional", "dashes"}
    /\ g.method \in 0..Len(seen)
    /\ g.method # 0 => seen[g.method].is \in {"method", "head"}
    /\ g.proxy \in 0..Len(seen) /\ (g.proxy # 0 => seen[g.proxy].is = "proxy")
    /\ g.file \in 0..Len(seen) /\ (g.file # 0 => NamesFile(seen[g.file]))
    /\ g.headers \in Seq(Nat) /\ g.data \in Seq(Nat) /\ g.forms \in Seq(Nat)
    /\ \A j \in 1..Len(g.headers) :
         g.headers[j] \in 1..Len(seen) /\ TakenHeader(seen[g.headers[j]])
    /\ \A j \in 1..Len(g.data) : g.data[j] \in 1..Len(seen)
    /\ \A j \in 1..Len(g.forms) :
         g.forms[j] \in 1..Len(seen) /\ TakenForm(seen[g.forms[j]])

LEMMA SettledParses ==
    ASSUME Kept, Filed, ValidURL
    PROVE  ParsesAs(Settled)
<1>1. /\ Settled.url = got.url /\ Settled.method = got.method /\ Settled.proxy = got.proxy
      /\ Settled.headers = got.headers /\ Settled.forms = got.forms
      /\ \/ Settled.file = got.file /\ Settled.data = got.data
         \/ Settled.file = 0 /\ Settled.data = <<>>
  BY DEF Settled, Kept, Sorted, Got
<1>2. got.url \in 1..Len(seen) /\ seen[got.url].value # Empty
  BY DEF ValidURL, HasURL, Kept, Sorted
<1>3. /\ got.headers \in Seq(Nat) /\ got.data \in Seq(Nat) /\ got.forms \in Seq(Nat)
  BY DEF Kept, Sorted, Got
<1>4. Settled.data \in Seq(Nat) /\ \A j \in 1..Len(Settled.data) : Settled.data[j] \in 1..Len(seen)
  <2>1. CASE Settled.data = got.data
    BY <1>3, <2>1 DEF Kept, Sorted
  <2>2. CASE Settled.data = <<>>
    BY <2>2
  <2> QED
    BY <1>1, <2>1, <2>2
<1>5. Settled.file \in 0..Len(seen) /\ (Settled.file # 0 => NamesFile(seen[Settled.file]))
  <2>1. 0 \in 0..Len(seen) /\ got.file \in 0..Len(seen)
    BY DEF Kept, Sorted
  <2>2. got.file # 0 => NamesFile(seen[got.file])
    BY DEF Filed
  <2> QED
    BY <1>1, <2>1, <2>2
<1>6. /\ \A j \in 1..Len(Settled.headers) :
            Settled.headers[j] \in 1..Len(seen) /\ TakenHeader(seen[Settled.headers[j]])
      /\ \A j \in 1..Len(Settled.forms) :
            Settled.forms[j] \in 1..Len(seen) /\ TakenForm(seen[Settled.forms[j]])
  BY <1>1 DEF Filed
<1>7. /\ Settled.method \in 0..Len(seen)
      /\ Settled.method # 0 => seen[Settled.method].is \in {"method", "head"}
      /\ Settled.proxy \in 0..Len(seen) /\ (Settled.proxy # 0 => seen[Settled.proxy].is = "proxy")
      /\ Settled.url # 0 => seen[Settled.url].is \in {"url", "positional", "dashes"}
  BY <1>1 DEF Kept, Sorted
<1>8. 0 \notin 1..Len(seen)
  BY DEF Kept, Sorted
<1> QED
  BY <1>1, <1>2, <1>3, <1>4, <1>5, <1>6, <1>7, <1>8 DEF ParsesAs

(* What a block is written from: but for the body, no line of it ends in a   *)
(* carriage return, which the parser would drop.                             *)
NoCR(l) == \A k \in 1..Len(l) : l[k] # "CR"

Writable(r) ==
    /\ r \in Request
    /\ Len(r.method) = 1 /\ r.method[1] \notin {"#", "###", "# @proxy"}
    /\ NoCR(r.method) /\ NoCR(r.url) /\ NoCR(r.proxy)
    /\ \A k \in 1..Len(r.headers) : NoCR(r.headers[k])

LEMMA ValueLines ==
    ASSUME NEW a \in Args
    PROVE  /\ a.value \in Seq(Seq(Pieces)) /\ a.value # <<>> /\ Len(a.value) > 0
           /\ a.value[1] \in Seq(Pieces)
<1>1. a.value \in Seq(Seq(Pieces)) /\ a.value # <<>>
  BY ArgsAssumption DEF Arg, Text
<1>2. Len(a.value) > 0
  BY <1>1, EmptySeq
<1> QED
  BY <1>1, <1>2

LEMMA SingleLine ==
    ASSUME NEW a \in Args, ~HasLineEnd(a.value)
    PROVE  a.value = <<a.value[1]>> /\ Len(a.value) = 1 /\ (a.value # Empty => a.value[1] # <<>>)
<1>0. PICK v \in Seq(Seq(Pieces)) : v = a.value
  BY ValueLines
<1>1. v = a.value /\ Len(v) = 1
  <2>1. PICK n \in Nat : n = Len(v)
    OBVIOUS
  <2>2. n > 0
    BY <1>0, <2>1, ValueLines
  <2>3. ~(n > 1)
    BY <1>0, <2>1 DEF HasLineEnd
  <2>4. n = 1
    BY <2>2, <2>3
  <2> QED
    BY <1>0, <2>1, <2>4
<1>2. v = <<v[1]>>
  BY <1>1
<1> QED
  BY <1>1, <1>2 DEF Empty

LEMMA NoCROne ==
    ASSUME NEW p, p # "CR"
    PROVE  NoCR(<<p>>)
  BY DEF NoCR

LEMMA NoCRJoined ==
    ASSUME NEW u \in Seq(Pieces), NEW v \in Seq(Pieces), NoCR(u), NoCR(v)
    PROVE  NoCR(u \o v)
<1>1. ASSUME NEW k \in 1..Len(u \o v)
      PROVE  (u \o v)[k] # "CR"
  <2>1. CASE k <= Len(u)
    BY <2>1 DEF NoCR
  <2>2. CASE ~(k <= Len(u))
    <3>1. k - Len(u) \in 1..Len(v) /\ (u \o v)[k] = v[k - Len(u)]
      BY <2>2
    <3> QED
      BY <3>1 DEF NoCR
  <2> QED
    BY <2>1, <2>2
<1> QED
  BY <1>1 DEF NoCR

(* A value without carriage returns has none in its first line.              *)
LEMMA NoCRInValue ==
    ASSUME NEW a \in Args, ~HasCR(a.value)
    PROVE  NoCR(a.value[1])
<1>1. Len(a.value) > 0 /\ Len(a.value) \in Nat
  BY ValueLines
<1>2. ~Contains(a.value[1], "CR")
  BY <1>1 DEF HasCR, Mentions
<1> QED
  BY <1>2 DEF Contains, NoCR

(* What is left of a line without the carriage returns at its end.           *)
LEMMA TrimEndIs ==
    ASSUME NEW l \in Seq(Pieces)
    PROVE  /\ TrimEnd(l) \in Seq(Pieces)
           /\ l # <<>> /\ l[1] # "CR" => TrimEnd(l) # <<>> /\ TrimEnd(l)[1] = l[1]
           /\ NoCR(l) => TrimEnd(l) = l
<1>1. PICK n \in Nat : n = Len(l)
  OBVIOUS
<1>2. PICK S : S = {k \in 1..n : l[k] # "CR"}
  OBVIOUS
<1>3. TrimEnd(l) = SubSeq(l, 1, IF S # {} THEN Max(S) ELSE 0)
  BY <1>1, <1>2 DEF TrimEnd, SelectLastInSeq
<1>4. CASE S = {}
  <2>1. TrimEnd(l) = <<>>
    BY <1>3, <1>4, SubSeqEmpty
  <2>2. <<>> \in Seq(Pieces)
    BY NoLine
  <2>3. l # <<>> => l[1] = "CR" /\ 1 \in 1..n
    <3>1. l # <<>> => n > 0
      BY <1>1, EmptySeq
    <3> QED
      BY <1>2, <1>4, <3>1
  <2> QED
    BY <1>1, <2>1, <2>2, <2>3 DEF NoCR
<1>5. CASE S # {}
  <2>1. PICK m \in S : \A k \in S : k <= m
    BY <1>2, <1>5, GreatestNumber
  <2>2. Max(S) = m /\ m \in 1..n
    <3>1. S \subseteq Nat /\ m \in 1..n
      BY <1>1, <1>2, <2>1
    <3> QED
      BY <2>1, <3>1, MaxIs
  <2>3. TrimEnd(l) = SubSeq(l, 1, m)
    BY <1>3, <1>5, <2>2
  <2>4. /\ SubSeq(l, 1, m) \in Seq(Pieces) /\ Len(SubSeq(l, 1, m)) = m
        /\ SubSeq(l, 1, m)[1] = l[1] /\ SubSeq(l, 1, m) # <<>>
    BY <1>1, <2>2
  <2>5. NoCR(l) => m = n
    <3>1. NoCR(l) => n \in S
      BY <1>1, <1>2, <2>2 DEF NoCR
    <3> QED
      BY <2>1, <2>2, <3>1
  <2>6. SubSeq(l, 1, n) = l
    BY <1>1, SubSeqFull
  <2> QED
    BY <2>3, <2>4, <2>5, <2>6
<1> QED
  BY <1>4, <1>5

LEMMA UpperIs ==
    ASSUME NEW l \in Seq(Pieces), Len(l) = 1
    PROVE  /\ Upper(l) \in Seq(Pieces) /\ Len(Upper(l)) = 1
           /\ Upper(l)[1] \in {l[1], "PUT"}
<1>1. PICK p : p = IF l[1] = "put" THEN "PUT" ELSE l[1]
  OBVIOUS
<1>2. p \in Pieces
  <2>1. l[1] \in Pieces
    OBVIOUS
  <2>2. "PUT" \in Pieces
    BY PiecesAssumption
  <2> QED
    BY <1>1, <2>1, <2>2
<1>3. Upper(l) = [k \in 1..1 |-> p]
  BY <1>1 DEF Upper
<1> QED
  BY <1>1, <1>2, <1>3

LEMMA MethodWritable ==
    ASSUME Filed, NEW g, ParsesAs(g)
    PROVE  /\ MethodOf(g) \in SomeLine /\ Len(MethodOf(g)) = 1
           /\ MethodOf(g)[1] \notin {"#", "###", "# @proxy"} /\ NoCR(MethodOf(g))
<1>1. \A p \in {"HEAD", "POST", "GET"} : /\ <<p>> \in SomeLine /\ Len(<<p>>) = 1
                                         /\ <<p>>[1] \notin {"#", "###", "# @proxy"}
                                         /\ NoCR(<<p>>)
  <2>1. ASSUME NEW p \in {"HEAD", "POST", "GET"}
        PROVE  p \in Pieces /\ p \notin {"#", "###", "# @proxy"} /\ NoCR(<<p>>)
    BY PiecesAssumption, NoCROne
  <2> QED
    BY <2>1, OneLine DEF SomeLine
<1>2. CASE /\ Explicit(g.method) /\ seen[g.method].is # "head"
  <2>1. PICK a \in Args : a = seen[g.method] /\ a.is = "method" /\ a.value # Empty
    BY <1>2 DEF Filed, ParsesAs, Explicit
  <2>2. /\ a.value[1] \in Seq(Pieces) /\ Len(a.value[1]) = 1
        /\ a.value[1][1] \notin {"#", "###", "# @proxy"}
    BY <2>1, MethodsAssumption, ValueLines
  <2>3. PICK l \in Seq(Pieces) :
           l = Upper(a.value[1]) /\ Len(l) = 1 /\ l[1] \in {a.value[1][1], "PUT"}
    BY <2>2, UpperIs
  <2>4. l # <<>> /\ l \in SomeLine
    BY <2>3 DEF SomeLine
  <2>5. MethodOf(g) = l
    BY <1>2, <2>1, <2>3 DEF MethodOf
  <2>6. l[1] # "CR"
    <3>1. ~HasCR(a.value)
      BY <2>1, LinesAssumption
    <3>2. NoCR(a.value[1])
      BY <3>1, NoCRInValue
    <3>3. PICK v \in Seq(Pieces) : v = a.value[1] /\ Len(v) = 1 /\ NoCR(v)
      BY <2>2, <3>2
    <3>4. v[1] # "CR"
      BY <3>3 DEF NoCR
    <3>5. a.value[1][1] # "CR"
      BY <3>3, <3>4
    <3> QED
      BY <2>3, <3>5
  <2>7. NoCR(l)
    BY <2>3, <2>6 DEF NoCR
  <2> QED
    BY <2>2, <2>3, <2>4, <2>5, <2>7
<1>3. CASE ~(Explicit(g.method) /\ seen[g.method].is # "head")
  <2>1. MethodOf(g) \in {<<"HEAD">>, <<"POST">>, <<"GET">>}
    BY <1>3 DEF MethodOf
  <2> QED
    BY <1>1, <2>1
<1> QED
  BY <1>2, <1>3

LEMMA HeaderLineType ==
    ASSUME NEW a \in Args, TakenHeader(a)
    PROVE  HeaderLine(a) \in SomeLine /\ NoCR(HeaderLine(a))
<1>1. a.value[1] \in Seq(Pieces)
  BY ValueLines
<1>2. CASE a.is = "header"
  <2>1. a.value[1] # <<>> /\ a.value[1][1] # "CR"
    BY <1>2, HeadersAssumption DEF TakenHeader
  <2>2. TrimEnd(a.value[1]) \in SomeLine
    BY <1>1, <2>1, TrimEndIs DEF SomeLine
  <2>3. NoCR(TrimEnd(a.value[1]))
    BY <1>2 DEF TakenHeader, OneLineOnly, NoCR, Contains
  <2> QED
    BY <1>2, <2>2, <2>3 DEF HeaderLine
<1>3. CASE a.is = "agent"
  <2>1. "User-Agent" \in Pieces
    BY PiecesAssumption
  <2>2. <<"User-Agent">> \in Seq(Pieces) /\ <<"User-Agent">> # <<>> /\ NoCR(<<"User-Agent">>)
    BY <2>1, OneLine, NoCROne
  <2>3. <<"User-Agent">> \o a.value[1] \in SomeLine
    BY <1>1, <2>2, LinesJoined DEF SomeLine
  <2>4. NoCR(a.value[1])
    BY <1>3, NoCRInValue DEF TakenHeader
  <2>5. NoCR(<<"User-Agent">> \o a.value[1])
    BY <1>1, <2>2, <2>4, NoCRJoined
  <2> QED
    BY <1>3, <2>3, <2>5 DEF HeaderLine
<1>4. CASE a.is = "user"
  <2>1. "Authorization" \in Pieces /\ "encoded" \in Pieces
    BY PiecesAssumption
  <2>2. <<"Authorization", "encoded">> \in SomeLine
    BY <2>1 DEF SomeLine
  <2>3. NoCR(<<"Authorization", "encoded">>)
    BY DEF NoCR
  <2> QED
    BY <1>4, <2>2, <2>3 DEF HeaderLine
<1> QED
  BY <1>2, <1>3, <1>4 DEF TakenHeader, HeaderKinds

LEMMA FormTypeLine == FormType \in SomeLine /\ <<FormType>> \in Seq(SomeLine)
<1>1. "Content-Type" \in Pieces /\ "multipart" \in Pieces /\ "boundary" \in Pieces
  BY PiecesAssumption
<1>2. FormType \in SomeLine
  BY <1>1 DEF FormType, SomeLine
<1> QED
  BY <1>2, OneLine

LEMMA HeadersType ==
    ASSUME Filed, NEW g, ParsesAs(g)
    PROVE  /\ HeadersOf(g) \in Seq(SomeLine)
           /\ \A k \in 1..Len(HeadersOf(g)) : NoCR(HeadersOf(g)[k])
<1> DEFINE lines == [j \in 1..Len(g.headers) |-> HeaderLine(seen[g.headers[j]])]
<1>1. ASSUME NEW j \in 1..Len(g.headers)
      PROVE  HeaderLine(seen[g.headers[j]]) \in SomeLine /\ NoCR(HeaderLine(seen[g.headers[j]]))
  <2>1. seen[g.headers[j]] \in Args /\ TakenHeader(seen[g.headers[j]])
    BY DEF Filed, ParsesAs
  <2> QED
    BY <2>1, HeaderLineType
<1>2. Len(g.headers) \in Nat
  BY DEF ParsesAs
<1>3. lines \in Seq(SomeLine) /\ \A k \in 1..Len(lines) : NoCR(lines[k])
  BY <1>1, <1>2
<1>4. PICK more \in Seq(SomeLine) : /\ more = IF g.forms # <<>> THEN Line(FormType) ELSE <<>>
                                   /\ \A k \in 1..Len(more) : NoCR(more[k])
  <2>1. Line(FormType) \in Seq(SomeLine) /\ <<>> \in Seq(SomeLine)
    BY FormTypeLine, NoLine DEF Line
  <2>2. PICK t : t = FormType
    OBVIOUS
  <2>3. NoCR(t)
    BY <2>2 DEF FormType, NoCR
  <2>4. Line(FormType) = <<t>> /\ \A k \in 1..Len(<<t>>) : <<t>>[k] = t
    BY <2>2 DEF Line
  <2>5. \A k \in 1..Len(<<>>) : NoCR(<<>>[k])
    OBVIOUS
  <2> QED
    BY <2>1, <2>3, <2>4, <2>5
<1>5. HeadersOf(g) = lines \o more
  BY <1>4 DEF HeadersOf
<1> HIDE DEF lines
<1>6. HeadersOf(g) \in Seq(SomeLine)
  BY <1>3, <1>5, LinesJoined
<1>7. ASSUME NEW k \in 1..Len(lines \o more)
      PROVE  NoCR((lines \o more)[k])
  <2>1. CASE k <= Len(lines)
    BY <1>3, <2>1
  <2>2. CASE ~(k <= Len(lines))
    <3>1. k - Len(lines) \in 1..Len(more) /\ (lines \o more)[k] = more[k - Len(lines)]
      BY <1>3, <1>4, <2>2
    <3> QED
      BY <1>4, <3>1
  <2> QED
    BY <2>1, <2>2
<1> QED
  BY <1>5, <1>6, <1>7

-----------------------------------------------------------------------------
LEMMA DelimiterLines ==
    /\ Delimiter \in Seq(Pieces) /\ CloseDelimiter \in Seq(Pieces)
    /\ Delimiter # <<>> /\ CloseDelimiter # <<>>
<1>1. "--boundary" \in Pieces /\ "--boundary--" \in Pieces
  BY PiecesAssumption
<1> QED
  BY <1>1, OneLine DEF Delimiter, CloseDelimiter

LEMMA EmptyText == Empty \in Seq(Seq(Pieces)) /\ Empty # <<>> /\ Empty \in Text
<1>1. <<>> \in Seq(Pieces)
  BY NoLine
<1> QED
  BY <1>1, OneLine DEF Empty, Text

(* A reference to a file: "<" and its path.                                  *)
LEMMA ReferenceLine ==
    ASSUME NEW l \in Seq(Pieces), Len(l) > 0, NEW p \in Pieces
    PROVE  <<p>> \o Tail(l) \in Seq(Pieces)
<1>1. <<p>> \in Seq(Pieces) /\ Tail(l) \in Seq(Pieces)
  BY OneLine, FirstOf
<1> QED
  BY <1>1, LinesJoined

LEMMA PartType ==
    ASSUME NEW a \in Args
    PROVE  Part(a) \in Seq(Seq(Pieces))
<1>1. <<Delimiter>> \in Seq(Seq(Pieces))
  BY DelimiterLines, OneLine
<1>2. PICK disposition \in Seq(Seq(Pieces)) :
        disposition = Line(IF IsUpload(a) THEN <<"Content-Disposition", Filename(a)>>
                           ELSE <<"Content-Disposition">>)
  <2>1. "Content-Disposition" \in Pieces
    BY PiecesAssumption
  <2>2. Filename(a) \in Pieces
    BY ArgsAssumption, PiecesAssumption DEF Filename, Arg
  <2>3. <<"Content-Disposition", Filename(a)>> \in Seq(Pieces)
    BY <2>1, <2>2
  <2>4. <<"Content-Disposition">> \in Seq(Pieces)
    BY <2>1, OneLine
  <2>5. PICK l \in Seq(Pieces) : l = IF IsUpload(a) THEN <<"Content-Disposition", Filename(a)>>
                                     ELSE <<"Content-Disposition">>
    BY <2>3, <2>4
  <2> QED
    BY <2>5, OneLine DEF Line
<1>3. PICK type \in Seq(Seq(Pieces)) :
        type = IF a.type THEN Line(<<"Content-Type", "part">>) ELSE <<>>
  <2>1. "Content-Type" \in Pieces /\ "part" \in Pieces
    BY PiecesAssumption
  <2>2. <<"Content-Type", "part">> \in Seq(Pieces)
    BY <2>1
  <2>3. Line(<<"Content-Type", "part">>) \in Seq(Seq(Pieces)) /\ <<>> \in Seq(Seq(Pieces))
    BY <2>2, OneLine, NoLine DEF Line
  <2> QED
    BY <2>3
<1>4. PICK content \in Seq(Seq(Pieces)) :
        content = IF IsUpload(a) THEN Line(<<"<">> \o Tail(a.value[1]))
                  ELSE BeforeSemicolon(a.value)
  <2>1. CASE IsUpload(a)
    <3>1. a.value[1] \in Seq(Pieces) /\ Len(a.value[1]) > 0 /\ "<" \in Pieces
      BY <2>1, ValueLines, PiecesAssumption DEF IsUpload, Starts, Begins
    <3>2. Line(<<"<">> \o Tail(a.value[1])) \in Seq(Seq(Pieces))
      BY <3>1, ReferenceLine, OneLine DEF Line
    <3> QED
      BY <2>1, <3>2
  <2>2. CASE ~IsUpload(a)
    <3>1. a.value \in Text
      BY ValueLines DEF Text
    <3>2. BeforeSemicolon(a.value) \in Seq(Seq(Pieces))
      BY <3>1, BeforeSemicolonType DEF Text
    <3> QED
      BY <2>2, <3>2
  <2> QED
    BY <2>1, <2>2
<1>5. Part(a) = (((<<Delimiter>> \o disposition) \o type) \o Empty) \o content
  BY <1>2, <1>3, <1>4 DEF Part
<1>6. <<Delimiter>> \o disposition \in Seq(Seq(Pieces))
  BY <1>1, LinesJoined
<1>7. (<<Delimiter>> \o disposition) \o type \in Seq(Seq(Pieces))
  BY <1>6, LinesJoined
<1>8. ((<<Delimiter>> \o disposition) \o type) \o Empty \in Seq(Seq(Pieces))
  BY <1>7, EmptyText, LinesJoined
<1> QED
  BY <1>5, <1>8, LinesJoined

LEMMA MultipartType ==
    ASSUME NEW parts, Len(parts) \in Nat, \A k \in 1..Len(parts) : parts[k] \in Args
    PROVE  Multipart(parts) \in Text
<1> DEFINE pieces == [k \in 1..Len(parts) |-> Part(parts[k])]
<1>1. pieces \in Seq(Seq(Seq(Pieces)))
  BY PartType
<1>2. PICK u \in Seq(Seq(Pieces)) : u = FlattenSeq(pieces)
  <2> HIDE DEF pieces
  <2> QED
    BY <1>1, FlatText
<1>3. Append(u, CloseDelimiter) \in Seq(Seq(Pieces)) /\ Append(u, CloseDelimiter) # <<>>
  BY DelimiterLines, AppendProperties
<1> QED
  BY <1>2, <1>3 DEF Multipart, Text

LEMMA BodyType ==
    ASSUME Filed, NEW g, ParsesAs(g)
    PROVE  BodyOf(g) \in Text
<1>1. CASE g.forms # <<>>
  <2>1. PICK parts : parts = At(g.forms)
    OBVIOUS
  <2>2. Len(parts) = Len(g.forms) /\ Len(g.forms) \in Nat
    BY <2>1 DEF At, ParsesAs
  <2>3. ASSUME NEW k \in 1..Len(parts)
        PROVE  parts[k] \in Args
    BY <2>1, <2>2 DEF At, ParsesAs, Filed
  <2>4. Multipart(At(g.forms)) \in Text
    BY <2>1, <2>2, <2>3, MultipartType
  <2> QED
    BY <1>1, <2>4 DEF BodyOf
<1>2. CASE g.forms = <<>> /\ g.file # 0
  <2>1. PICK a \in Args : a = seen[g.file] /\ Starts(a.value, "@")
    BY <1>2 DEF ParsesAs, Filed, NamesFile
  <2>2. a.value[1] \in Seq(Pieces) /\ Len(a.value[1]) > 0 /\ "<" \in Pieces
    BY <2>1, ValueLines, PiecesAssumption DEF Starts, Begins
  <2>3. Line(<<"<">> \o Tail(a.value[1])) \in Text
    BY <2>2, ReferenceLine, OneLine DEF Line, Text
  <2> QED
    BY <1>2, <2>1, <2>3 DEF BodyOf
<1>3. CASE g.forms = <<>> /\ g.file = 0 /\ g.data # <<>>
  <2> DEFINE values == [j \in 1..Len(g.data) |-> DataValue(seen[g.data[j]])]
  <2>1. Len(g.data) \in Nat /\ Len(g.data) > 0
    BY <1>3 DEF ParsesAs
  <2>2. ASSUME NEW j \in 1..Len(g.data)
        PROVE  values[j] \in Seq(Seq(Pieces)) /\ values[j] # <<>>
    <3>1. PICK a \in Args : a = seen[g.data[j]]
      BY DEF ParsesAs, Filed
    <3>2. <<"encoded">> \in Seq(Pieces)
      BY PiecesAssumption, OneLine
    <3>3. <<<<"encoded">>>> \in Seq(Seq(Pieces)) /\ <<<<"encoded">>>> # <<>>
      BY <3>2, OneLine
    <3> QED
      BY <3>1, <3>3, ValueLines DEF DataValue
  <2>3. Len(values) = Len(g.data)
    BY <2>1
  <2>4. Join(values) \in Seq(Seq(Pieces)) /\ Join(values) # <<>>
    <3> HIDE DEF values
    <3> QED
      BY <2>1, <2>2, <2>3, JoinLines, AllLinesClosed
  <2> QED
    BY <1>3, <2>4 DEF BodyOf, Text
<1>4. CASE g.forms = <<>> /\ g.file = 0 /\ g.data = <<>>
  BY <1>4, EmptyText DEF BodyOf
<1> QED
  BY <1>1, <1>2, <1>3, <1>4

LEMMA RequestWritable ==
    ASSUME Filed, NEW g, ParsesAs(g)
    PROVE  Writable(RequestOf(g))
<1>1. PICK u \in Args : u = seen[g.url] /\ u.value # Empty
  BY DEF ParsesAs, Filed
<1>2. ~HasLineEnd(u.value)
  <2>1. CASE u.is = "dashes"
    <3>1. u.value = <<<<"schemeless">>>>
      BY <2>1, DashesAssumption
    <3>2. Len(<<<<"schemeless">>>>) = 1
      OBVIOUS
    <3> QED
      BY <3>1, <3>2 DEF HasLineEnd
  <2>2. CASE u.is \in {"url", "positional"}
    BY <2>2, LinesAssumption
  <2> QED
    BY <1>1, <2>1, <2>2 DEF ParsesAs
<1>3. u.value[1] \in SomeLine /\ NoCR(u.value[1])
  <2>1. CASE u.is = "dashes"
    <3>1. PICK l : l = <<"schemeless">>
      OBVIOUS
    <3>2. u.value = <<l>> /\ <<l>>[1] = l
      BY <2>1, <3>1, DashesAssumption
    <3> QED
      BY <1>1, <1>2, <3>1, <3>2, NoCROne, SingleLine, ValueLines DEF SomeLine
  <2>2. CASE u.is \in {"url", "positional"}
    <3>1. ~HasCR(u.value)
      BY <2>2, LinesAssumption
    <3> QED
      BY <1>1, <1>2, <3>1, NoCRInValue, SingleLine, ValueLines DEF SomeLine
  <2> QED
    BY <1>1, <2>1, <2>2 DEF ParsesAs
<1>4. PICK proxy \in Seq(Pieces) : /\ proxy = IF g.proxy = 0 THEN <<>> ELSE seen[g.proxy].value[1]
                                  /\ NoCR(proxy)
  <2>1. CASE g.proxy = 0
    <3>1. NoCR(<<>>)
      BY DEF NoCR
    <3> QED
      BY <2>1, <3>1, NoLine
  <2>2. CASE g.proxy # 0
    <3>1. seen[g.proxy] \in Args /\ seen[g.proxy].is = "proxy"
      BY <2>2 DEF ParsesAs, Filed
    <3>2. ~HasCR(seen[g.proxy].value)
      BY <3>1, LinesAssumption
    <3> QED
      BY <2>2, <3>1, <3>2, ValueLines, NoCRInValue
  <2> QED
    BY <2>1, <2>2
<1>5. RequestOf(g) \in Request
  BY <1>1, <1>3, <1>4, MethodWritable, HeadersType, BodyType DEF RequestOf, Request
<1>6. /\ RequestOf(g).method = MethodOf(g) /\ RequestOf(g).url = u.value[1]
      /\ RequestOf(g).proxy = proxy /\ RequestOf(g).headers = HeadersOf(g)
  BY <1>1, <1>4 DEF RequestOf
<1> QED
  BY <1>3, <1>4, <1>5, <1>6, MethodWritable, HeadersType DEF Writable

-----------------------------------------------------------------------------
(* The file that is written for a request, and read back.                   *)
LEMMA TailOf ==
    ASSUME NEW X, NEW x \in X, NEW w \in Seq(X)
    PROVE  Tail(<<x>> \o w) = w /\ (<<x>> \o w)[1] = x
<1>1. <<x>> \in Seq(X)
  BY OneLine
<1>2. PICK s \in Seq(X) : s = <<x>> \o w
  BY <1>1, LinesJoined
<1>3. Len(s) = Len(w) + 1 /\ Len(w) \in Nat /\ s[1] = x /\ \A k \in 1..Len(w) : s[k + 1] = w[k]
  BY <1>1, <1>2
<1>4. Tail(s) \in Seq(X) /\ Len(Tail(s)) = Len(w) /\ \A k \in 1..Len(w) : Tail(s)[k] = w[k]
  BY <1>3
<1>5. Tail(s) = w
  BY <1>4, SeqEqual
<1> QED
  BY <1>2, <1>3, <1>5

LEMMA PrefixOf ==
    ASSUME NEW X, NEW u \in Seq(X), NEW v \in Seq(X), NEW m \in 0..Len(u \o v), Len(u) <= m
    PROVE  /\ SubSeq(u \o v, 1, m) = u \o SubSeq(v, 1, m - Len(u))
           /\ SubSeq(v, 1, m - Len(u)) \in Seq(X)
<1>1. PICK s \in Seq(X) : s = u \o v
  BY LinesJoined
<1>2. /\ Len(s) = Len(u) + Len(v) /\ Len(u) \in Nat /\ Len(v) \in Nat
      /\ \A k \in 1..Len(u) : s[k] = u[k]
      /\ \A k \in 1..Len(v) : s[Len(u) + k] = v[k]
  BY <1>1
<1>3. PICK n \in 0..Len(v) : n = m - Len(u)
  BY <1>1, <1>2
<1>4. SubSeq(v, 1, n) \in Seq(X) /\ Len(SubSeq(v, 1, n)) = n
  BY <1>2
<1>5. PICK w \in Seq(X) : w = SubSeq(v, 1, n)
  BY <1>4
<1>a. Len(w) = n /\ \A k \in 1..n : w[k] = v[k]
  BY <1>2, <1>4, <1>5
<1>b. SubSeq(s, 1, m) \in Seq(X) /\ Len(SubSeq(s, 1, m)) = m
  BY <1>1, <1>2
<1>6. PICK t \in Seq(X) : t = SubSeq(s, 1, m)
  BY <1>b
<1>c. Len(t) = m /\ \A k \in 1..m : t[k] = s[k]
  BY <1>1, <1>2, <1>b, <1>6
<1>d. u \o w \in Seq(X) /\ Len(u \o w) = Len(u) + Len(w)
  BY LinesJoined
<1>e. Len(u) + Len(w) = m
  BY <1>2, <1>3, <1>a
<1>f. /\ \A k \in 1..Len(u) : (u \o w)[k] = u[k]
      /\ \A k \in 1..Len(w) : (u \o w)[Len(u) + k] = w[k]
  OBVIOUS
<1>7. /\ u \o w \in Seq(X) /\ Len(u \o w) = m
      /\ \A k \in 1..Len(u) : (u \o w)[k] = u[k]
      /\ \A k \in 1..n : (u \o w)[Len(u) + k] = w[k]
  BY <1>a, <1>d, <1>e, <1>f
<1>8. ASSUME NEW k \in 1..m
      PROVE  t[k] = (u \o w)[k]
  <2>1. CASE k <= Len(u)
    <3>1. k \in 1..Len(u)
      BY <1>2, <2>1
    <3> QED
      BY <1>2, <1>6, <1>c, <1>7, <3>1
  <2>2. CASE ~(k <= Len(u))
    <3>1. PICK i \in 1..n : k = Len(u) + i
      <4>1. k - Len(u) \in 1..n /\ k = Len(u) + (k - Len(u))
        BY <1>2, <1>3, <2>2
      <4> QED
        BY <4>1
    <3>2. i \in 1..Len(v)
      BY <1>2, <1>3
    <3> QED
      BY <1>2, <1>5, <1>a, <1>6, <1>c, <1>7, <3>1, <3>2
  <2> QED
    BY <2>1, <2>2
<1>9. t = u \o w
  BY <1>6, <1>c, <1>7, <1>8, SeqEqual
<1> QED
  BY <1>1, <1>3, <1>5, <1>6, <1>9

(* A line before a text, none of them blank.                                 *)
LEMMA PastLine ==
    ASSUME NEW X, NEW l \in X, l # <<>>, NEW w \in Seq(X)
    PROVE  Past(<<l>> \o w, Blank) = Past(w, Blank)
<1>1. <<l>> \in Seq(X)
  BY OneLine
<1>2. PICK s \in Seq(X) : s = <<l>> \o w
  BY <1>1, LinesJoined
<1>3. Len(s) = Len(w) + 1 /\ Len(w) \in Nat /\ s[1] = l /\ \A k \in 1..Len(w) : s[k + 1] = w[k]
  BY <1>1, <1>2
<1>4. CASE \A k \in 1..Len(w) : w[k] # <<>>
  <2>1. ASSUME NEW k \in 1..Len(s)
        PROVE  s[k] # <<>>
    <3>1. CASE k = 1
      BY <1>3, <3>1
    <3>2. CASE k # 1
      <4>1. k - 1 \in 1..Len(w) /\ (k - 1) + 1 = k
        BY <1>3, <3>2
      <4> QED
        BY <1>3, <1>4, <4>1
    <3> QED
      BY <3>1, <3>2
  <2> QED
    BY <1>2, <1>4, <2>1, NoBlank
<1>5. ASSUME NEW n \in 1..Len(w), w[n] = <<>>, \A k \in 1..(n - 1) : w[k] # <<>>
      PROVE  Past(s, Blank) = Past(w, Blank)
  <2>1. n + 1 \in 1..Len(s) /\ s[n + 1] = <<>> /\ (n + 1) + 1 = n + 2 /\ (n + 1) - 1 = n
    BY <1>3, <1>5
  <2>2. ASSUME NEW k \in 1..n
        PROVE  s[k] # <<>>
    <3>1. CASE k = 1
      BY <1>3, <3>1
    <3>2. CASE k # 1
      <4>1. k - 1 \in 1..(n - 1) /\ k - 1 \in 1..Len(w) /\ (k - 1) + 1 = k
        BY <1>3, <3>2
      <4> QED
        BY <1>3, <1>5, <4>1
    <3> QED
      BY <3>1, <3>2
  <2>3. Past(s, Blank) = SubSeq(s, n + 2, Len(s))
    BY <2>1, <2>2, CutAtBlank
  <2>4. Past(w, Blank) = SubSeq(w, n + 1, Len(w))
    BY <1>5, CutAtBlank
  <2>5. /\ SubSeq(s, n + 2, Len(s)) \in Seq(X) /\ SubSeq(w, n + 1, Len(w)) \in Seq(X)
        /\ Len(SubSeq(s, n + 2, Len(s))) = Len(w) - n /\ Len(SubSeq(w, n + 1, Len(w))) = Len(w) - n
    BY <1>3
  <2>6. ASSUME NEW k \in 1..(Len(w) - n)
        PROVE  SubSeq(s, n + 2, Len(s))[k] = SubSeq(w, n + 1, Len(w))[k]
    <3>1. SubSeq(s, n + 2, Len(s))[k] = s[(n + k) + 1] /\ SubSeq(w, n + 1, Len(w))[k] = w[n + k]
      BY <1>3
    <3>2. n + k \in 1..Len(w)
      BY <1>3
    <3> QED
      BY <1>3, <3>1, <3>2
  <2> QED
    BY <2>3, <2>4, <2>5, <2>6, SeqEqual
<1> QED
  BY <1>2, <1>4, <1>5, CutSomewhere

(* What is left of a body without the blank lines around it.                 *)
LEMMA TrimIs ==
    ASSUME NEW X, NEW v \in Seq(X)
    PROVE  \/ Trim(v) = <<>> /\ \A k \in 1..Len(v) : v[k] = <<>>
           \/ \E i \in 1..Len(v) : \E j \in i..Len(v) :
                /\ Trim(v) = SubSeq(v, i, j) /\ v[i] # <<>> /\ v[j] # <<>>
                /\ \A k \in 1..Len(v) : v[k] # <<>> => k \in i..j
<1>1. CASE Full(v) = {}
  BY <1>1 DEF Trim, Full
<1>2. CASE Full(v) # {}
  <2>1. Full(v) \subseteq 1..Len(v) /\ Full(v) \subseteq Nat /\ Len(v) \in Nat
    BY DEF Full
  <2>2. PICK i \in Full(v) : \A k \in Full(v) : i <= k
    BY <1>2, <2>1, LeastNumber
  <2>3. PICK j \in Full(v) : \A k \in Full(v) : k <= j
    BY <1>2, <2>1, GreatestNumber
  <2>4. Min(Full(v)) = i /\ Max(Full(v)) = j
    BY <2>1, <2>2, <2>3, MinIs, MaxIs
  <2>5. Trim(v) = SubSeq(v, i, j)
    BY <1>2, <2>4 DEF Trim
  <2>6. i \in 1..Len(v) /\ j \in i..Len(v)
    BY <2>1, <2>2, <2>3
  <2>7. ASSUME NEW k \in 1..Len(v), v[k] # <<>>
        PROVE  k \in i..j
    <3>1. k \in Full(v)
      BY <2>7 DEF Full
    <3> QED
      BY <2>2, <2>3, <2>6, <3>1
  <2>8. v[i] # <<>> /\ v[j] # <<>>
    BY <2>2, <2>3 DEF Full
  <2> QED
    BY <2>5, <2>6, <2>7, <2>8
<1> QED
  BY <1>1, <1>2

LEMMA TrimType ==
    ASSUME NEW X, NEW v \in Seq(X)
    PROVE  /\ Trim(v) \in Seq(X)
           /\ Trim(v) # <<>> => Trim(v)[1] # <<>> /\ Trim(v)[Len(Trim(v))] # <<>>
<1>1. CASE Trim(v) = <<>>
  BY <1>1, NoLine
<1>2. ASSUME NEW i \in 1..Len(v), NEW j \in i..Len(v),
             Trim(v) = SubSeq(v, i, j), v[i] # <<>>, v[j] # <<>>
      PROVE  /\ Trim(v) \in Seq(X) /\ Trim(v)[1] # <<>>
             /\ Trim(v)[Len(Trim(v))] # <<>>
  <2>0. SubSeq(v, i, j) \in Seq(X)
    OBVIOUS
  <2>1. PICK t \in Seq(X) : t = SubSeq(v, i, j)
    BY <2>0
  <2>2. Len(t) = j - i + 1 /\ t[1] = v[i] /\ t[j - i + 1] = v[j]
    BY <2>1
  <2> QED
    BY <1>2, <2>1, <2>2
<1> QED
  BY <1>1, <1>2, TrimIs

LEMMA TrimSame ==
    ASSUME NEW X, NEW v \in Seq(X), v # <<>>, v[1] # <<>>, Last(v) # <<>>
    PROVE  Trim(v) = v
<1>1. 1 \in 1..Len(v) /\ Len(v) \in 1..Len(v) /\ v[Len(v)] # <<>>
  BY EmptySeq DEF Last
<1>2. ASSUME NEW i \in 1..Len(v), NEW j \in i..Len(v),
             \A k \in 1..Len(v) : v[k] # <<>> => k \in i..j
      PROVE  SubSeq(v, i, j) = v
  <2>1. 1 \in i..j /\ Len(v) \in i..j
    BY <1>1, <1>2
  <2>2. i = 1 /\ j = Len(v)
    BY <1>1, <2>1
  <2> QED
    BY <2>2, SubSeqFull
<1> QED
  BY <1>1, <1>2, TrimIs

LEMMA PairOf ==
    ASSUME NEW X, NEW a \in X, NEW b \in X
    PROVE  <<a>> \o <<b>> = <<a, b>> /\ <<a, b>> \in Seq(X)
<1>1. <<a>> \in Seq(X) /\ <<b>> \in Seq(X) /\ <<a, b>> \in Seq(X)
  OBVIOUS
<1>2. PICK s \in Seq(X) : s = <<a>> \o <<b>>
  BY <1>1, LinesJoined
<1>3. Len(s) = 2 /\ s[1] = a /\ s[2] = b
  BY <1>1, <1>2
<1>4. PICK t \in Seq(X) : t = <<a, b>>
  BY <1>1
<1>5. Len(t) = 2 /\ t[1] = a /\ t[2] = b
  BY <1>4
<1>6. \A i \in 1..Len(s) : s[i] = t[i]
  <2>1. 1..Len(s) = {1, 2}
    BY <1>3
  <2> QED
    BY <1>3, <1>5, <2>1
<1>7. s = t
  BY <1>3, <1>5, <1>6, SeqEqual
<1> QED
  BY <1>1, <1>2, <1>4, <1>7

LEMMA Beyond ==
    ASSUME NEW a \in Nat, NEW b \in Nat, NEW m \in 0..(a + b), a <= m, m # a + b
    PROVE  \E i \in 1..b : m + 1 = a + i
<1>1. (m + 1) - a \in 1..b /\ m + 1 = a + ((m + 1) - a)
  OBVIOUS
<1> QED
  BY <1>1

LEMMA RequestLine ==
    ASSUME NEW r, Writable(r), NEW q, q = r.method \o r.url
    PROVE  /\ q \in Seq(Pieces) /\ q # <<>> /\ <<q[1]>> = r.method /\ Tail(q) = r.url
           /\ ~Separates(q) /\ ~Begins(q, "# @proxy") /\ NoCR(q)
<1>1. PICK m \in Seq(Pieces) : m = r.method /\ Len(m) = 1
  BY DEF Writable, Request, SomeLine
<1>2. PICK p \in Pieces : p = m[1]
  BY <1>1
<1>3. m = <<p>>
  BY <1>1, <1>2
<1>4. PICK u \in Seq(Pieces) : u = r.url
  BY DEF Writable, Request, SomeLine
<1>5. Tail(<<p>> \o u) = u /\ (<<p>> \o u)[1] = p
  BY TailOf
<1>6. q = <<p>> \o u
  BY <1>1, <1>3, <1>4
<1>7. q \in Seq(Pieces) /\ q # <<>>
  BY <1>6, OneLine, LinesJoined
<1>8. q[1] \notin {"###", "# @proxy"}
  BY <1>1, <1>2, <1>5, <1>6 DEF Writable
<1>9. NoCR(q)
  BY <1>1, <1>4, NoCRJoined DEF Writable
<1> QED
  BY <1>1, <1>3, <1>4, <1>5, <1>6, <1>7, <1>8, <1>9 DEF Separates, Begins

ProxyLines(r) == IF r.proxy = <<>> THEN <<>> ELSE <<<<"# @proxy">> \o r.proxy>>
BodyLines(r) == IF r.body = Empty THEN <<>> ELSE Empty \o r.body
After(r) == r.headers \o BodyLines(r)
Before(r) == (<<<<"# @name">>>> \o ProxyLines(r)) \o <<r.method \o r.url>>

LEMMA LineTypes ==
    ASSUME NEW r, Writable(r)
    PROVE  /\ <<"###">> \in Seq(Pieces) /\ <<"# @name">> \in Seq(Pieces)
           /\ <<"# @proxy">> \o r.proxy \in Seq(Pieces)
           /\ ProxyLines(r) \in Seq(Seq(Pieces)) /\ BodyLines(r) \in Seq(Seq(Pieces))
           /\ r.headers \in Seq(Seq(Pieces)) /\ After(r) \in Seq(Seq(Pieces))
           /\ Before(r) \in Seq(Seq(Pieces))
<1>1. <<"###">> \in Seq(Pieces) /\ <<"# @name">> \in Seq(Pieces) /\ <<"# @proxy">> \in Seq(Pieces)
  <2>1. "###" \in Pieces /\ "# @name" \in Pieces /\ "# @proxy" \in Pieces
    BY PiecesAssumption
  <2> QED
    BY <2>1, OneLine
<1>2. /\ r.proxy \in Seq(Pieces) /\ r.headers \in Seq(SomeLine)
      /\ r.body \in Seq(Seq(Pieces))
  BY DEF Writable, Request, Text
<1>3. r.headers \in Seq(Seq(Pieces))
  <2>1. SomeLine \subseteq Seq(Pieces)
    BY DEF SomeLine
  <2> QED
    BY <1>2, <2>1, SeqMonotonic
<1>4. <<"# @proxy">> \o r.proxy \in Seq(Pieces)
  BY <1>1, <1>2, LinesJoined
<1>5. ProxyLines(r) \in Seq(Seq(Pieces))
  <2>1. <<<<"# @proxy">> \o r.proxy>> \in Seq(Seq(Pieces)) /\ <<>> \in Seq(Seq(Pieces))
    BY <1>4, OneLine, NoLine
  <2> QED
    BY <2>1 DEF ProxyLines
<1>6. BodyLines(r) \in Seq(Seq(Pieces))
  <2>1. Empty \o r.body \in Seq(Seq(Pieces)) /\ <<>> \in Seq(Seq(Pieces))
    BY <1>2, EmptyText, NoLine, LinesJoined
  <2> QED
    BY <2>1 DEF BodyLines
<1>7. After(r) \in Seq(Seq(Pieces))
  BY <1>3, <1>6, LinesJoined DEF After
<1>8. Before(r) \in Seq(Seq(Pieces))
  <2>1. r.method \o r.url \in Seq(Pieces)
    BY RequestLine
  <2>2. <<<<"# @name">>>> \in Seq(Seq(Pieces)) /\ <<r.method \o r.url>> \in Seq(Seq(Pieces))
    BY <1>1, <2>1, OneLine
  <2>3. <<<<"# @name">>>> \o ProxyLines(r) \in Seq(Seq(Pieces))
    BY <1>5, <2>2, LinesJoined
  <2> QED
    BY <2>2, <2>3, LinesJoined DEF Before
<1> QED
  BY <1>1, <1>3, <1>4, <1>5, <1>6, <1>7, <1>8

LEMMA FormatLines ==
    ASSUME NEW r, Writable(r)
    PROVE  Format(r) = <<<<"###">>>> \o (Before(r) \o After(r))
<1>1. PICK L : L = Seq(Pieces)
  OBVIOUS
<1>2. PICK s \in Seq(L) : s = <<<<"###">>>>
  BY <1>1, LineTypes, OneLine
<1>3. PICK n \in Seq(L) : n = <<<<"# @name">>>>
  BY <1>1, LineTypes, OneLine
<1>4. PICK p \in Seq(L) : p = ProxyLines(r)
  BY <1>1, LineTypes
<1>5. PICK q \in Seq(L) : q = <<r.method \o r.url>>
  BY <1>1, RequestLine, OneLine
<1>6. PICK h \in Seq(L) : h = r.headers
  BY <1>1, LineTypes
<1>7. PICK b \in Seq(L) : b = BodyLines(r)
  BY <1>1, LineTypes
<1>8. <<<<"###">>, <<"# @name">>>> = s \o n
  <2>1. PICK x \in L : x = <<"###">>
    BY <1>1, LineTypes
  <2>2. PICK y \in L : y = <<"# @name">>
    BY <1>1, LineTypes
  <2>3. <<x>> \o <<y>> = <<x, y>>
    BY PairOf
  <2> QED
    BY <1>2, <1>3, <2>1, <2>2, <2>3
<1>9. Format(r) = ((((s \o n) \o p) \o q) \o h) \o b
  BY <1>4, <1>5, <1>6, <1>7, <1>8 DEF Format, ProxyLines, BodyLines
<1>10. Grouped(s, n, p) /\ n \o p \in Seq(L)
  BY Grouping, LinesJoined
<1>11. Grouped(s, n \o p, q) /\ (n \o p) \o q \in Seq(L)
  BY <1>10, Grouping, LinesJoined
<1>12. Grouped(s, (n \o p) \o q, h) /\ ((n \o p) \o q) \o h \in Seq(L)
  BY <1>11, Grouping, LinesJoined
<1>13. Grouped(s, ((n \o p) \o q) \o h, b) /\ Grouped((n \o p) \o q, h, b)
  BY <1>11, <1>12, Grouping
<1>14. Format(r) = s \o (((n \o p) \o q) \o (h \o b))
  BY <1>9, <1>10, <1>11, <1>12, <1>13 DEF Grouped
<1> QED
  BY <1>2, <1>3, <1>4, <1>5, <1>6, <1>7, <1>14 DEF Before, After

LEMMA NoSeparatorBefore ==
    ASSUME NEW r, Writable(r), NEW k \in 1..Len(Before(r))
    PROVE  ~Separates(Before(r)[k])
<1>1. PICK L : L = Seq(Pieces)
  OBVIOUS
<1>2. PICK n \in L : n = <<"# @name">>
  BY <1>1, LineTypes
<1>3. PICK q \in L : q = r.method \o r.url /\ ~Separates(q)
  BY <1>1, RequestLine
<1>4. ~Separates(n)
  BY <1>2 DEF Separates, Begins
<1>5. CASE r.proxy = <<>>
  <2>1. Before(r) = (<<n>> \o <<>>) \o <<q>>
    BY <1>2, <1>3, <1>5 DEF Before, ProxyLines
  <2>2. <<n>> \o <<>> = <<n>> /\ <<n>> \o <<q>> = <<n, q>>
    BY OneLine, ConcatEmptySeq, PairOf
  <2>3. Before(r)[k] \in {n, q}
    BY <2>1, <2>2
  <2> QED
    BY <1>3, <1>4, <2>3
<1>6. CASE r.proxy # <<>>
  <2>1. PICK p \in L : p = <<"# @proxy">> \o r.proxy
    BY <1>1, LineTypes
  <2>2. ~Separates(p)
    <3>1. "# @proxy" \in Pieces /\ r.proxy \in Seq(Pieces)
      BY PiecesAssumption DEF Writable, Request
    <3>2. p[1] = "# @proxy"
      BY <2>1, <3>1, TailOf
    <3> QED
      BY <3>2 DEF Separates, Begins
  <2>3. Before(r) = (<<n>> \o <<p>>) \o <<q>>
    BY <1>2, <1>3, <1>6, <2>1 DEF Before, ProxyLines
  <2>4. <<n>> \o <<p>> = <<n, p>> /\ <<n, p>> \in Seq(L)
    BY PairOf
  <2>6. <<n, p>> \o <<q>> = Append(<<n, p>>, q)
    BY <2>4, AppendIsConcat
  <2>5. Before(r)[k] \in {n, p, q}
    BY <2>3, <2>4, <2>6
  <2> QED
    BY <1>3, <1>4, <2>2, <2>5
<1> QED
  BY <1>5, <1>6

(* The scanner leaves a line alone that has no carriage return at its end.   *)
LEMMA DropCRIs ==
    ASSUME NEW l \in Seq(Pieces)
    PROVE  /\ DropCR(l) \in Seq(Pieces)
           /\ (l # <<>> => Last(l) # "CR") => DropCR(l) = l
<1>1. CASE l # <<>>
  <2>1. Len(l) > 0 /\ Len(l) \in Nat
    BY <1>1, EmptySeq
  <2>2. Front(l) \in Seq(Pieces)
    BY <2>1 DEF Front
  <2> QED
    BY <2>2 DEF DropCR
<1>2. CASE l = <<>>
  BY <1>2 DEF DropCR
<1> QED
  BY <1>1, <1>2

LEMMA NoCRKept ==
    ASSUME NEW l \in Seq(Pieces), NoCR(l)
    PROVE  DropCR(l) = l
<1>1. l # <<>> => Last(l) # "CR"
  <2>1. l # <<>> => Len(l) \in 1..Len(l)
    BY EmptySeq
  <2> QED
    BY <2>1 DEF Last, NoCR
<1> QED
  BY <1>1, DropCRIs

DropsCR == [l \in Seq(Pieces) |-> DropCR(l)]

LEMMA DropsTakes == Takes(DropsCR, Seq(Pieces), Seq(Pieces))
  BY DropCRIs DEF Takes, DropsCR

LEMMA ScannedIs ==
    ASSUME NEW v \in Seq(Seq(Pieces))
    PROVE  /\ Scanned(v) = Mapped(DropsCR, v) /\ Scanned(v) \in Seq(Seq(Pieces))
           /\ Len(Scanned(v)) = Len(v)
           /\ (\A k \in 1..Len(v) : DropCR(v[k]) = v[k]) => Scanned(v) = v
<1>1. PICK L : L = Seq(Pieces)
  OBVIOUS
<1>2. v \in Seq(L) /\ \A k \in 1..Len(v) : v[k] \in L
  BY <1>1
<1>3. \A k \in 1..Len(v) : DropsCR[v[k]] = DropCR(v[k])
  BY <1>1, <1>2 DEF DropsCR
<1>4. Scanned(v) = Mapped(DropsCR, v)
  BY <1>3 DEF Scanned, Mapped
<1>5. Mapped(DropsCR, v) \in Seq(Seq(Pieces)) /\ Follow(DropsCR, v, Mapped(DropsCR, v))
  BY DropsTakes, MappedType
<1>6. PICK s \in Seq(L) : s = Scanned(v)
  BY <1>1, <1>4, <1>5
<1>7. Len(s) = Len(v) /\ \A k \in 1..Len(v) : s[k] = DropCR(v[k])
  BY <1>3, <1>4, <1>5, <1>6 DEF Follow
<1>8. (\A k \in 1..Len(v) : DropCR(v[k]) = v[k]) => s = v
  BY <1>2, <1>7, SeqEqual
<1> QED
  BY <1>4, <1>5, <1>6, <1>7, <1>8

LEMMA ScannedJoined ==
    ASSUME NEW u \in Seq(Seq(Pieces)), NEW v \in Seq(Seq(Pieces))
    PROVE  Scanned(u \o v) = Scanned(u) \o Scanned(v)
<1>1. u \o v \in Seq(Seq(Pieces))
  BY LinesJoined
<1>2. Parted(DropsCR, u, v)
  BY DropsTakes, MappedJoined
<1> QED
  BY <1>1, <1>2, ScannedIs DEF Parted

LEMMA ScannedOne ==
    ASSUME NEW l \in Seq(Pieces), DropCR(l) = l
    PROVE  Scanned(<<l>>) = <<l>> /\ <<l>> \in Seq(Seq(Pieces))
<1>1. PICK s : s = <<l>>
  OBVIOUS
<1>2. s \in Seq(Seq(Pieces)) /\ Len(s) = 1 /\ s[1] = l
  BY <1>1, OneLine
<1>3. \A k \in 1..Len(s) : DropCR(s[k]) = s[k]
  BY <1>2
<1> QED
  BY <1>1, <1>2, <1>3, ScannedIs

(* Of the lines that are written, only those of the body may change.         *)
AfterRead(r) == Scanned(After(r))

LEMMA ScannedBefore ==
    ASSUME NEW r, Writable(r)
    PROVE  Scanned(Before(r)) = Before(r)
<1>1. PICK n \in Seq(Pieces) : n = <<"# @name">>
  BY LineTypes
<1>2. DropCR(n) = n
  BY <1>1, NoCROne, NoCRKept
<1>3. PICK q \in Seq(Pieces) : q = r.method \o r.url /\ DropCR(q) = q
  BY RequestLine, NoCRKept
<1>4. Scanned(<<n>>) = <<n>> /\ Scanned(<<q>>) = <<q>>
      /\ <<n>> \in Seq(Seq(Pieces)) /\ <<q>> \in Seq(Seq(Pieces))
  BY <1>2, <1>3, ScannedOne
<1>5. PICK p \in Seq(Seq(Pieces)) : p = ProxyLines(r)
  BY LineTypes
<1>6. Scanned(p) = p
  <2>1. CASE r.proxy = <<>>
    <3>1. p = <<>>
      BY <1>5, <2>1 DEF ProxyLines
    <3>2. \A k \in 1..Len(p) : DropCR(p[k]) = p[k]
      BY <3>1
    <3> QED
      BY <3>2, ScannedIs
  <2>2. CASE r.proxy # <<>>
    <3>1. PICK l \in Seq(Pieces) : l = <<"# @proxy">> \o r.proxy
      BY LineTypes
    <3>2. NoCR(l)
      <4>1. "# @proxy" \in Pieces /\ r.proxy \in Seq(Pieces) /\ NoCR(r.proxy)
        BY PiecesAssumption DEF Writable, Request
      <4>2. <<"# @proxy">> \in Seq(Pieces) /\ NoCR(<<"# @proxy">>)
        BY <4>1, OneLine, NoCROne
      <4> QED
        BY <3>1, <4>1, <4>2, NoCRJoined
    <3>3. p = <<l>>
      BY <1>5, <2>2, <3>1 DEF ProxyLines
    <3> QED
      BY <3>1, <3>2, <3>3, NoCRKept, ScannedOne
  <2> QED
    BY <2>1, <2>2
<1>7. <<n>> \o p \in Seq(Seq(Pieces)) /\ Scanned(<<n>> \o p) = <<n>> \o p
  <2>1. Scanned(<<n>> \o p) = Scanned(<<n>>) \o Scanned(p)
    BY <1>4, ScannedJoined
  <2>2. <<n>> \o p \in Seq(Seq(Pieces))
    BY <1>4, LinesJoined
  <2> QED
    BY <2>1, <2>2, <1>4, <1>6
<1>8. Scanned((<<n>> \o p) \o <<q>>) = (<<n>> \o p) \o <<q>>
  BY <1>4, <1>7, ScannedJoined
<1> QED
  BY <1>1, <1>3, <1>5, <1>8 DEF Before

LEMMA ScannedLines ==
    ASSUME NEW r, Writable(r)
    PROVE  /\ AfterRead(r) \in Seq(Seq(Pieces)) /\ Len(AfterRead(r)) = Len(After(r))
           /\ Scanned(Format(r)) = <<<<"###">>>> \o (Before(r) \o AfterRead(r))
<1>1. PICK s \in Seq(Pieces) : s = <<"###">>
  BY LineTypes
<1>2. DropCR(s) = s
  BY <1>1, NoCROne, NoCRKept
<1>3. Scanned(<<s>>) = <<s>> /\ <<s>> \in Seq(Seq(Pieces))
  BY <1>2, ScannedOne
<1>4. PICK u \in Seq(Seq(Pieces)) : u = Before(r)
  BY LineTypes
<1>5. PICK v \in Seq(Seq(Pieces)) : v = After(r)
  BY LineTypes
<1>6. AfterRead(r) \in Seq(Seq(Pieces)) /\ Len(AfterRead(r)) = Len(After(r)) /\ AfterRead(r) = Scanned(v)
  BY <1>5, ScannedIs DEF AfterRead
<1>7. Scanned(u \o v) = u \o Scanned(v) /\ u \o v \in Seq(Seq(Pieces))
  BY <1>4, <1>5, ScannedJoined, ScannedBefore, LinesJoined
<1>8. Scanned(<<s>> \o (u \o v)) = <<s>> \o (u \o Scanned(v))
  BY <1>3, <1>7, ScannedJoined
<1> QED
  BY <1>1, <1>4, <1>5, <1>6, <1>8, FormatLines

(* What is read of the file: the lines up to the next separator.             *)
LEMMA UpToSeparator ==
    ASSUME NEW r, Writable(r)
    PROVE  \E w \in Seq(Seq(Pieces)) :
             /\ Until(Tail(Scanned(Format(r))), Separates) = Before(r) \o w
             /\ (\A k \in 1..Len(AfterRead(r)) : ~Separates(AfterRead(r)[k])) => w = AfterRead(r)
<1>1. PICK L : L = Seq(Pieces)
  OBVIOUS
<1>2. PICK u \in Seq(L) : u = Before(r)
  BY <1>1, LineTypes
<1>3. PICK v \in Seq(L) : v = AfterRead(r)
  BY <1>1, ScannedLines
<1>4. PICK f \in Seq(L) : f = u \o v
  BY LinesJoined
<1>5. /\ Len(f) = Len(u) + Len(v) /\ Len(u) \in Nat /\ Len(v) \in Nat
      /\ \A k \in 1..Len(u) : f[k] = u[k]
      /\ \A k \in 1..Len(v) : f[Len(u) + k] = v[k]
  BY <1>4
<1>6. Tail(Scanned(Format(r))) = f
  <2>1. PICK s \in L : s = <<"###">>
    BY <1>1, LineTypes
  <2> QED
    BY <1>2, <1>3, <1>4, <2>1, ScannedLines, TailOf
<1>7. PICK m \in 0..Len(f) : /\ Until(f, Separates) = SubSeq(f, 1, m)
                             /\ m = Len(f) \/ Separates(f[m + 1])
  BY UntilSeparator
<1>8. Len(u) <= m
  <2> SUFFICES ASSUME m < Len(u)
               PROVE  FALSE
    BY <1>5, <1>7
  <2>1. m + 1 \in 1..Len(u) /\ m # Len(f)
    BY <1>5, <1>7
  <2>2. Separates(u[m + 1])
    BY <1>5, <1>7, <2>1
  <2> QED
    BY <1>2, <2>1, <2>2, NoSeparatorBefore
<1>9. PICK w \in Seq(L) : w = SubSeq(v, 1, m - Len(u)) /\ SubSeq(f, 1, m) = u \o w
  <2>1. m \in 0..Len(u \o v)
    BY <1>4, <1>7
  <2>2. SubSeq(u \o v, 1, m) = u \o SubSeq(v, 1, m - Len(u))
    BY <1>8, <2>1, PrefixOf
  <2>3. SubSeq(v, 1, m - Len(u)) \in Seq(L)
    BY <1>8, <2>1, PrefixOf
  <2> QED
    BY <1>4, <2>2, <2>3
<1>10. ASSUME \A k \in 1..Len(v) : ~Separates(v[k])
       PROVE  w = v
  <2>1. m = Len(f)
    <3> SUFFICES ASSUME m # Len(f)
                 PROVE  FALSE
      OBVIOUS
    <3>1. PICK i \in 1..Len(v) : m + 1 = Len(u) + i
      <4>1. m \in 0..(Len(u) + Len(v)) /\ m # Len(u) + Len(v)
        BY <1>5
      <4> QED
        BY <1>5, <1>8, <4>1, Beyond
    <3>2. Separates(v[i])
      BY <1>5, <1>7, <3>1
    <3> QED
      BY <1>10, <3>2
  <2>2. m - Len(u) = Len(v)
    BY <1>5, <2>1
  <2> QED
    BY <1>9, <2>2, SubSeqFull
<1>11. Until(Tail(Scanned(Format(r))), Separates) = Before(r) \o w
  BY <1>2, <1>6, <1>7, <1>9
<1>12. w \in Seq(Seq(Pieces))
  BY <1>1, <1>9
<1>13. (\A k \in 1..Len(AfterRead(r)) : ~Separates(AfterRead(r)[k])) => w = AfterRead(r)
  BY <1>3, <1>10
<1> QED
  BY <1>11, <1>12, <1>13

ReadFrom(rest, proxy, file) ==
    [request |-> RequestIn(rest, proxy), errors |-> HasErrors(rest, proxy),
     alone |-> ~\E k \in 2..Len(file) : Separates(file[k])]

LEMMA ReadBack ==
    ASSUME NEW r, Writable(r)
    PROVE  \E w \in Seq(Seq(Pieces)) :
             /\ ReadBlock(Scanned(Format(r))) = ReadFrom(<<r.method \o r.url>> \o w, r.proxy, Scanned(Format(r)))
             /\ (\A k \in 1..Len(AfterRead(r)) : ~Separates(AfterRead(r)[k])) => w = AfterRead(r)
<1>1. PICK w \in Seq(Seq(Pieces)) :
             /\ Until(Tail(Scanned(Format(r))), Separates) = Before(r) \o w
             /\ (\A k \in 1..Len(AfterRead(r)) : ~Separates(AfterRead(r)[k])) => w = AfterRead(r)
  BY UpToSeparator
<1>2. PICK L : L = Seq(Pieces)
  OBVIOUS
<1>3. PICK n \in L : n = <<"# @name">>
  BY <1>2, LineTypes
<1>4. PICK q \in L : q = r.method \o r.url /\ ~Begins(q, "# @proxy")
  BY <1>2, RequestLine
<1>5. PICK rest \in Seq(L) : rest = <<q>> \o w
  BY <1>2, <1>1, OneLine, LinesJoined
<1>6. rest[1] = q
  BY <1>1, <1>2, <1>5, TailOf
<1>7. PICK p \in Seq(L) : p = ProxyLines(r)
  BY <1>2, LineTypes
<1>8. PICK lines \in Seq(L) : lines = p \o rest
  BY LinesJoined
<1>9. Before(r) \o w = <<n>> \o lines
  <2>1. <<n>> \in Seq(L) /\ <<q>> \in Seq(L) /\ w \in Seq(L)
    BY <1>1, <1>2, OneLine
  <2>2. Grouped(<<n>>, p, <<q>>) /\ p \o <<q>> \in Seq(L)
    BY <2>1, Grouping, LinesJoined
  <2>3. Grouped(<<n>>, p \o <<q>>, w) /\ Grouped(p, <<q>>, w)
    BY <2>1, <2>2, Grouping
  <2> QED
    BY <1>3, <1>4, <1>5, <1>7, <1>8, <2>2, <2>3 DEF Before, Grouped
<1>10. Tail(Until(Tail(Scanned(Format(r))), Separates)) = lines
  BY <1>1, <1>9, TailOf
<1>11. CASE r.proxy = <<>>
  <2>1. lines = rest
    BY <1>7, <1>8, <1>11, ConcatEmptySeq DEF ProxyLines
  <2>2. ~Begins(lines[1], "# @proxy")
    BY <1>4, <1>6, <2>1
  <2>3. ReadBlock(Scanned(Format(r))) = ReadFrom(rest, r.proxy, Scanned(Format(r)))
    BY <1>10, <1>11, <2>1, <2>2 DEF ReadBlock, ReadFrom
  <2> QED
    BY <1>1, <1>4, <1>5, <2>3
<1>12. CASE r.proxy # <<>>
  <2>1. PICK l \in L : l = <<"# @proxy">> \o r.proxy
    BY <1>2, LineTypes
  <2>2. lines = <<l>> \o rest
    BY <1>7, <1>8, <1>12, <2>1 DEF ProxyLines
  <2>3. lines[1] = l /\ Tail(lines) = rest
    BY <2>2, TailOf
  <2>4. Tail(l) = r.proxy /\ Begins(l, "# @proxy")
    <3>1. PICK x \in Pieces : x = "# @proxy"
      BY PiecesAssumption
    <3>2. PICK u \in Seq(Pieces) : u = r.proxy
      BY DEF Writable, Request
    <3>3. l = <<x>> \o u
      BY <2>1, <3>1, <3>2
    <3>4. l[1] = x /\ Tail(l) = u
      BY <3>3, TailOf
    <3>5. Len(l) > 0
      BY <3>3
    <3> QED
      BY <3>1, <3>2, <3>4, <3>5 DEF Begins
  <2>5. ReadBlock(Scanned(Format(r))) = ReadFrom(rest, r.proxy, Scanned(Format(r)))
    BY <1>10, <2>3, <2>4 DEF ReadBlock, ReadFrom
  <2> QED
    BY <1>1, <1>4, <1>5, <2>5
<1> QED
  BY <1>11, <1>12

(* What is read of the lines of a request is a request.                      *)
LEMMA SplitLines ==
    ASSUME NEW w \in Seq(Seq(Pieces))
    PROVE  Until(w, Blank) \in Seq(SomeLine) /\ Past(w, Blank) \in Seq(Seq(Pieces))
<1>1. PICK L : L = Seq(Pieces)
  OBVIOUS
<1>2. w \in Seq(L)
  BY <1>1
<1>3. CASE \A k \in 1..Len(w) : w[k] # <<>>
  <2>1. \A k \in 1..Len(w) : w[k] \in SomeLine
    BY <1>1, <1>2, <1>3 DEF SomeLine
  <2>2. w \in Seq(SomeLine)
    BY <1>2, <2>1
  <2> QED
    BY <1>3, <2>2, NoBlank, NoLine
<1>4. CASE \E n \in 1..Len(w) : w[n] = <<>> /\ \A k \in 1..(n - 1) : w[k] # <<>>
  <2>1. PICK n \in 1..Len(w) : w[n] = <<>> /\ \A k \in 1..(n - 1) : w[k] # <<>>
    BY <1>4
  <2>2. Until(w, Blank) = SubSeq(w, 1, n - 1) /\ Past(w, Blank) = SubSeq(w, n + 1, Len(w))
    BY <1>2, <2>1, CutAtBlank
  <2>3. SubSeq(w, 1, n - 1) \in Seq(L) /\ SubSeq(w, n + 1, Len(w)) \in Seq(L)
        /\ Len(SubSeq(w, 1, n - 1)) = n - 1
    BY <1>2, Around
  <2>4. \A k \in 1..(n - 1) : SubSeq(w, 1, n - 1)[k] = w[k]
    BY <1>2
  <2>5. PICK u \in Seq(L) : u = SubSeq(w, 1, n - 1)
    BY <2>3
  <2>a. Len(u) = n - 1 /\ \A k \in 1..(n - 1) : u[k] = w[k] /\ k \in 1..Len(w)
    BY <2>3, <2>4, <2>5
  <2>b. \A k \in 1..(n - 1) : u[k] \in L /\ u[k] # <<>>
    <3>1. ASSUME NEW k \in 1..(n - 1)
          PROVE  u[k] \in L /\ u[k] # <<>>
      <4>1. u[k] = w[k] /\ k \in 1..Len(w)
        BY <2>a
      <4>2. w[k] \in L
        BY <1>2, <4>1
      <4>3. w[k] # <<>>
        BY <2>1
      <4> QED
        BY <4>1, <4>2, <4>3
    <3> QED
      BY <3>1
  <2>6. \A k \in 1..Len(u) : u[k] \in SomeLine
    BY <1>1, <2>a, <2>b DEF SomeLine
  <2>7. u \in Seq(SomeLine)
    BY <2>5, <2>6
  <2> QED
    BY <1>1, <2>2, <2>3, <2>5, <2>7
<1> QED
  BY <1>2, <1>3, <1>4, CutSomewhere

LEMMA OrEmptyType ==
    ASSUME NEW v \in Seq(Seq(Pieces))
    PROVE  OrEmpty(v) \in Text
  BY EmptyText DEF OrEmpty, Text

LEMMA RequestInType ==
    ASSUME NEW q \in Seq(Pieces), <<q[1]>> \in SomeLine, Tail(q) \in SomeLine, q # <<>>,
           NEW w \in Seq(Seq(Pieces)), NEW proxy \in Seq(Pieces)
    PROVE  /\ RequestIn(<<q>> \o w, proxy) \in Request
           /\ HasErrors(<<q>> \o w, proxy) \in BOOLEAN
<1>1. PICK L : L = Seq(Pieces)
  OBVIOUS
<1>2. Tail(<<q>> \o w) = w /\ (<<q>> \o w)[1] = q
  <2>1. q \in L /\ w \in Seq(L)
    BY <1>1
  <2> QED
    BY <2>1, TailOf, Zenon
<1>3. HeadersIn(<<q>> \o w) \in Seq(SomeLine)
  <2>1. PICK u \in Seq(SomeLine) : u = Until(w, Blank)
    BY SplitLines
  <2>2. HeadersIn(<<q>> \o w) = Among(u, {l \in Range(u) : ~Comments(l)})
    BY <1>2, <2>1 DEF HeadersIn
  <2> QED
    BY <2>2, AmongType
<1>4. BodyIn(<<q>> \o w) \in Seq(Seq(Pieces))
  <2>1. Past(<<q>> \o w, Blank) = Past(w, Blank)
    BY <1>1, PastLine
  <2> QED
    BY <2>1, SplitLines DEF BodyIn
<1>5. PICK h \in Seq(SomeLine) :
         h = Among(HeadersIn(<<q>> \o w), {l \in Range(HeadersIn(<<q>> \o w)) : l[1] # "nameless"})
  BY <1>3, AmongType
<1>6. PICK b \in Text : b = OrEmpty(Trim(BodyIn(<<q>> \o w)))
  BY <1>4, TrimType, OrEmptyType
<1>7. PICK m \in SomeLine, u \in SomeLine : m = <<q[1]>> /\ u = Tail(q)
  OBVIOUS
<1>8. RequestIn(<<q>> \o w, proxy) \in Request
  <2>1. RequestIn(<<q>> \o w, proxy) =
          [method |-> m, url |-> u, proxy |-> proxy, headers |-> h, body |-> b]
    BY <1>2, <1>5, <1>6, <1>7 DEF RequestIn
  <2>2. PICK H : H = Seq(SomeLine)
    OBVIOUS
  <2>3. h \in H
    BY <1>5, <2>2
  <2>4. [method |-> m, url |-> u, proxy |-> proxy, headers |-> h, body |-> b]
          \in [method : SomeLine, url : SomeLine, proxy : Seq(Pieces), headers : H, body : Text]
    BY <1>6, <1>7, <2>3
  <2> QED
    BY <2>1, <2>2, <2>4 DEF Request
<1>9. HasErrors(<<q>> \o w, proxy) \in BOOLEAN
  BY DEF HasErrors
<1> QED
  BY <1>8, <1>9

ReadTyped(b) ==
    b.request \in Request /\ b.errors \in BOOLEAN /\ b.alone \in BOOLEAN

LEMMA ReadTypedBack ==
    ASSUME NEW r, Writable(r)
    PROVE  ReadTyped(ReadBlock(Scanned(Format(r))))
<1>1. PICK q \in Seq(Pieces) :
         q = r.method \o r.url /\ q # <<>> /\ <<q[1]>> = r.method /\ Tail(q) = r.url
  BY RequestLine
<1>2. PICK w \in Seq(Seq(Pieces)) :
         ReadBlock(Scanned(Format(r))) = ReadFrom(<<q>> \o w, r.proxy, Scanned(Format(r)))
  BY <1>1, ReadBack
<1>3. r.method \in SomeLine /\ r.url \in SomeLine /\ r.proxy \in Seq(Pieces)
  BY DEF Writable, Request
<1>4. RequestIn(<<q>> \o w, r.proxy) \in Request /\ HasErrors(<<q>> \o w, r.proxy) \in BOOLEAN
  BY <1>1, <1>3, RequestInType
<1>5. (~\E k \in 2..Len(Scanned(Format(r))) : Separates(Scanned(Format(r))[k])) \in BOOLEAN
  OBVIOUS
<1> QED
  BY <1>2, <1>4, <1>5 DEF ReadFrom, ReadTyped

-----------------------------------------------------------------------------
(* What a variable stands for is put in its place.                           *)
Bound == bound \in Seq(Pieces)

LEMMA FillType ==
    ASSUME Bound, NEW l \in Seq(Pieces)
    PROVE  Fill(l) \in Seq(Pieces)
<1>1. PICK b \in Seq(Pieces) : b = bound
  BY DEF Bound
<1>2. PICK L : L = Seq(Pieces)
  OBVIOUS
<1> DEFINE Filled(k) == IF l[k] = "{{var}}" THEN bound ELSE <<l[k]>>
<1>3. ASSUME NEW k \in 1..Len(l)
      PROVE  Filled(k) \in L
  <2>1. PICK p \in Pieces : p = l[k]
    OBVIOUS
  <2>2. <<p>> \in L
    BY <1>2, OneLine
  <2> QED
    BY <1>1, <1>2, <2>1, <2>2
<1>4. Fill(l) = FlattenSeq([k \in 1..Len(l) |-> Filled(k)])
  BY DEF Fill
<1>5. Len(l) \in Nat
  OBVIOUS
<1> HIDE DEF Filled
<1>6. [k \in 1..Len(l) |-> Filled(k)] \in Seq(L)
  BY <1>3, <1>5
<1> QED
  BY <1>2, <1>4, <1>6, FlatText

LEMMA FillAllType ==
    ASSUME Bound, NEW v \in Seq(Seq(Pieces))
    PROVE  /\ FillAll(v) \in Seq(Seq(Pieces)) /\ Len(FillAll(v)) = Len(v)
           /\ \A k \in 1..Len(v) : FillAll(v)[k] = Fill(v[k])
<1>1. PICK L : L = Seq(Pieces)
  OBVIOUS
<1>2. \A k \in 1..Len(v) : Fill(v[k]) \in L
  BY <1>1, FillType
<1>3. Len(v) \in Nat
  OBVIOUS
<1> QED
  BY <1>1, <1>2, <1>3 DEF FillAll

LEMMA FillHeaderType ==
    ASSUME Bound, NEW l \in SomeLine
    PROVE  /\ <<l[1]>> \o Fill(Tail(l)) \in SomeLine
           /\ (<<l[1]>> \o Fill(Tail(l)))[1] = l[1]
           /\ Tail(<<l[1]>> \o Fill(Tail(l))) = Fill(Tail(l))
<1>1. l \in Seq(Pieces) /\ l # <<>>
  BY DEF SomeLine
<1>2. l[1] \in Pieces /\ Tail(l) \in Seq(Pieces)
  BY <1>1
<1>3. PICK t \in Seq(Pieces) : t = Fill(Tail(l))
  BY <1>2, FillType
<1>4. PICK p \in Pieces : p = l[1]
  BY <1>2
<1>5. <<p>> \o t \in Seq(Pieces) /\ <<p>> \o t # <<>>
  BY OneLine, LinesJoined
<1> QED
  BY <1>3, <1>4, <1>5, TailOf DEF SomeLine

LEMMA FillHeadersType ==
    ASSUME Bound, NEW v \in Seq(SomeLine)
    PROVE  /\ FillHeaders(v) \in Seq(SomeLine) /\ Len(FillHeaders(v)) = Len(v)
           /\ \A k \in 1..Len(v) : FillHeaders(v)[k] = <<v[k][1]>> \o Fill(Tail(v[k]))
<1>1. \A k \in 1..Len(v) : <<v[k][1]>> \o Fill(Tail(v[k])) \in SomeLine
  BY FillHeaderType
<1>2. Len(v) \in Nat
  OBVIOUS
<1> QED
  BY <1>1, <1>2 DEF FillHeaders

LEMMA ToCRLFType ==
    ASSUME NEW v \in Seq(Seq(Pieces))
    PROVE  ToCRLF(v) \in Seq(Seq(Pieces)) /\ Len(ToCRLF(v)) = Len(v)
<1>1. PICK L : L = Seq(Pieces)
  OBVIOUS
<1>2. "CR" \in Pieces
  BY PiecesAssumption
<1>3. \A k \in 1..Len(v) : (IF k = Len(v) THEN v[k] ELSE Append(v[k], "CR")) \in L
  BY <1>1, <1>2, AppendProperties
<1>4. Len(v) \in Nat
  OBVIOUS
<1> QED
  BY <1>1, <1>3, <1>4 DEF ToCRLF

LEMMA UnsplicedType ==
    ASSUME Bound, NEW r \in Request
    PROVE  Unspliced(r) \in Text
<1>1. PICK v \in Seq(Seq(Pieces)) : v = FillAll(r.body) /\ v # <<>>
  <2>1. r.body \in Seq(Seq(Pieces)) /\ r.body # <<>>
    BY DEF Request, Text
  <2>2. Len(r.body) # 0
    BY <2>1
  <2> QED
    BY <2>1, <2>2, FillAllType
<1>2. ToCRLF(v) \in Seq(Seq(Pieces)) /\ ToCRLF(v) # <<>>
  <2>1. Len(v) # 0
    BY <1>1
  <2> QED
    BY <2>1, ToCRLFType
<1> QED
  BY <1>1, <1>2 DEF Unspliced, Text

(* A part of a multipart body: it does not end with a blank line.            *)
Segment == {s \in Seq(Seq(Pieces)) : s # <<>> => s[Len(s)] # <<>>}

LEMMA NextMarkWithin ==
    ASSUME NEW v \in Seq(Seq(Pieces)), NEW k \in Marks(v), \E j \in Marks(v) : j > k
    PROVE  /\ NextMark(v, k) \in Marks(v) /\ NextMark(v, k) > k
           /\ \A j \in Marks(v) : j > k => NextMark(v, k) <= j
<1> DEFINE S == {j \in Marks(v) : j > k}
<1>1. Marks(v) \subseteq 1..Len(v) /\ Len(v) \in Nat
  BY DEF Marks
<1>2. S \subseteq Nat /\ S # {}
  BY <1>1
<1>3. PICK m \in S : \A j \in S : m <= j
  BY <1>2, LeastNumber
<1>4. Min(S) = m
  BY <1>2, <1>3, MinIs
<1> QED
  BY <1>3, <1>4 DEF NextMark

LEMMA SegmentsType ==
    ASSUME NEW v \in Seq(Seq(Pieces))
    PROVE  Segments(v) \in Seq(Segment)
<1> DEFINE Seg(k) ==
       IF k \in Marks(v) /\ \E j \in Marks(v) : j > k
       THEN <<Trim(SubSeq(v, k + 1, NextMark(v, k) - 1))>> ELSE <<>>
<1>1. ASSUME NEW k \in 1..Len(v)
      PROVE  Seg(k) \in Seq(Segment)
  <2>1. CASE k \in Marks(v) /\ \E j \in Marks(v) : j > k
    <3>1. NextMark(v, k) \in 1..Len(v) /\ NextMark(v, k) > k
      BY <2>1, NextMarkWithin DEF Marks
    <3>2. PICK m \in 1..Len(v) : m = NextMark(v, k) /\ m > k
      BY <3>1
    <3>3. PICK L : L = Seq(Pieces)
      OBVIOUS
    <3>4. k + 1 \in Nat /\ m - 1 \in Nat /\ \A i \in (k + 1)..(m - 1) : i \in 1..Len(v)
      BY <3>2
    <3>5. SubSeq(v, k + 1, m - 1) \in Seq(L)
      <4>1. v \in Seq(L) /\ \A i \in (k + 1)..(m - 1) : v[i] \in L
        BY <3>3, <3>4
      <4> QED
        BY <3>4, <4>1, SubSeqProperties
    <3>6. PICK t \in Seq(L) : /\ t = Trim(SubSeq(v, k + 1, m - 1))
                              /\ t # <<>> => t[Len(t)] # <<>>
      BY <3>5, TrimType
    <3>7. t \in Segment
      BY <3>3, <3>6 DEF Segment
    <3> QED
      BY <2>1, <3>2, <3>6, <3>7, OneLine
  <2>2. CASE ~(k \in Marks(v) /\ \E j \in Marks(v) : j > k)
    BY <2>2, NoLine
  <2> QED
    BY <2>1, <2>2
<1>2. Segments(v) = FlattenSeq([k \in 1..Len(v) |-> Seg(k)])
  BY DEF Segments
<1>3. Len(v) \in Nat
  OBVIOUS
<1> HIDE DEF Seg
<1>4. [k \in 1..Len(v) |-> Seg(k)] \in Seq(Seq(Segment))
  <2>1. PICK G : G = Seq(Segment)
    OBVIOUS
  <2>2. [k \in 1..Len(v) |-> Seg(k)] \in Seq(G)
    BY <1>1, <1>3, <2>1
  <2> QED
    BY <2>1, <2>2
<1> QED
  BY <1>2, <1>4, FlatText

LEMMA ContentType ==
    ASSUME NEW seg \in Segment, Contains(seg, <<>>)
    PROVE  Content(seg) \in Text
<1>1. PICK L : L = Seq(Pieces)
  OBVIOUS
<1>2. seg \in Seq(L) /\ (seg # <<>> => seg[Len(seg)] # <<>>)
  BY <1>1 DEF Segment
<1>3. ~\A k \in 1..Len(seg) : seg[k] # <<>>
  BY DEF Contains
<1>4. PICK n \in 1..Len(seg) : seg[n] = <<>> /\ \A k \in 1..(n - 1) : seg[k] # <<>>
  BY <1>2, <1>3, CutSomewhere
<1>5. Content(seg) = SubSeq(seg, n + 1, Len(seg))
  BY <1>2, <1>4, CutAtBlank DEF Content
<1>6. SubSeq(seg, n + 1, Len(seg)) \in Seq(L) /\ Len(SubSeq(seg, n + 1, Len(seg))) = Len(seg) - n
  BY <1>2, Around
<1>7. n # Len(seg)
  BY <1>2, <1>4
<1>8. Len(seg) - n # 0
  BY <1>2, <1>7
<1>9. SubSeq(seg, n + 1, Len(seg)) # <<>>
  BY <1>6, <1>8
<1> QED
  BY <1>1, <1>5, <1>6, <1>9 DEF Text

LEMMA UploadValue ==
    ASSUME NEW v \in Text, OnlyFile(v)
    PROVE  <<<<"@">> \o Tail(v[1])>> \in Text
<1>1. Len(v) = 1 /\ Len(v[1]) > 0
  BY DEF OnlyFile, Starts, Begins
<1>2. v[1] \in Seq(Pieces)
  BY <1>1 DEF Text
<1>3. "@" \in Pieces
  BY PiecesAssumption
<1>4. PICK l \in Seq(Pieces) : l = <<"@">> \o Tail(v[1])
  BY <1>1, <1>2, <1>3, ReferenceLine
<1>5. <<l>> \in Seq(Seq(Pieces)) /\ <<l>> # <<>>
  BY OneLine
<1> QED
  BY <1>4, <1>5 DEF Text

LEMMA ArgumentType ==
    ASSUME NEW is \in Kinds, NEW value \in Text
    PROVE  /\ Argument(is, value) \in Arg
           /\ Argument(is, value).is = is /\ Argument(is, value).value = value
  BY DEF Argument, Arg

LEMMA FormFlagType ==
    ASSUME NEW seg \in Segment, PartReadable(seg)
    PROVE  FormFlag(seg) \in Arg
<1>1. PICK v \in Text : v = Content(seg)
  BY ContentType DEF PartReadable
<1>2. CASE OnlyFile(v)
  <2>1. PICK t \in Text : t = <<<<"@">> \o Tail(v[1])>>
    BY <1>2, UploadValue
  <2>2. PICK f \in {"none", "given", "empty"} :
          f = IF Contains(PartHeader(seg), <<"Content-Disposition", "given">>) THEN "given" ELSE "none"
    OBVIOUS
  <2>3. PICK b \in BOOLEAN : b = Contains(PartHeader(seg), <<"Content-Type", "part">>)
    BY DEF Contains
  <2>4. FormFlag(seg) = [is |-> "form", value |-> t, filename |-> f, type |-> b]
    BY <1>1, <1>2, <2>1, <2>2, <2>3 DEF FormFlag
  <2>5. "form" \in Kinds
    BY DEF Kinds
  <2> QED
    BY <2>4, <2>5 DEF Arg
<1>3. CASE ~OnlyFile(v)
  BY <1>1, <1>3, ArgumentType DEF FormFlag, Kinds
<1> QED
  BY <1>2, <1>3

LEMMA BodyArgumentsType ==
    ASSUME Bound, NEW r \in Request
    PROVE  BodyArguments(r) \in Seq(Arg)
<1>1. r.body \in Text /\ r.body \in Seq(Seq(Pieces))
  BY DEF Request, Text
<1>2. CASE HasParts(r)
  <2>1. PICK s \in Seq(Segment) : s = Segments(r.body)
    BY <1>1, SegmentsType
  <2>2. \A n \in 1..Len(s) : FormFlag(s[n]) \in Arg
    BY <1>2, <2>1, FormFlagType DEF HasParts
  <2>3. [n \in 1..Len(s) |-> FormFlag(s[n])] \in Seq(Arg)
    <3>1. Len(s) \in Nat
      OBVIOUS
    <3> QED
      BY <2>2, <3>1
  <2> QED
    BY <1>2, <2>1, <2>3 DEF BodyArguments
<1>3. CASE ~HasParts(r) /\ OnlyFile(r.body)
  <2>1. PICK t \in Text : t = <<<<"@">> \o Tail(r.body[1])>>
    BY <1>1, <1>3, UploadValue
  <2>2. Argument("binary", t) \in Arg
    BY ArgumentType DEF Kinds
  <2> QED
    BY <1>3, <2>1, <2>2, OneLine DEF BodyArguments
<1>4. CASE ~HasParts(r) /\ ~OnlyFile(r.body) /\ r.body # Empty
  <2>1. Argument("raw", Unspliced(r)) \in Arg
    BY UnsplicedType, ArgumentType DEF Kinds
  <2>2. BodyArguments(r) = <<Argument("raw", Unspliced(r))>>
    BY <1>4 DEF BodyArguments
  <2> QED
    BY <2>1, <2>2, OneLine
<1>5. CASE ~HasParts(r) /\ ~OnlyFile(r.body) /\ r.body = Empty
  BY <1>5, NoLine DEF BodyArguments
<1> QED
  BY <1>2, <1>3, <1>4, <1>5

LEMMA HeaderArgumentsType ==
    ASSUME Bound, NEW r \in Request
    PROVE  HeaderArguments(r) \in Seq(Arg)
<1>1. PICK f \in Seq(SomeLine) : f = FillHeaders(r.headers)
  BY FillHeadersType DEF Request
<1>2. PICK kept \in Seq(SomeLine) :
        kept = Among(f, {l \in Range(f) : ~(HasParts(r) /\ l[1] = "Content-Type")})
  BY AmongType
<1>3. ASSUME NEW l \in SomeLine
      PROVE  Argument("header", <<l>>) \in Arg
  <2>1. <<l>> \in Text
    BY OneLine DEF SomeLine, Text
  <2> QED
    BY <2>1, ArgumentType DEF Kinds
<1>4. [k \in 1..Len(kept) |-> Argument("header", <<kept[k]>>)] \in Seq(Arg)
  <2>1. Len(kept) \in Nat /\ \A k \in 1..Len(kept) : kept[k] \in SomeLine
    OBVIOUS
  <2> QED
    BY <1>3, <2>1
<1> QED
  BY <1>1, <1>2, <1>4 DEF HeaderArguments

LEMMA CommandType ==
    ASSUME Bound, NEW r \in Request
    PROVE  CommandOf(r) \in Seq(Arg)
<1>1. PICK u \in Text : u = <<Fill(r.url)>>
  <2>1. Fill(r.url) \in Seq(Pieces)
    BY FillType DEF Request, SomeLine
  <2> QED
    BY <2>1, OneLine DEF Text
<1>2. PICK m \in Text : m = <<r.method>>
  <2>1. r.method \in Seq(Pieces)
    BY DEF Request, SomeLine
  <2> QED
    BY <2>1, OneLine DEF Text
<1>3. PICK p \in Text : p = <<Fill(r.proxy)>>
  <2>1. Fill(r.proxy) \in Seq(Pieces)
    BY FillType DEF Request
  <2> QED
    BY <2>1, OneLine DEF Text
<1>4. PICK a \in Arg : a = Argument("positional", u)
  BY ArgumentType DEF Kinds
<1>5. PICK b \in Arg : b = Argument("method", m)
  BY ArgumentType DEF Kinds
<1>6. PICK c \in Arg : c = Argument("proxy", p)
  BY ArgumentType DEF Kinds
<1>7. PICK first \in Seq(Arg) : first = <<a, b>>
  BY PairOf
<1>8. PICK h \in Seq(Arg) : h = HeaderArguments(r)
  BY HeaderArgumentsType
<1>9. PICK q \in Seq(Arg) : q = IF r.proxy = <<>> THEN <<>> ELSE <<c>>
  BY OneLine, NoLine
<1>10. PICK t \in Seq(Arg) : t = BodyArguments(r)
  BY BodyArgumentsType
<1>11. CommandOf(r) = ((first \o h) \o q) \o t
  BY <1>1, <1>2, <1>3, <1>4, <1>5, <1>6, <1>7, <1>8, <1>9, <1>10 DEF CommandOf
<1>12. first \o h \in Seq(Arg)
  BY LinesJoined
<1>13. (first \o h) \o q \in Seq(Arg)
  BY <1>12, LinesJoined
<1> QED
  BY <1>11, <1>13, LinesJoined

-----------------------------------------------------------------------------
(* The conversion, step by step: what each phase has made, and of what.      *)
Phases ==
    /\ phase \in {"args", "failed", "built", "file", "printed"}
    /\ phase \in {"args", "failed"} => request = None
    /\ phase \in {"args", "failed", "built"} => block = None
    /\ phase # "printed" => command = None
    /\ phase = "built" => Writable(request)
    /\ phase \in {"file", "printed"} => ReadTyped(block)

HasRequest ==
    request = None \/ (Writable(request) /\ request = RequestOf(got) /\ ParsesAs(got))

HasBlock ==
    \/ block = None
    \/ ReadTyped(block) /\ (request = None \/ block = ReadBlock(Scanned(Format(request))))

HasCommand ==
    command = None \/ (ReadTyped(block) /\ command = CommandOf(block.request))

Converting ==
    /\ Kept /\ Filed /\ bound \in Bindings
    /\ Phases /\ HasRequest /\ HasBlock /\ HasCommand

LEMMA WrittenTyped ==
    ASSUME NEW r \in Written
    PROVE  ReadTyped([request |-> r, errors |-> Unresolvable(r), alone |-> TRUE])
<1>1. r \in Request
  BY WrittenAssumption
<1>2. PICK e \in BOOLEAN : e = Unresolvable(r)
  BY DEF Unresolvable
<1> QED
  BY <1>1, <1>2 DEF ReadTyped

LEMMA ConvertingInit == Init => Converting
<1> SUFFICES ASSUME Init
             PROVE  Converting
  OBVIOUS
<1>1. Kept /\ Filed /\ bound \in Bindings
  BY KeptInit, FiledInit DEF Init
<1>2. request = None /\ command = None
  BY DEF Init
<1>3. \/ phase = "args" /\ block = None
      \/ phase = "file" /\ ReadTyped(block)
  BY WrittenTyped DEF Init
<1>4. Phases
  BY <1>2, <1>3 DEF Phases
<1>5. HasBlock
  BY <1>2, <1>3 DEF HasBlock
<1>6. HasRequest /\ HasCommand
  BY <1>2 DEF HasRequest, HasCommand
<1> QED
  BY <1>1, <1>4, <1>5, <1>6 DEF Converting

(* What a request is made of does not change once it is made.                *)
LEMMA SameRequest ==
    ASSUME NEW g, seen' = seen
    PROVE  RequestOf(g)' = RequestOf(g) /\ (ParsesAs(g) => ParsesAs(g)')
<1>1. MethodOf(g)' = MethodOf(g)
  BY DEF MethodOf, Explicit
<1>2. HeadersOf(g)' = HeadersOf(g)
  BY DEF HeadersOf
<1>3. At(g.forms)' = At(g.forms)
  BY DEF At
<1>4. BodyOf(g)' = BodyOf(g)
  BY <1>3 DEF BodyOf
<1>5. RequestOf(g)' = RequestOf(g)
  BY <1>1, <1>2, <1>4 DEF RequestOf
<1>6. ParsesAs(g) => ParsesAs(g)'
  BY DEF ParsesAs
<1> QED
  BY <1>5, <1>6

LEMMA SameCommand ==
    ASSUME NEW r, bound' = bound
    PROVE  CommandOf(r)' = CommandOf(r)
<1>1. \A l : Fill(l)' = Fill(l)
  BY DEF Fill
<1>2. FillHeaders(r.headers)' = FillHeaders(r.headers)
  BY <1>1 DEF FillHeaders
<1>3. FillAll(r.body)' = FillAll(r.body)
  BY <1>1 DEF FillAll
<1>4. Unspliced(r)' = Unspliced(r)
  BY <1>2, <1>3 DEF Unspliced
<1>5. HasParts(r)' = HasParts(r)
  BY <1>2 DEF HasParts
<1>6. BodyArguments(r)' = BodyArguments(r)
  BY <1>4, <1>5 DEF BodyArguments
<1>7. HeaderArguments(r)' = HeaderArguments(r)
  BY <1>2, <1>5 DEF HeaderArguments
<1>8. Fill(r.url)' = Fill(r.url) /\ Fill(r.proxy)' = Fill(r.proxy)
  BY <1>1
<1> QED
  BY <1>6, <1>7, <1>8 DEF CommandOf

LEMMA SameBlock ==
    ASSUME NEW v, bound' = bound
    PROVE  ReadBlock(v)' = ReadBlock(v)
<1>1. \A l : Fill(l)' = Fill(l)
  BY DEF Fill
<1>2. \A l : Absolute(l)' = Absolute(l)
  BY <1>1 DEF Absolute
<1>3. \A r : Unresolvable(r)' = Unresolvable(r)
  BY <1>2 DEF Unresolvable
<1>4. \A rest, proxy : HasErrors(rest, proxy)' = HasErrors(rest, proxy)
  BY <1>3 DEF HasErrors
<1> QED
  BY <1>4 DEF ReadBlock

LEMMA ConvertingStep == Converting /\ [Next]_vars => Converting'
<1> SUFFICES ASSUME Converting, [Next]_vars
             PROVE  Converting'
  OBVIOUS
<1>1. Kept' /\ Filed'
  BY KeptStep, FiledStep DEF Converting
<1>2. bound' = bound
  BY DEF Next, ReadArgument, GiveUp, Build, WriteAndRead, ToCurl, conversion, vars
<1>3. CASE ReadArgument
  <2>1. phase = "args" /\ phase' = "args" /\ UNCHANGED conversion
    BY <1>3 DEF ReadArgument, Dashes, Positional, Url, Method, HeadOnly, Header,
       Data, Form, Proxy, Dropped, Ignored, Option, Read
  <2>2. request = None /\ block = None /\ command = None
    BY <2>1 DEF Converting, Phases
  <2>3. request' = None /\ block' = None /\ command' = None
    BY <2>1, <2>2 DEF conversion
  <2>4. Phases'
    BY <2>1, <2>3 DEF Phases
  <2>5. HasRequest' /\ HasBlock' /\ HasCommand'
    BY <2>3 DEF HasRequest, HasBlock, HasCommand
  <2> QED
    BY <1>1, <1>2, <2>4, <2>5 DEF Converting
<1>4. CASE GiveUp
  <2>1. phase = "args" /\ phase' = "failed" /\ UNCHANGED conversion
    BY <1>4 DEF GiveUp, Refuse
  <2>2. request = None /\ block = None /\ command = None
    BY <2>1 DEF Converting, Phases
  <2>3. request' = None /\ block' = None /\ command' = None
    BY <2>1, <2>2 DEF conversion
  <2>4. Phases'
    BY <2>1, <2>3 DEF Phases
  <2>5. HasRequest' /\ HasBlock' /\ HasCommand'
    BY <2>3 DEF HasRequest, HasBlock, HasCommand
  <2> QED
    BY <1>1, <1>2, <2>4, <2>5 DEF Converting
<1>5. CASE Build
  <2>1. PICK g : g = Settled
    OBVIOUS
  <2>2. /\ phase = "args" /\ ValidURL /\ phase' = "built" /\ got' = g
        /\ request' = RequestOf(g) /\ UNCHANGED <<seen, bound, block, command>>
    BY <1>5, <2>1 DEF Build
  <2>3. ParsesAs(g)
    BY <2>1, <2>2, SettledParses DEF Converting
  <2>4. Writable(RequestOf(g))
    BY <2>3, RequestWritable DEF Converting
  <2>5. block' = None /\ command' = None
    BY <2>2 DEF Converting, Phases
  <2>6. Phases'
    BY <2>2, <2>4, <2>5 DEF Phases
  <2>7. HasBlock' /\ HasCommand'
    BY <2>5 DEF HasBlock, HasCommand
  <2>8. HasRequest'
    <3>1. RequestOf(g)' = RequestOf(g) /\ ParsesAs(g)'
      BY <2>2, <2>3, SameRequest
    <3>2. PICK r : r = RequestOf(g)
      OBVIOUS
    <3>3. request' = r /\ Writable(r) /\ RequestOf(got)' = r
      BY <2>2, <2>4, <3>1, <3>2
    <3>4. ParsesAs(got)'
      BY <2>2, <3>1
    <3> QED
      BY <3>3, <3>4 DEF HasRequest
  <2> QED
    BY <1>1, <1>2, <2>6, <2>7, <2>8 DEF Converting
<1>6. CASE WriteAndRead \/ ToCurl \/ UNCHANGED vars
  <2>0. UNCHANGED <<seen, got, request>>
    BY <1>6 DEF WriteAndRead, ToCurl, vars
  <2>1. PICK g : g = got
    OBVIOUS
  <2>2. RequestOf(g)' = RequestOf(g) /\ (ParsesAs(g) => ParsesAs(g)')
    BY <2>0, SameRequest
  <2>3. PICK r : r = request
    OBVIOUS
  <2>4. r = None \/ (Writable(r) /\ r = RequestOf(g) /\ ParsesAs(g))
    BY <2>1, <2>3 DEF Converting, HasRequest
  <2>5. request' = r /\ got' = g
    BY <2>0, <2>1, <2>3
  <2>6. RequestOf(got)' = RequestOf(g) /\ (ParsesAs(g) => ParsesAs(got)')
    BY <2>2, <2>5
  <2>7. HasRequest'
    BY <2>4, <2>5, <2>6 DEF HasRequest
  <2>8. CASE WriteAndRead
    <3>1. /\ phase = "built" /\ phase' = "file" /\ block' = ReadBlock(Scanned(Format(r)))
          /\ command' = command
      BY <2>3, <2>8 DEF WriteAndRead
    <3>2. Writable(r) /\ command = None
      BY <2>3, <3>1 DEF Converting, Phases
    <3>3. PICK b : b = ReadBlock(Scanned(Format(r)))
      OBVIOUS
    <3>4. ReadTyped(b) /\ block' = b /\ command' = None
      BY <3>1, <3>2, <3>3, ReadTypedBack
    <3>5. Phases'
      BY <3>1, <3>4 DEF Phases
    <3>6. HasBlock' /\ HasCommand'
      <4>1. PICK v : v = Scanned(Format(r))
        OBVIOUS
      <4>2. ReadBlock(v)' = b
        BY <1>2, <3>3, <4>1, SameBlock
      <4>3. block' = ReadBlock(Scanned(Format(request)))'
        BY <2>5, <3>4, <4>1, <4>2
      <4> QED
        BY <3>4, <4>3 DEF HasBlock, HasCommand
    <3> QED
      BY <1>1, <1>2, <2>7, <3>5, <3>6 DEF Converting
  <2>9. CASE ToCurl
    <3>1. PICK b : b = block
      OBVIOUS
    <3>2. /\ phase = "file" /\ phase' = "printed" /\ block' = b
          /\ command' = CommandOf(b.request)
      BY <2>9, <3>1 DEF ToCurl
    <3>3. ReadTyped(b)
      BY <3>1, <3>2 DEF Converting, Phases
    <3>4. PICK q : q = b.request
      OBVIOUS
    <3>5. CommandOf(q)' = CommandOf(q)
      BY <1>2, SameCommand
    <3>6. Phases'
      BY <3>2, <3>3 DEF Phases
    <3>7. HasCommand'
      BY <3>2, <3>3, <3>4, <3>5 DEF HasCommand
    <3>8. HasBlock'
      <4>1. PICK v : v = Scanned(Format(r))
        OBVIOUS
      <4>2. ReadBlock(v)' = ReadBlock(v)
        BY <1>2, SameBlock
      <4>3. b = None \/ r = None \/ b = ReadBlock(v)
        BY <2>3, <3>1, <4>1 DEF Converting, HasBlock
      <4>4. b = None \/ request' = None \/ block' = ReadBlock(Scanned(Format(request)))'
        BY <2>5, <3>2, <4>1, <4>2, <4>3
      <4> QED
        BY <3>2, <3>3, <4>4 DEF HasBlock
    <3> QED
      BY <1>1, <1>2, <2>7, <3>6, <3>7, <3>8 DEF Converting
  <2>10. CASE UNCHANGED vars
    <3>1. PICK b : b = block
      OBVIOUS
    <3>2. PICK q : q = b.request
      OBVIOUS
    <3>3. CommandOf(q)' = CommandOf(q)
      BY <1>2, SameCommand
    <3>4. UNCHANGED <<phase, block, command>>
      BY <2>10 DEF vars
    <3>5. Phases'
      BY <2>0, <3>4 DEF Converting, Phases
    <3>6. HasBlock'
      <4>1. PICK v : v = Scanned(Format(r))
        OBVIOUS
      <4>2. ReadBlock(v)' = ReadBlock(v)
        BY <1>2, SameBlock
      <4>3. b = None \/ (ReadTyped(b) /\ (r = None \/ b = ReadBlock(v)))
        BY <2>3, <3>1, <4>1 DEF Converting, HasBlock
      <4>4. block' = b
        BY <3>1, <3>4
      <4>5. b = ReadBlock(v) => block' = ReadBlock(Scanned(Format(request)))'
        BY <2>5, <4>1, <4>2, <4>4
      <4> QED
        BY <2>5, <4>3, <4>4, <4>5 DEF HasBlock
    <3>7. HasCommand'
      BY <3>1, <3>2, <3>3, <3>4 DEF Converting, HasCommand
    <3> QED
      BY <1>1, <1>2, <2>7, <3>5, <3>6, <3>7 DEF Converting
  <2> QED
    BY <1>6, <2>8, <2>9, <2>10
<1> QED
  BY <1>3, <1>4, <1>5, <1>6 DEF Next

LEMMA ConvertingAlways == Spec => []Converting
  BY ConvertingInit, ConvertingStep, PTL DEF Spec

(* Type correctness: what Parse returns can be written to a file, what the   *)
(* parser reads of the file is a request again, and what ToCurl prints of    *)
(* one is a command.                                                        *)
THEOREM TypeCorrect == Spec => []TypeOK
<1>1. Converting => TypeOK
  <2> SUFFICES ASSUME Converting
               PROVE  TypeOK
    OBVIOUS
  <2>1. seen \in Seq(Arg) /\ got \in Got
    BY DEF Converting, Kept, Sorted
  <2>2. Len(seen) <= MaxArgs
    BY DEF Converting, Filed
  <2>3. request \in Request \cup {None}
    BY DEF Converting, HasRequest, Writable
  <2>4. block # None => /\ block.request \in Request
                        /\ block.errors \in BOOLEAN /\ block.alone \in BOOLEAN
    BY DEF Converting, HasBlock, ReadTyped
  <2>5. command # None => command \in Seq(Arg)
    <3>1. Bound
      BY BindingsAssumption DEF Converting, Bound
    <3> QED
      BY <3>1, CommandType DEF Converting, HasCommand, ReadTyped
  <2> QED
    BY <2>1, <2>2, <2>3, <2>4, <2>5 DEF TypeOK, Converting, Phases
<1> QED
  BY <1>1, ConvertingAlways, PTL

(* What is written after the request line has no separator, is cut between   *)
(* the headers and the body, and holds both as they were.                    *)
LEMMA AfterPlain ==
    ASSUME NEW r, Writable(r), Plain(r)
    PROVE  /\ \A k \in 1..Len(After(r)) : ~Separates(After(r)[k])
           /\ Until(After(r), Blank) = r.headers
           /\ Past(After(r), Blank) = IF r.body = Empty THEN <<>> ELSE r.body
<1>1. PICK L : L = Seq(Pieces)
  OBVIOUS
<1>2. PICK h \in Seq(L) : h = r.headers
  BY <1>1, LineTypes
<1>3. \A k \in 1..Len(h) : h[k] # <<>> /\ ~Separates(h[k])
  <2>1. h \in Seq(SomeLine)
    BY <1>2 DEF Writable, Request
  <2>2. \A k \in 1..Len(h) : h[k] \in SomeLine
    BY <2>1
  <2>3. \A k \in 1..Len(h) : h[k][1] # "###"
    BY <1>2 DEF Plain
  <2> QED
    BY <2>2, <2>3 DEF SomeLine, Separates, Begins
<1>4. PICK b \in Seq(L) : b = r.body
  BY <1>1 DEF Writable, Request, Text
<1>5. \A k \in 1..Len(b) : ~Separates(b[k])
  BY <1>4 DEF Plain
<1>6. CASE b = Empty
  <2>1. After(r) = h
    BY <1>2, <1>4, <1>6, ConcatEmptySeq DEF After, BodyLines
  <2>2. Until(h, Blank) = h /\ Past(h, Blank) = <<>>
    BY <1>3, NoBlank
  <2> QED
    BY <1>2, <1>3, <1>4, <1>6, <2>1, <2>2
<1>7. CASE b # Empty
  <2>1. PICK e \in L : e = <<>>
    BY <1>1, NoLine
  <2>2. PICK f \in Seq(L) : f = <<e>>
    BY OneLine
  <2>3. After(r) = h \o (f \o b)
    BY <1>2, <1>4, <1>7, <2>1, <2>2 DEF After, BodyLines, Empty
  <2>4. Grouped(h, f, b)
    BY Grouping
  <2>5. PICK a \in Seq(L) : a = (h \o f) \o b /\ a = After(r)
    <3>1. h \o f \in Seq(L)
      BY LinesJoined
    <3>2. (h \o f) \o b \in Seq(L)
      BY <3>1, LinesJoined
    <3> QED
      BY <2>3, <2>4, <3>2 DEF Grouped
  <2>6. Until(a, Blank) = h /\ Past(a, Blank) = b
    BY <1>3, <2>1, <2>2, <2>5, CutBetween
  <2>7. ~Separates(e)
    BY <2>1 DEF Separates, Begins
  <2>8. ASSUME NEW k \in 1..Len(a)
        PROVE  ~Separates(a[k])
    <3>1. a = (h \o <<e>>) \o b
      BY <2>2, <2>5
    <3>2. /\ Len(a) = Len(h) + 1 + Len(b) /\ a[Len(h) + 1] = e
          /\ \A i \in 1..Len(h) : a[i] = h[i]
      BY <3>1, Middle
    <3>3. CASE k \in 1..Len(h)
      BY <1>3, <3>2, <3>3
    <3>4. CASE k = Len(h) + 1
      BY <2>7, <3>2, <3>4
    <3>5. CASE k > Len(h) + 1
      <4>1. PICK i \in 1..Len(b) : k = (Len(h) + 1) + i
        <5>1. k - (Len(h) + 1) \in 1..Len(b) /\ k = (Len(h) + 1) + (k - (Len(h) + 1))
          BY <3>2, <3>5
        <5> QED
          BY <5>1
      <4>2. h \o f \in Seq(L) /\ Len(h \o f) = Len(h) + 1
        BY <2>2, LinesJoined
      <4>3. PICK g \in Seq(L) : g = h \o f /\ Len(g) = Len(h) + 1
        BY <4>2
      <4>4. a = g \o b
        BY <2>5, <4>3
      <4>5. a[k] = b[i]
        BY <4>1, <4>3, <4>4
      <4> QED
        BY <1>5, <4>5
    <3>6. PICK n \in Nat : n = Len(h)
      OBVIOUS
    <3>7. k \in 1..n \/ k = n + 1 \/ k > n + 1
      BY <3>6
    <3> QED
      BY <3>3, <3>4, <3>5, <3>6, <3>7
  <2> QED
    BY <1>2, <1>4, <1>7, <2>5, <2>6, <2>8
<1> QED
  BY <1>6, <1>7

(* No line of a plain request ends in a carriage return.                     *)
LEMMA ScannedPlain ==
    ASSUME NEW r, Writable(r), Plain(r)
    PROVE  AfterRead(r) = After(r) /\ Scanned(Format(r)) = Format(r)
<1>1. PICK h \in Seq(Seq(Pieces)) : h = r.headers
  BY LineTypes
<1>2. PICK b \in Seq(Seq(Pieces)) : b = r.body
  BY DEF Writable, Request, Text
<1>3. Scanned(h) = h
  <2>0. \A k \in 1..Len(h) : NoCR(h[k])
    BY <1>1 DEF Writable
  <2>1. ASSUME NEW k \in 1..Len(h)
        PROVE  DropCR(h[k]) = h[k]
    <3>1. h[k] \in Seq(Pieces) /\ NoCR(h[k])
      BY <1>1, <2>0
    <3> QED
      BY <3>1, NoCRKept
  <2> QED
    BY <2>1, ScannedIs
<1>4. Scanned(b) = b
  <2>0. \A k \in 1..Len(b) : b[k] # <<>> => Last(b[k]) # "CR"
    BY <1>2 DEF Plain
  <2>1. ASSUME NEW k \in 1..Len(b)
        PROVE  DropCR(b[k]) = b[k]
    <3>1. b[k] \in Seq(Pieces) /\ (b[k] # <<>> => Last(b[k]) # "CR")
      BY <1>2, <2>0
    <3> QED
      BY <3>1, DropCRIs
  <2> QED
    BY <2>1, ScannedIs
<1>5. PICK e \in Seq(Pieces) : e = <<>>
  BY NoLine
<1>6. Scanned(<<e>>) = <<e>> /\ <<e>> \in Seq(Seq(Pieces))
  <2>1. DropCR(e) = e
    BY <1>5 DEF DropCR
  <2> QED
    BY <2>1, ScannedOne
<1>7. PICK w \in Seq(Seq(Pieces)) : w = BodyLines(r) /\ Scanned(w) = w
  <2>1. CASE b = Empty
    <3>1. PICK w \in Seq(Seq(Pieces)) : w = <<>>
      BY NoLine
    <3>2. \A k \in 1..Len(w) : DropCR(w[k]) = w[k]
      BY <3>1
    <3>3. Scanned(w) = w
      BY <3>2, ScannedIs
    <3> QED
      BY <1>2, <2>1, <3>1, <3>3 DEF BodyLines
  <2>2. CASE b # Empty
    <3>1. Scanned(<<e>> \o b) = <<e>> \o b
      BY <1>4, <1>6, ScannedJoined
    <3>2. <<e>> \o b \in Seq(Seq(Pieces))
      BY <1>6, LinesJoined
    <3>3. BodyLines(r) = <<e>> \o b
      BY <1>2, <1>5, <2>2 DEF BodyLines, Empty
    <3> QED
      BY <3>1, <3>2, <3>3
  <2> QED
    BY <2>1, <2>2
<1>8. Scanned(h \o w) = h \o w
  BY <1>3, <1>7, ScannedJoined
<1>9. AfterRead(r) = After(r)
  BY <1>1, <1>7, <1>8 DEF AfterRead, After
<1> QED
  BY <1>9, ScannedLines, FormatLines

LEMMA OneSeparator ==
    ASSUME NEW r, Writable(r), \A k \in 1..Len(After(r)) : ~Separates(After(r)[k])
    PROVE  ~\E k \in 2..Len(Format(r)) : Separates(Format(r)[k])
<1>1. PICK L : L = Seq(Pieces)
  OBVIOUS
<1>2. PICK u \in Seq(L) : u = Before(r)
  BY <1>1, LineTypes
<1>3. PICK v \in Seq(L) : v = After(r)
  BY <1>1, LineTypes
<1>4. PICK s \in L : s = <<"###">>
  BY <1>1, LineTypes
<1>5. PICK f \in Seq(L) : f = <<s>> \o (u \o v) /\ f = Format(r)
  <2>1. <<s>> \in Seq(L) /\ u \o v \in Seq(L)
    BY OneLine, LinesJoined
  <2> QED
    BY <1>2, <1>3, <1>4, <2>1, LinesJoined, FormatLines
<1> SUFFICES ASSUME NEW k \in 2..Len(f)
             PROVE  ~Separates(f[k])
  BY <1>5
<1>6. /\ Len(f) = 1 + Len(u) + Len(v) /\ Len(u) \in Nat /\ Len(v) \in Nat
      /\ \A i \in 1..Len(u) : f[1 + i] = u[i]
      /\ \A i \in 1..Len(v) : f[1 + Len(u) + i] = v[i]
  BY <1>5
<1>7. CASE k <= 1 + Len(u)
  <2>1. k - 1 \in 1..Len(u) /\ k = 1 + (k - 1)
    BY <1>6, <1>7
  <2>2. ~Separates(u[k - 1])
    BY <1>2, <2>1, NoSeparatorBefore
  <2> QED
    BY <1>6, <2>1, <2>2
<1>8. CASE k > 1 + Len(u)
  <2>1. k - (1 + Len(u)) \in 1..Len(v) /\ k = 1 + Len(u) + (k - (1 + Len(u)))
    BY <1>6, <1>8
  <2>2. ~Separates(v[k - (1 + Len(u))])
    BY <1>3, <2>1
  <2> QED
    BY <1>6, <2>1, <2>2
<1> QED
  BY <1>6, <1>7, <1>8

LEMMA TrimNothing == Trim(<<>>) = <<>>
  BY DEF Trim, Full

LEMMA ReadsBack ==
    ASSUME NEW r, Writable(r), Plain(r)
    PROVE  ReadBlock(Scanned(Format(r))) =
               [request |-> r, errors |-> Unresolvable(r), alone |-> TRUE]
<1>1. PICK L : L = Seq(Pieces)
  OBVIOUS
<1>2. PICK q \in L : q = r.method \o r.url /\ q # <<>> /\ <<q[1]>> = r.method /\ Tail(q) = r.url
  BY <1>1, RequestLine
<1>3. PICK a \in Seq(L) : a = After(r)
  BY <1>1, LineTypes
<1>4. PICK h \in Seq(SomeLine) : h = r.headers
  BY DEF Writable, Request
<1>5. PICK b \in Seq(L) : b = r.body
  BY <1>1 DEF Writable, Request, Text
<1>6. ReadBlock(Scanned(Format(r))) = ReadFrom(<<q>> \o a, r.proxy, Format(r))
  <2>1. \A k \in 1..Len(After(r)) : ~Separates(After(r)[k])
    BY AfterPlain
  <2>2. PICK w \in Seq(Seq(Pieces)) :
           /\ ReadBlock(Scanned(Format(r))) =
                ReadFrom(<<r.method \o r.url>> \o w, r.proxy, Format(r))
           /\ (\A k \in 1..Len(After(r)) : ~Separates(After(r)[k])) => w = After(r)
    BY ReadBack, ScannedPlain
  <2> QED
    BY <1>2, <1>3, <2>1, <2>2
<1>7. PICK rest : rest = <<q>> \o a
  OBVIOUS
<1>8. Tail(rest) = a /\ rest[1] = q
  BY <1>7, TailOf
<1>9. \A k \in 1..Len(h) : h[k][1] \notin {"nameless", "#", "###"} /\ h[k] \in Range(h)
  <2>1. \A k \in 1..Len(h) : h[k][1] \notin {"nameless", "#", "###"}
    BY <1>4 DEF Plain
  <2>2. \A k \in 1..Len(h) : h[k] \in Range(h)
    BY DEF Range
  <2> QED
    BY <2>1, <2>2
<1>10. HeadersIn(rest) = h
  <2>1. HeadersIn(rest) = Among(h, {l \in Range(h) : ~Comments(l)})
    BY <1>3, <1>4, <1>8, AfterPlain DEF HeadersIn
  <2>2. \A k \in 1..Len(h) : h[k] \in {l \in Range(h) : ~Comments(l)}
    BY <1>9 DEF Comments, Begins
  <2> QED
    BY <2>1, <2>2, AmongAll
<1>11. Among(h, {l \in Range(h) : l[1] # "nameless"}) = h
  <2>1. \A k \in 1..Len(h) : h[k] \in {l \in Range(h) : l[1] # "nameless"}
    BY <1>9
  <2> QED
    BY <2>1, AmongAll
<1>12. BodyIn(rest) = IF b = Empty THEN <<>> ELSE b
  <2>1. Past(rest, Blank) = Past(a, Blank)
    BY <1>2, <1>7, PastLine
  <2> QED
    BY <1>3, <1>5, <2>1, AfterPlain DEF BodyIn
<1>13. OrEmpty(Trim(BodyIn(rest))) = b
  <2>1. CASE b = Empty
    BY <1>12, <2>1, TrimNothing DEF OrEmpty
  <2>2. CASE b # Empty
    <3>1. b # <<>> /\ b[1] # <<>> /\ Last(b) # <<>>
      BY <1>5, <2>2 DEF Plain, Writable, Request, Text
    <3>2. Trim(b) = b
      BY <3>1, TrimSame
    <3> QED
      BY <1>12, <2>2, <3>1, <3>2 DEF OrEmpty
  <2> QED
    BY <2>1, <2>2
<1>14. RequestIn(rest, r.proxy) = r
  <2>1. RequestIn(rest, r.proxy) =
          [method |-> r.method, url |-> r.url, proxy |-> r.proxy, headers |-> r.headers, body |-> r.body]
    BY <1>2, <1>4, <1>5, <1>8, <1>10, <1>11, <1>13 DEF RequestIn
  <2>2. r = [method |-> r.method, url |-> r.url, proxy |-> r.proxy, headers |-> r.headers, body |-> r.body]
    BY DEF Writable, Request
  <2> QED
    BY <2>1, <2>2
<1>15. HasErrors(rest, r.proxy) = Unresolvable(r)
  <2>1. rest[1][2] # "spaced"
    <3>1. PICK u \in SomeLine : u = r.url
      BY DEF Writable, Request
    <3>2. u \in Seq(Pieces) /\ Len(u) > 0 /\ Tail(q) = u
      <4>1. u \in Seq(Pieces) /\ u # <<>>
        BY DEF SomeLine
      <4>2. Len(u) > 0
        BY <4>1, EmptySeq
      <4> QED
        BY <1>2, <3>1, <4>1, <4>2
    <3>3. PICK t \in Seq(Pieces) : t = q /\ t # <<>>
      BY <1>1, <1>2
    <3>a. Len(t) > 0 /\ Len(Tail(t)) = Len(t) - 1
      BY <3>3, EmptySeq
    <3>b. Len(t) > 1 /\ Len(Tail(t)) > 0
      BY <3>2, <3>3, <3>a
    <3>c. Tail(t)[1] = t[2]
      BY <3>b
    <3>4. Tail(q)[1] = q[2]
      BY <3>3, <3>c
    <3> QED
      BY <1>8, <3>1, <3>2, <3>4 DEF Plain
  <2>2. ~Contains(BodyIn(rest), <<"> {%">>)
    <3>1. CASE b = Empty
      BY <1>12, <3>1 DEF Contains
    <3>2. CASE b # Empty
      BY <1>5, <1>12, <3>2 DEF Plain
    <3> QED
      BY <3>1, <3>2
  <2> QED
    <3>1. ~\E k \in 1..Len(HeadersIn(rest)) : HeadersIn(rest)[k][1] = "nameless"
      BY <1>9, <1>10
    <3>2. HasErrors(rest, r.proxy) <=> Unresolvable(RequestIn(rest, r.proxy))
      BY <2>1, <2>2, <3>1 DEF HasErrors
    <3>3. HasErrors(rest, r.proxy) <=> Unresolvable(r)
      BY <1>14, <3>2
    <3>4. HasErrors(rest, r.proxy) \in BOOLEAN /\ Unresolvable(r) \in BOOLEAN
      BY DEF HasErrors, Unresolvable
    <3> QED
      BY <3>3, <3>4
<1>16. (~\E k \in 2..Len(Format(r)) : Separates(Format(r)[k])) = TRUE
  BY AfterPlain, OneSeparator
<1> QED
  BY <1>6, <1>7, <1>14, <1>15, <1>16 DEF ReadFrom

(* The file that from-curl prints for a command reads back as the request    *)
(* that Parse returned, as one block, and has an error just if the URL or    *)
(* the proxy of the command is not absolute, unless that request holds what  *)
(* the file gives another meaning (formatBlock against the parser).          *)
THEOREM FileReadsBack == Spec => []FileHoldsRequest
<1>1. Converting => FileHoldsRequest
  BY ReadsBack DEF Converting, HasRequest, HasBlock, FileHoldsRequest, Converted
<1> QED
  BY <1>1, ConvertingAlways, PTL

-----------------------------------------------------------------------------
(* Without a warning, what Parse keeps of a kind is all there was of it, in  *)
(* the order of the command.                                                *)
LEMMA OfIs ==
    ASSUME NEW X, NEW s \in Seq(X), NEW kinds
    PROVE  Of(s, kinds) = Among(s, {a \in X : a.is \in kinds})
<1>1. \A k \in 1..Len(s) : s[k] \in {a \in Range(s) : a.is \in kinds}
                             <=> s[k] \in {a \in X : a.is \in kinds}
  BY DEF Range
<1> QED
  BY <1>1, AmongSame DEF Of

LEMMA OfTaken ==
    ASSUME NEW X, NEW s \in Seq(X), NEW kinds, NEW a \in X, a.is \in kinds
    PROVE  Of(Append(s, a), kinds) = Append(Of(s, kinds), a)
<1>1. PICK S : S = {x \in X : x.is \in kinds}
  OBVIOUS
<1>2. a \in S
  BY <1>1
<1>3. PICK t \in Seq(X) : t = Append(s, a)
  BY AppendProperties
<1>4. Of(t, kinds) = Among(t, S)
  BY <1>1, <1>3, OfIs
<1>5. Of(s, kinds) = Among(s, S)
  BY <1>1, OfIs
<1>6. Among(Append(s, a), S) = Append(Among(s, S), a)
  BY <1>2, AmongTaken
<1> QED
  BY <1>3, <1>4, <1>5, <1>6

LEMMA OfLeft ==
    ASSUME NEW X, NEW s \in Seq(X), NEW kinds, NEW a \in X, a.is \notin kinds
    PROVE  Of(Append(s, a), kinds) = Of(s, kinds)
<1>1. PICK S : S = {x \in X : x.is \in kinds}
  OBVIOUS
<1>2. a \notin S
  BY <1>1
<1>3. PICK t \in Seq(X) : t = Append(s, a)
  BY AppendProperties
<1>4. Of(t, kinds) = Among(t, S)
  BY <1>1, <1>3, OfIs
<1>5. Of(s, kinds) = Among(s, S)
  BY <1>1, OfIs
<1>6. Among(Append(s, a), S) = Among(s, S)
  BY <1>2, AmongLeft
<1> QED
  BY <1>3, <1>4, <1>5, <1>6

PickedAt(s, ks) == [j \in 1..Len(ks) |-> s[ks[j]]]
Within(s, ks) == ks \in Seq(Nat) /\ \A j \in 1..Len(ks) : ks[j] \in 1..Len(s)

LEMMA PickedType ==
    ASSUME NEW X, NEW s \in Seq(X), NEW ks, Within(s, ks)
    PROVE  /\ PickedAt(s, ks) \in Seq(X) /\ Len(PickedAt(s, ks)) = Len(ks)
           /\ \A j \in 1..Len(ks) : PickedAt(s, ks)[j] = s[ks[j]]
<1>1. Len(ks) \in Nat /\ \A j \in 1..Len(ks) : s[ks[j]] \in X
  BY DEF Within
<1> QED
  BY <1>1 DEF PickedAt

LEMMA PickedSame ==
    ASSUME NEW X, NEW s \in Seq(X), NEW ks, Within(s, ks), NEW a \in X
    PROVE  PickedAt(Append(s, a), ks) = PickedAt(s, ks)
<1>1. \A j \in 1..Len(ks) : Append(s, a)[ks[j]] = s[ks[j]]
  BY DEF Within
<1> QED
  BY <1>1 DEF PickedAt

LEMMA PickedLonger ==
    ASSUME NEW X, NEW s \in Seq(X), NEW ks, Within(s, ks), NEW a \in X,
           NEW n, n = Len(s) + 1
    PROVE  PickedAt(Append(s, a), Append(ks, n)) = Append(PickedAt(s, ks), a)
<1>1. PICK t \in Seq(X) : t = Append(s, a)
  BY AppendProperties
<1>2. Len(s) \in Nat /\ Len(t) = n /\ t[n] = a /\ n \in Nat /\ \A j \in 1..Len(s) : t[j] = s[j]
  BY <1>1
<1>3. PICK ms \in Seq(Nat) : ms = Append(ks, n)
  BY <1>2, AppendProperties DEF Within
<1>4. /\ Len(ms) = Len(ks) + 1 /\ ms[Len(ks) + 1] = n /\ Len(ks) \in Nat
      /\ \A j \in 1..Len(ks) : ms[j] = ks[j]
  BY <1>2, <1>3 DEF Within
<1>5. Within(t, ms)
  <2>1. ASSUME NEW j \in 1..Len(ms)
        PROVE  ms[j] \in 1..Len(t)
    <3>1. CASE j \in 1..Len(ks)
      <4>1. ms[j] \in 1..Len(s)
        BY <1>4, <3>1 DEF Within
      <4> QED
        BY <1>2, <4>1
    <3>2. CASE j \notin 1..Len(ks)
      <4>1. j = Len(ks) + 1
        BY <1>4, <3>2
      <4> QED
        BY <1>2, <1>4, <4>1
    <3> QED
      BY <3>1, <3>2
  <2> QED
    BY <1>3, <2>1 DEF Within
<1>6. PICK p \in Seq(X) : p = PickedAt(s, ks)
  BY PickedType
<1>7. PICK q \in Seq(X) : q = PickedAt(t, ms)
  BY <1>5, PickedType
<1>8. Len(p) = Len(ks) /\ \A j \in 1..Len(ks) : p[j] = s[ks[j]]
  BY <1>6, PickedType
<1>9. Len(q) = Len(ms) /\ \A j \in 1..Len(ms) : q[j] = t[ms[j]]
  BY <1>5, <1>7, PickedType
<1>10. ASSUME NEW j \in 1..Len(p)
       PROVE  q[j] = p[j]
  <2>1. j \in 1..Len(ks) /\ j \in 1..Len(ms) /\ ms[j] = ks[j]
    BY <1>4, <1>8
  <2>2. t[ks[j]] = s[ks[j]]
    BY <1>2, <2>1 DEF Within
  <2> QED
    BY <1>8, <1>9, <2>1, <2>2
<1>11. Len(q) = Len(p) + 1 /\ q[Len(q)] = a
  <2>1. Len(ms) \in 1..Len(ms)
    BY <1>4
  <2> QED
    BY <1>2, <1>4, <1>8, <1>9, <2>1
<1>12. q = Append(p, a)
  BY <1>10, <1>11, Extension
<1> QED
  BY <1>1, <1>3, <1>6, <1>7, <1>12

Rising(ks) == \A i, j \in 1..Len(ks) : i < j => ks[i] < ks[j]

HeadersOrdered(s, g) ==
    /\ Within(s, g.headers) /\ Rising(g.headers)
    /\ PickedAt(s, g.headers) = Of(s, HeaderKinds)

FormsOrdered(s, g) ==
    Within(s, g.forms) /\ PickedAt(s, g.forms) = Of(s, {"form"})

ValuesOrdered(s, g) ==
    /\ Within(s, g.data) /\ PickedAt(s, g.data) = Of(s, DataKinds)
    /\ \A j \in 1..Len(g.data) : ~NamesFile(s[g.data[j]])

FileOrdered(s, g) ==
    g.data = <<>> /\ g.file \in 1..Len(s) /\ Of(s, DataKinds) = <<s[g.file]>>

DataOrdered(s, g) ==
    IF g.file = 0 THEN ValuesOrdered(s, g) ELSE FileOrdered(s, g)

NoEmptyPaths(s) == \A k \in 1..Len(s) : ~EmptyPath(s[k])

Ordered ==
    got.warned = {} /\ NoEmptyPaths(seen) =>
        HeadersOrdered(seen, got) /\ FormsOrdered(seen, got) /\ DataOrdered(seen, got)

LEMMA WithinLonger ==
    ASSUME NEW X, NEW s \in Seq(X), NEW ks, Within(s, ks), NEW a \in X, NEW n, n = Len(s) + 1
    PROVE  Within(Append(s, a), ks) /\ Within(Append(s, a), Append(ks, n))
<1>1. PICK t \in Seq(X) : t = Append(s, a)
  BY AppendProperties
<1>2. Len(s) \in Nat /\ Len(t) = n /\ n \in Nat
  BY <1>1
<1>3. \A i \in 1..Len(s) : i \in 1..Len(t)
  BY <1>2
<1>4. n \in 1..Len(t)
  BY <1>2
<1>5. Within(t, ks)
  BY <1>3 DEF Within
<1>6. PICK ms \in Seq(Nat) : ms = Append(ks, n)
  BY <1>2, AppendProperties DEF Within
<1>7. \A j \in 1..Len(ms) : ms[j] = n \/ (j \in 1..Len(ks) /\ ms[j] = ks[j])
  BY <1>6 DEF Within
<1>8. Within(t, ms)
  BY <1>3, <1>4, <1>6, <1>7 DEF Within
<1> QED
  BY <1>1, <1>5, <1>6, <1>8

LEMMA RisingLonger ==
    ASSUME NEW s, NEW ks, Within(s, ks), Rising(ks), Len(s) \in Nat, NEW n, n = Len(s) + 1
    PROVE  Rising(Append(ks, n))
<1>1. ks \in Seq(Nat) /\ n \in Nat /\ \A j \in 1..Len(ks) : ks[j] \in Nat /\ ks[j] < n
  BY DEF Within
<1>2. PICK ms \in Seq(Nat) : ms = Append(ks, n)
  BY <1>1, AppendProperties
<1>3. /\ Len(ms) = Len(ks) + 1 /\ ms[Len(ks) + 1] = n /\ Len(ks) \in Nat
      /\ \A j \in 1..Len(ks) : ms[j] = ks[j]
  BY <1>1, <1>2
<1>4. ASSUME NEW i \in 1..Len(ms), NEW j \in 1..Len(ms), i < j
      PROVE  ms[i] < ms[j]
  <2>1. i \in 1..Len(ks) /\ ms[i] = ks[i]
    BY <1>3, <1>4
  <2>2. CASE j \in 1..Len(ks)
    BY <1>3, <1>4, <2>1, <2>2 DEF Rising
  <2>3. CASE j \notin 1..Len(ks)
    <3>1. j = Len(ks) + 1
      BY <1>3, <2>3
    <3> QED
      BY <1>1, <1>3, <2>1, <3>1
  <2> QED
    BY <2>2, <2>3
<1> QED
  BY <1>2, <1>4 DEF Rising

LEMMA OrderedInit == Init => Ordered
<1> SUFFICES ASSUME Init
             PROVE  Ordered
  OBVIOUS
<1>1. /\ seen = <<>> /\ got.headers = <<>> /\ got.forms = <<>> /\ got.data = <<>>
      /\ got.file = 0
  BY DEF Init, GotNothing
<1>2. PickedAt(<<>>, <<>>) = <<>> /\ Within(<<>>, <<>>) /\ Rising(<<>>)
  BY DEF PickedAt, Within, Rising
<1>3. \A kinds : Of(<<>>, kinds) = <<>>
  BY AmongNothing DEF Of
<1> QED
  BY <1>1, <1>2, <1>3 DEF Ordered, HeadersOrdered, FormsOrdered, DataOrdered, ValuesOrdered

LEMMA OrderedByReading ==
    ASSUME Ordered, Filed, NEW a \in Args, Effect(a)
    PROVE  Ordered'
<1> SUFFICES ASSUME got'.warned = {}, NoEmptyPaths(seen)'
             PROVE  /\ HeadersOrdered(seen, got)' /\ FormsOrdered(seen, got)'
                    /\ DataOrdered(seen, got)'
  BY DEF Ordered
<1>2. PICK s \in Seq(Args) : s = seen
  BY DEF Filed
<1>3. PICK n : n = Len(s) + 1
  OBVIOUS
<1>4. PICK t \in Seq(Args) : t = Append(s, a)
  BY AppendProperties
<1>5. seen' = t /\ n = here
  BY <1>2, <1>3, <1>4 DEF Effect, here
<1>6. Len(s) \in Nat /\ t[n] = a /\ n \in 1..Len(t) /\ \A k \in 1..Len(s) : t[k] = s[k] /\ k \in 1..Len(t)
  BY <1>3, <1>4
<1>a. NoEmptyPaths(s) /\ ~EmptyPath(a)
  <2>1. \A k \in 1..Len(t) : ~EmptyPath(t[k])
    BY <1>5 DEF NoEmptyPaths
  <2> QED
    BY <1>6, <2>1 DEF NoEmptyPaths
<1>1. HeadersOrdered(seen, got) /\ FormsOrdered(seen, got) /\ DataOrdered(seen, got)
  <2>1. got.warned = {}
    BY DEF Effect
  <2> QED
    BY <1>2, <1>a, <2>1 DEF Ordered
<1>7. HeadersOrdered(seen, got)'
  <2>1. PICK ks : /\ ks = got.headers /\ Within(s, ks) /\ Rising(ks)
                  /\ PickedAt(s, ks) = Of(s, HeaderKinds)
    BY <1>1, <1>2 DEF HeadersOrdered
  <2>2. CASE a.is \in HeaderKinds /\ got'.headers = Append(ks, n)
    <3>1. PickedAt(t, Append(ks, n)) = Append(Of(s, HeaderKinds), a)
      BY <1>2, <1>3, <1>4, <2>1, PickedLonger
    <3>2. Of(t, HeaderKinds) = Append(Of(s, HeaderKinds), a)
      BY <1>2, <1>4, <2>2, OfTaken
    <3>3. Within(t, Append(ks, n))
      BY <1>2, <1>3, <1>4, <2>1, WithinLonger
    <3>4. Rising(Append(ks, n))
      BY <1>3, <1>6, <2>1, RisingLonger
    <3> QED
      BY <1>5, <2>2, <3>1, <3>2, <3>3, <3>4 DEF HeadersOrdered
  <2>3. CASE a.is \notin HeaderKinds /\ got'.headers = ks
    <3>1. PickedAt(t, ks) = Of(s, HeaderKinds)
      BY <1>2, <1>4, <2>1, PickedSame
    <3>2. Of(t, HeaderKinds) = Of(s, HeaderKinds)
      BY <1>2, <1>4, <2>3, OfLeft
    <3>3. Within(t, ks)
      BY <1>2, <1>3, <1>4, <2>1, WithinLonger
    <3> QED
      BY <1>5, <2>1, <2>3, <3>1, <3>2, <3>3 DEF HeadersOrdered
  <2>4. \/ a.is \in HeaderKinds /\ got'.headers = Append(ks, n)
        \/ a.is \notin HeaderKinds /\ got'.headers = ks
    BY <1>5, <2>1 DEF Effect, HeaderEffect, TakenHeader
  <2> QED
    BY <2>2, <2>3, <2>4
<1>8. FormsOrdered(seen, got)'
  <2>1. PICK ks : ks = got.forms /\ Within(s, ks) /\ PickedAt(s, ks) = Of(s, {"form"})
    BY <1>1, <1>2 DEF FormsOrdered
  <2>2. CASE a.is \in {"form"} /\ got'.forms = Append(ks, n)
    <3>1. PickedAt(t, Append(ks, n)) = Append(Of(s, {"form"}), a)
      BY <1>2, <1>3, <1>4, <2>1, PickedLonger
    <3>2. Of(t, {"form"}) = Append(Of(s, {"form"}), a)
      BY <1>2, <1>4, <2>2, OfTaken
    <3>3. Within(t, Append(ks, n))
      BY <1>2, <1>3, <1>4, <2>1, WithinLonger
    <3> QED
      BY <1>5, <2>2, <3>1, <3>2, <3>3 DEF FormsOrdered
  <2>3. CASE a.is \notin {"form"} /\ got'.forms = ks
    <3>1. PickedAt(t, ks) = Of(s, {"form"})
      BY <1>2, <1>4, <2>1, PickedSame
    <3>2. Of(t, {"form"}) = Of(s, {"form"})
      BY <1>2, <1>4, <2>3, OfLeft
    <3>3. Within(t, ks)
      BY <1>2, <1>3, <1>4, <2>1, WithinLonger
    <3> QED
      BY <1>5, <2>3, <3>1, <3>2, <3>3 DEF FormsOrdered
  <2>4. \/ a.is \in {"form"} /\ got'.forms = Append(ks, n)
        \/ a.is \notin {"form"} /\ got'.forms = ks
    BY <1>5, <2>1 DEF Effect, FormEffect, TakenForm
  <2> QED
    BY <2>2, <2>3, <2>4
<1>9. DataOrdered(seen, got)'
  <2>1. PICK ks : ks = got.data
    OBVIOUS
  <2>2. CASE /\ a.is \in DataKinds /\ ~NamesFile(a) /\ got.file = 0
             /\ got'.file = 0 /\ got'.data = Append(ks, n)
    <3>1. /\ Within(s, ks) /\ PickedAt(s, ks) = Of(s, DataKinds)
          /\ \A j \in 1..Len(ks) : ~NamesFile(s[ks[j]])
      BY <1>1, <1>2, <2>1, <2>2 DEF DataOrdered, ValuesOrdered
    <3>2. PickedAt(t, Append(ks, n)) = Append(Of(s, DataKinds), a)
      BY <1>2, <1>3, <1>4, <3>1, PickedLonger
    <3>3. Of(t, DataKinds) = Append(Of(s, DataKinds), a)
      BY <1>2, <1>4, <2>2, OfTaken
    <3>4. Within(t, Append(ks, n))
      BY <1>2, <1>3, <1>4, <3>1, WithinLonger
    <3>5. ASSUME NEW j \in 1..Len(Append(ks, n))
          PROVE  ~NamesFile(t[Append(ks, n)[j]])
      <4>1. ks \in Seq(Nat) /\ n \in Nat
        BY <1>3, <1>6, <3>1 DEF Within
      <4>2. CASE j \in 1..Len(ks)
        <5>1. Append(ks, n)[j] = ks[j]
          BY <4>1, <4>2
        <5>2. t[ks[j]] = s[ks[j]]
          BY <1>6, <3>1, <4>2 DEF Within
        <5> QED
          BY <3>1, <4>2, <5>1, <5>2
      <4>3. CASE j \notin 1..Len(ks)
        <5>1. Append(ks, n)[j] = n
          BY <4>1, <4>3
        <5> QED
          BY <1>6, <2>2, <5>1
      <4> QED
        BY <4>2, <4>3
    <3>6. PICK ms : ms = Append(ks, n)
      OBVIOUS
    <3>7. ValuesOrdered(seen, got)'
      BY <1>5, <2>2, <3>2, <3>3, <3>4, <3>5, <3>6 DEF ValuesOrdered
    <3> QED
      BY <2>2, <3>7 DEF DataOrdered
  <2>3. CASE NamesFile(a) /\ got.file = 0 /\ ks = <<>> /\ got'.file = n /\ got'.data = <<>>
    <3>1. Of(s, DataKinds) = <<>>
      BY <1>1, <1>2, <2>1, <2>3 DEF DataOrdered, ValuesOrdered, PickedAt
    <3>2. Of(t, DataKinds) = Append(<<>>, a)
      <4>1. a.is \in DataKinds
        BY <2>3 DEF NamesFile, DataKinds
      <4>2. Of(Append(s, a), DataKinds) = Append(Of(s, DataKinds), a)
        BY <1>2, <4>1, OfTaken
      <4> QED
        BY <1>4, <3>1, <4>2
    <3>3. Append(<<>>, a) = <<a>>
      OBVIOUS
    <3>4. FileOrdered(seen, got)' /\ got'.file # 0
      BY <1>5, <1>6, <2>3, <3>2, <3>3 DEF FileOrdered
    <3> QED
      BY <3>4 DEF DataOrdered
  <2>4. CASE a.is \notin DataKinds /\ got'.file = got.file /\ got'.data = ks
    <3>1. Of(t, DataKinds) = Of(s, DataKinds)
      BY <1>2, <1>4, <2>4, OfLeft
    <3>2. CASE got.file = 0
      <4>1. /\ Within(s, ks) /\ PickedAt(s, ks) = Of(s, DataKinds)
            /\ \A j \in 1..Len(ks) : ~NamesFile(s[ks[j]])
        BY <1>1, <1>2, <2>1, <3>2 DEF DataOrdered, ValuesOrdered
      <4>2. PickedAt(t, ks) = Of(s, DataKinds)
        BY <1>2, <1>4, <4>1, PickedSame
      <4>3. Within(t, ks)
        BY <1>2, <1>3, <1>4, <4>1, WithinLonger
      <4>4. \A j \in 1..Len(ks) : ~NamesFile(t[ks[j]])
        BY <1>6, <4>1 DEF Within
      <4>5. ValuesOrdered(seen, got)'
        BY <1>5, <2>4, <3>1, <4>2, <4>3, <4>4 DEF ValuesOrdered
      <4> QED
        BY <2>4, <3>2, <4>5 DEF DataOrdered
    <3>3. CASE got.file # 0
      <4>1. PICK m : m = got.file
        OBVIOUS
      <4>2. ks = <<>> /\ m \in 1..Len(s) /\ Of(s, DataKinds) = <<s[m]>>
        BY <1>1, <1>2, <2>1, <3>3, <4>1 DEF DataOrdered, FileOrdered
      <4>3. t[m] = s[m] /\ m \in 1..Len(t)
        BY <1>6, <4>2
      <4>4. FileOrdered(seen, got)'
        BY <1>5, <2>4, <3>1, <4>1, <4>2, <4>3 DEF FileOrdered
      <4> QED
        BY <2>4, <3>3, <4>4 DEF DataOrdered
    <3> QED
      BY <3>2, <3>3
  <2> QED
    BY <1>5, <1>a, <2>1, <2>2, <2>3, <2>4 DEF Effect, DataEffect
<1> QED
  BY <1>7, <1>8, <1>9

LEMMA OrderedStep == Ordered /\ Filed /\ Kept /\ [Next]_vars => Ordered'
<1> SUFFICES ASSUME Ordered, Filed, Kept, [Next]_vars
             PROVE  Ordered'
  OBVIOUS
<1>1. CASE ReadArgument
  BY <1>1, EffectOf, OrderedByReading DEF ReadArgument
<1>2. CASE UNCHANGED <<seen, got>>
  BY <1>2 DEF Ordered, NoEmptyPaths
<1>3. CASE Build
  <2>1. got' = Settled /\ UNCHANGED seen
    BY <1>3 DEF Build
  <2>2. CASE got' = got
    BY <2>1, <2>2 DEF Ordered, NoEmptyPaths
  <2>3. CASE got' = [got EXCEPT !.data = <<>>, !.file = 0, !.warned = @ \cup {0}]
    <3>1. got \in Got
      BY DEF Kept, Sorted
    <3>2. got'.warned = got.warned \cup {0}
      BY <2>3, <3>1 DEF Got
    <3> QED
      BY <3>2 DEF Ordered
  <2> QED
    BY <2>1, <2>2, <2>3 DEF Settled
<1> QED
  BY <1>1, <1>2, <1>3 DEF Next, GiveUp, Refuse, WriteAndRead, ToCurl, vars

-----------------------------------------------------------------------------
(* Text in which nothing has a meaning in a file is sent as it is.           *)
NoVariable(l) == \A k \in 1..Len(l) : l[k] # "{{var}}"
CleanLines == {l \in Seq(Pieces) : NoVariable(l) /\ ~Begins(l, "<")}

LEMMA FillSame ==
    ASSUME NEW l \in Seq(Pieces), NoVariable(l)
    PROVE  Fill(l) = l
<1>1. PICK S : S = Range(l)
  OBVIOUS
<1>2. \A k \in 1..Len(l) : l[k] \in S /\ l[k] # "{{var}}"
  <2>1. \A k \in 1..Len(l) : l[k] \in S
    BY <1>1 DEF Range
  <2> QED
    BY <2>1 DEF NoVariable
<1>3. [k \in 1..Len(l) |-> IF l[k] = "{{var}}" THEN bound ELSE <<l[k]>>]
        = [k \in 1..Len(l) |-> IF l[k] \in S THEN <<l[k]>> ELSE <<>>]
  BY <1>2
<1>4. Fill(l) = Among(l, S)
  BY <1>3 DEF Fill, Among
<1>5. Among(l, S) = l
  BY <1>2, AmongAll
<1> QED
  BY <1>4, <1>5

LEMMA FillAllSame ==
    ASSUME NEW v \in Seq(Seq(Pieces)), \A k \in 1..Len(v) : NoVariable(v[k])
    PROVE  FillAll(v) = v
<1>1. \A k \in 1..Len(v) : Fill(v[k]) = v[k]
  BY FillSame
<1>2. FillAll(v) = [k \in 1..Len(v) |-> v[k]]
  BY <1>1 DEF FillAll
<1> QED
  BY <1>2

LEMMA FillHeadersSame ==
    ASSUME NEW v \in Seq(SomeLine), \A k \in 1..Len(v) : NoVariable(v[k])
    PROVE  FillHeaders(v) = v
<1>1. ASSUME NEW k \in 1..Len(v)
      PROVE  <<v[k][1]>> \o Fill(Tail(v[k])) = v[k]
  <2>1. PICK l \in Seq(Pieces) : l = v[k] /\ l # <<>>
    BY DEF SomeLine
  <2>2. /\ Tail(l) \in Seq(Pieces) /\ l = <<l[1]>> \o Tail(l)
        /\ Len(Tail(l)) = Len(l) - 1 /\ Len(l) > 0
        /\ \A i \in 1..(Len(l) - 1) : Tail(l)[i] = l[i + 1]
    BY <2>1, FirstOf
  <2>3. NoVariable(l)
    BY <2>1
  <2>4. NoVariable(Tail(l))
    <3>1. ASSUME NEW i \in 1..Len(Tail(l))
          PROVE  Tail(l)[i] # "{{var}}"
      <4>1. i + 1 \in 1..Len(l) /\ Tail(l)[i] = l[i + 1]
        BY <2>2
      <4> QED
        BY <2>3, <4>1 DEF NoVariable
    <3> QED
      BY <3>1 DEF NoVariable
  <2>5. Fill(Tail(l)) = Tail(l)
    BY <2>2, <2>4, FillSame
  <2> QED
    BY <2>1, <2>2, <2>5
<1>2. FillHeaders(v) = [k \in 1..Len(v) |-> v[k]]
  BY <1>1 DEF FillHeaders
<1> QED
  BY <1>2

LEMMA SpliceSame ==
    ASSUME NEW v \in Seq(Seq(Pieces)), \A k \in 1..Len(v) : ~Begins(v[k], "<")
    PROVE  Splice(v) = v
<1>1. Splice(v) = [k \in 1..Len(v) |-> v[k]]
  BY DEF Splice
<1> QED
  BY <1>1

LEMMA CleanClosed == Closed(CleanLines)
<1>1. CleanLines \subseteq Seq(Pieces)
  BY DEF CleanLines
<1>2. ASSUME NEW l \in CleanLines, NEW m \in CleanLines
      PROVE  (l \o <<"&">>) \o m \in CleanLines
  <2>1. l \in Seq(Pieces) /\ m \in Seq(Pieces) /\ NoVariable(l) /\ NoVariable(m) /\ ~Begins(l, "<")
    BY DEF CleanLines
  <2>2. PICK p \in Pieces : p = "&"
    BY PiecesAssumption
  <2>3. PICK w \in Seq(Pieces) : w = (l \o <<p>>) \o m
    BY <2>1, <2>2, OneLine, LinesJoined
  <2>4. /\ Len(w) = Len(l) + 1 + Len(m) /\ w[Len(l) + 1] = p
        /\ \A i \in 1..Len(l) : w[i] = l[i]
    BY <2>1, <2>2, <2>3, Middle
  <2>5. \A i \in 1..Len(m) : w[Len(l) + 1 + i] = m[i]
    BY <2>1, <2>2, <2>3
  <2>6. NoVariable(w)
    <3>1. ASSUME NEW i \in 1..Len(w)
          PROVE  w[i] # "{{var}}"
      <4>1. CASE i \in 1..Len(l)
        BY <2>1, <2>4, <4>1 DEF NoVariable
      <4>2. CASE i = Len(l) + 1
        BY <2>2, <2>4, <4>2
      <4>3. CASE i \notin 1..Len(l) /\ i # Len(l) + 1
        <5>1. PICK n \in Nat : n = Len(l)
          BY <2>1
        <5>2. i - (n + 1) \in 1..Len(m) /\ i = n + 1 + (i - (n + 1))
          BY <2>1, <2>4, <4>3, <5>1
        <5> QED
          BY <2>1, <2>5, <5>1, <5>2 DEF NoVariable
      <4> QED
        BY <4>1, <4>2, <4>3
    <3> QED
      BY <3>1 DEF NoVariable
  <2>7. ~Begins(w, "<")
    <3>1. CASE l = <<>>
      <4>1. w[1] = "&"
        BY <2>2, <2>4, <3>1
      <4> QED
        BY <4>1 DEF Begins
    <3>2. CASE l # <<>>
      <4>1. Len(l) > 0 /\ w[1] = l[1]
        BY <2>1, <2>4, <3>2
      <4> QED
        BY <2>1, <4>1 DEF Begins
    <3> QED
      BY <3>1, <3>2
  <2> QED
    BY <2>2, <2>3, <2>6, <2>7 DEF CleanLines
<1> QED
  BY <1>1, <1>2 DEF Closed

LEMMA SeqInto ==
    ASSUME NEW X, NEW C, NEW v \in Seq(X), \A j \in 1..Len(v) : v[j] \in C
    PROVE  v \in Seq(C)
  OBVIOUS

(* Values of a command that SendsAsCurl speaks of.                           *)
CleanValue(a) ==
    /\ a.value \in Seq(CleanLines) /\ \A j \in 1..Len(a.value) : NoVariable(a.value[j])
    /\ ~Mentions(a.value, "bare") /\ ~Mentions(a.value, "CR")

LEMMA LiteralClean ==
    ASSUME NEW s \in Seq(Args), Literal(s), NEW k \in 1..Len(s)
    PROVE  CleanValue(s[k])
<1>1. PICK a \in Args : a = s[k]
  OBVIOUS
<1>2. /\ ~Mentions(a.value, "{{var}}") /\ ~Mentions(a.value, "bare") /\ ~Mentions(a.value, "CR")
      /\ \A j \in 1..Len(a.value) : ~Begins(a.value[j], "<")
  BY <1>1 DEF Literal
<1>3. PICK v \in Seq(Seq(Pieces)) : v = a.value
  BY <1>1, ValueLines
<1>4. \A j \in 1..Len(v) : NoVariable(v[j])
  BY <1>2, <1>3 DEF Mentions, Contains, NoVariable
<1>5. \A j \in 1..Len(v) : v[j] \in CleanLines
  <2>1. \A j \in 1..Len(v) : v[j] \in Seq(Pieces)
    BY <1>3
  <2> QED
    BY <1>2, <1>3, <1>4, <2>1 DEF CleanLines
<1>6. v \in Seq(CleanLines)
  <2>1. PICK L : L = Seq(Pieces)
    OBVIOUS
  <2>2. v \in Seq(L)
    BY <1>3, <2>1
  <2> QED
    BY <1>5, <2>2, SeqInto
<1> QED
  BY <1>1, <1>2, <1>3, <1>4, <1>6 DEF CleanValue

-----------------------------------------------------------------------------
(* What Parse keeps one of, when the command has no more than one.           *)
LEMMA OneKind ==
    ASSUME NEW s \in Seq(Args), NEW kinds, NEW m \in 0..Len(s),
           m # 0 => s[m].is \in kinds,
           \A k \in 1..Len(s) : s[k].is \in kinds => m # 0,
           Len(Of(s, kinds)) <= 1
    PROVE  /\ Of(s, kinds) = IF m = 0 THEN <<>> ELSE <<s[m]>>
           /\ \A k \in 1..Len(s) : s[k].is \in kinds => k = m
<1>1. PICK S : S = {a \in Args : a.is \in kinds}
  OBVIOUS
<1>2. Of(s, kinds) = Among(s, S)
  BY <1>1, OfIs
<1>3. \A k \in 1..Len(s) : s[k] \in S <=> s[k].is \in kinds
  BY <1>1
<1>4. CASE m = 0
  <2>1. \A k \in 1..Len(s) : s[k] \notin S
    BY <1>3, <1>4
  <2>2. Among(s, S) = <<>>
    BY <2>1, AmongNone
  <2> QED
    BY <1>2, <1>4, <2>2
<1>5. CASE m # 0
  <2>1. m \in 1..Len(s) /\ s[m] \in S
    BY <1>3, <1>5
  <2>2. Len(Among(s, S)) <= 1
    BY <1>2
  <2>3. Among(s, S) = <<s[m]>> /\ \A j \in 1..Len(s) : s[j] \in S => j = m
    BY <2>1, <2>2, AmongOne
  <2> QED
    BY <1>2, <1>3, <1>5, <2>3
<1> QED
  BY <1>4, <1>5

Unwarned ==
    /\ Kept /\ Filed /\ Ordered /\ ParsesAs(got)
    /\ Unambiguous /\ Literal(seen) /\ SentTheSame(seen) /\ NoEmptyPaths(seen)

LEMMA PlacedAmong ==
    ASSUME Unwarned, NEW k \in 1..Len(seen)
    PROVE  /\ seen[k].is \in {"method", "head"} => got.method # 0
           /\ seen[k].is = "proxy" => got.proxy # 0
<1>1. Placed(k) /\ got.warned = {} /\ Len(seen) \in Nat /\ got \in Got
  BY DEF Unwarned, Kept, Sorted, Unambiguous
<1>2. got.method \in Nat /\ got.proxy \in Nat
  BY <1>1 DEF Got
<1> SUFFICES ASSUME seen[k].is \in {"method", "head", "proxy"}
             PROVE  \/ seen[k].is \in {"method", "head"} /\ got.method # 0
                    \/ seen[k].is = "proxy" /\ got.proxy # 0
  OBVIOUS
<1>3. ~Contains(got.headers, k) /\ ~Contains(got.data, k) /\ ~Contains(got.forms, k)
  <2>1. \A j \in 1..Len(got.headers) : seen[got.headers[j]].is \in {"header", "agent", "user"}
    BY DEF Unwarned, Filed, TakenHeader, HeaderKinds
  <2>2. \A j \in 1..Len(got.data) : seen[got.data[j]].is \in DataKinds
    BY DEF Unwarned, Kept, Sorted
  <2>3. \A j \in 1..Len(got.forms) : seen[got.forms[j]].is = "form"
    BY DEF Unwarned, Filed, TakenForm
  <2>4. ~Contains(got.headers, k)
    BY <2>1 DEF Contains
  <2>5. ~Contains(got.data, k)
    BY <2>2 DEF Contains
  <2>6. ~Contains(got.forms, k)
    BY <2>3 DEF Contains
  <2> QED
    BY <2>4, <2>5, <2>6
<1>4. k # got.url /\ k # got.file
  BY DEF Unwarned, Kept, Sorted
<1>5. CASE k \in {got.method, got.proxy}
  BY <1>2, <1>5 DEF Unwarned, Kept, Sorted
<1>a. ~EmptyPath(seen[k])
  BY DEF Unwarned, NoEmptyPaths
<1>6. CASE k \notin {got.method, got.proxy}
  BY <1>1, <1>2, <1>3, <1>4, <1>6, <1>a DEF Placed
<1> QED
  BY <1>5, <1>6

LEMMA MethodFound ==
    ASSUME Unwarned
    PROVE  /\ Of(seen, {"method", "head"}) = IF got.method = 0 THEN <<>> ELSE <<seen[got.method]>>
           /\ \A k \in 1..Len(seen) : seen[k].is \in {"method", "head"} => k = got.method
<1>1. PICK s \in Seq(Args) : s = seen
  BY DEF Unwarned, Filed
<1>2. PICK m \in 0..Len(s) : m = got.method /\ (m # 0 => s[m].is \in {"method", "head"})
  BY <1>1 DEF Unwarned, ParsesAs
<1>3. \A k \in 1..Len(s) : s[k].is \in {"method", "head"} => m # 0
  BY <1>1, <1>2, PlacedAmong
<1>4. Len(Of(s, {"method", "head"})) <= 1
  BY <1>1 DEF Unwarned, Unambiguous
<1>5. PICK kinds : kinds = {"method", "head"}
  OBVIOUS
<1>6. /\ Of(s, kinds) = IF m = 0 THEN <<>> ELSE <<s[m]>>
      /\ \A k \in 1..Len(s) : s[k].is \in kinds => k = m
  BY <1>2, <1>3, <1>4, <1>5, OneKind
<1> QED
  BY <1>1, <1>2, <1>5, <1>6

LEMMA ProxyFound ==
    ASSUME Unwarned
    PROVE  Of(seen, {"proxy"}) = IF got.proxy = 0 THEN <<>> ELSE <<seen[got.proxy]>>
<1>1. PICK s \in Seq(Args) : s = seen
  BY DEF Unwarned, Filed
<1>2. PICK m \in 0..Len(s) : m = got.proxy /\ (m # 0 => s[m].is \in {"proxy"})
  BY <1>1 DEF Unwarned, ParsesAs
<1>3. \A k \in 1..Len(s) : s[k].is \in {"proxy"} => m # 0
  BY <1>1, <1>2, PlacedAmong
<1>4. Len(Of(s, {"proxy"})) <= 1
  BY <1>1 DEF Unwarned, Unambiguous
<1>5. PICK kinds : kinds = {"proxy"}
  OBVIOUS
<1>6. Of(s, kinds) = IF m = 0 THEN <<>> ELSE <<s[m]>>
  BY <1>2, <1>3, <1>4, <1>5, OneKind
<1> QED
  BY <1>1, <1>2, <1>5, <1>6

LEMMA UrlFound ==
    ASSUME Unwarned, seen[got.url].is # "dashes"
    PROVE  Of(seen, {"url", "positional"}) = <<seen[got.url]>>
<1>1. PICK s \in Seq(Args) : s = seen
  BY DEF Unwarned, Filed
<1>2. PICK m \in 1..Len(s) : m = got.url /\ s[m].is \in {"url", "positional"}
  BY <1>1 DEF Unwarned, ParsesAs
<1>3. PICK kinds : kinds = {"url", "positional"}
  OBVIOUS
<1>4. Len(Of(s, kinds)) <= 1
  BY <1>1, <1>3 DEF Unwarned, Unambiguous
<1>5. m \in 0..Len(s) /\ m # 0
  BY <1>2
<1>6. Of(s, kinds) = IF m = 0 THEN <<>> ELSE <<s[m]>>
  BY <1>2, <1>3, <1>4, <1>5, OneKind
<1> QED
  BY <1>1, <1>2, <1>3, <1>5, <1>6

LEMMA OfNone ==
    ASSUME NEW X, NEW s \in Seq(X), NEW kinds, \A k \in 1..Len(s) : s[k].is \notin kinds
    PROVE  Of(s, kinds) = <<>>
<1>1. PICK S : S = {a \in X : a.is \in kinds}
  OBVIOUS
<1>2. \A k \in 1..Len(s) : s[k] \notin S
  BY <1>1
<1>3. Among(s, S) = <<>>
  BY <1>2, AmongNone
<1> QED
  BY <1>1, <1>3, OfIs

LEMMA OfSome ==
    ASSUME NEW X, NEW s \in Seq(X), NEW kinds, NEW k \in 1..Len(s), s[k].is \in kinds
    PROVE  Of(s, kinds) # <<>>
<1>1. PICK S : S = {a \in X : a.is \in kinds}
  OBVIOUS
<1>2. s[k] \in S
  BY <1>1
<1>3. Among(s, S) # <<>>
  BY <1>2, AmongSome
<1> QED
  BY <1>1, <1>3, OfIs

BodyKinds == {"form"} \cup DataKinds
HasBody == got.data # <<>> \/ got.file # 0 \/ got.forms # <<>>

LEMMA FormsFound ==
    ASSUME Unwarned
    PROVE  /\ Of(seen, {"form"}) = PickedAt(seen, got.forms)
           /\ Of(seen, {"form"}) # <<>> <=> got.forms # <<>>
           /\ Len(Of(seen, {"form"})) = Len(got.forms)
           /\ \A j \in 1..Len(got.forms) :
                /\ Of(seen, {"form"})[j] = seen[got.forms[j]]
                /\ got.forms[j] \in 1..Len(seen) /\ TakenForm(seen[got.forms[j]])
<1>1. PICK s \in Seq(Args) : s = seen
  BY DEF Unwarned, Filed
<1>2. PICK ks : ks = got.forms
  OBVIOUS
<1>3. Within(s, ks) /\ PickedAt(s, ks) = Of(s, {"form"})
  BY <1>1, <1>2 DEF Unwarned, Unambiguous, Ordered, FormsOrdered
<1>4. PICK f \in Seq(Args) : f = PickedAt(s, ks)
  BY <1>3, PickedType
<1>5. Len(f) = Len(ks) /\ \A j \in 1..Len(ks) : f[j] = s[ks[j]]
  BY <1>3, <1>4, PickedType
<1>6. f # <<>> <=> ks # <<>>
  <2>1. f = <<>> <=> Len(f) = 0
    BY EmptySeq
  <2>2. ks = <<>> <=> Len(ks) = 0
    BY <1>3, EmptySeq DEF Within
  <2> QED
    BY <1>5, <2>1, <2>2
<1>7. \A j \in 1..Len(ks) : ks[j] \in 1..Len(s) /\ TakenForm(s[ks[j]])
  BY <1>1, <1>2 DEF Unwarned, Filed
<1> QED
  BY <1>1, <1>2, <1>3, <1>4, <1>5, <1>6, <1>7

LEMMA DataFound ==
    ASSUME Unwarned
    PROVE  Of(seen, DataKinds) # <<>> <=> got.data # <<>> \/ got.file # 0
<1>1. PICK s \in Seq(Args) : s = seen
  BY DEF Unwarned, Filed
<1>2. PICK ks : ks = got.data
  OBVIOUS
<1>3. DataOrdered(s, got)
  BY <1>1 DEF Unwarned, Unambiguous, Ordered
<1>4. CASE got.file = 0
  <2>1. Within(s, ks) /\ PickedAt(s, ks) = Of(s, DataKinds)
    BY <1>2, <1>3, <1>4 DEF DataOrdered, ValuesOrdered
  <2>2. PICK f \in Seq(Args) : f = PickedAt(s, ks)
    BY <2>1, PickedType
  <2>3. Len(f) = Len(ks)
    BY <2>1, <2>2, PickedType
  <2>4. f = <<>> <=> Len(f) = 0
    BY EmptySeq
  <2>5. ks = <<>> <=> Len(ks) = 0
    BY <2>1, EmptySeq DEF Within
  <2> QED
    BY <1>1, <1>2, <1>4, <2>1, <2>2, <2>3, <2>4, <2>5
<1>5. CASE got.file # 0
  <2>1. Of(s, DataKinds) = <<s[got.file]>>
    BY <1>3, <1>5 DEF DataOrdered, FileOrdered
  <2>2. <<s[got.file]>> # <<>>
    OBVIOUS
  <2> QED
    BY <1>1, <1>5, <2>1, <2>2
<1> QED
  BY <1>4, <1>5

LEMMA BodyFound ==
    ASSUME Unwarned
    PROVE  Of(seen, BodyKinds) # <<>> <=> HasBody
<1>1. PICK s \in Seq(Args) : s = seen
  BY DEF Unwarned, Filed
<1>2. Of(s, BodyKinds) # <<>> <=> \E k \in 1..Len(s) : s[k].is \in BodyKinds
  BY OfSome, OfNone
<1>3. Of(s, {"form"}) # <<>> <=> \E k \in 1..Len(s) : s[k].is \in {"form"}
  BY OfSome, OfNone
<1>4. Of(s, DataKinds) # <<>> <=> \E k \in 1..Len(s) : s[k].is \in DataKinds
  BY OfSome, OfNone
<1>5. \A x : x \in BodyKinds <=> x \in {"form"} \/ x \in DataKinds
  BY DEF BodyKinds, DataKinds
<1> QED
  BY <1>1, <1>2, <1>3, <1>4, <1>5, FormsFound, DataFound DEF HasBody

LEMMA MethodSent ==
    ASSUME Unwarned
    PROVE  MethodOf(got) = CurlMethod(seen)
<1>1. PICK s \in Seq(Args) : s = seen
  BY DEF Unwarned, Filed
<1>2. PICK m \in 0..Len(s) : m = got.method /\ (m # 0 => s[m].is \in {"method", "head"})
  BY <1>1 DEF Unwarned, ParsesAs
<1>3. \A k \in 1..Len(s) : s[k].is \in {"method", "head"} => k = m
  BY <1>1, <1>2, MethodFound
<1>4. PICK S : S = {a \in Range(s) : a.is = "method" /\ a.value # Empty}
  OBVIOUS
<1>5. PICK given \in Seq(Args) : given = Among(s, S)
  BY AmongType
<1>6. CurlMethod(s) = IF given # <<>> THEN Last(given).value[1]
                      ELSE IF Of(s, {"head"}) # <<>> THEN <<"HEAD">>
                      ELSE IF Of(s, BodyKinds) # <<>> THEN <<"POST">> ELSE <<"GET">>
  BY <1>4, <1>5 DEF CurlMethod, BodyKinds
<1>7. CASE m = 0
  <2>1. \A k \in 1..Len(s) : s[k].is \notin {"method", "head"}
    BY <1>3, <1>7
  <2>2. given = <<>>
    <3>1. \A k \in 1..Len(s) : s[k] \notin S
      BY <1>4, <2>1
    <3> QED
      BY <1>5, <3>1, AmongNone
  <2>3. Of(s, {"head"}) = <<>>
    <3>1. \A k \in 1..Len(s) : s[k].is \notin {"head"}
      BY <2>1
    <3> QED
      BY <3>1, OfNone
  <2>4. ~Explicit(got.method)
    BY <1>2, <1>7 DEF Explicit
  <2>5. MethodOf(got) = IF HasBody THEN <<"POST">> ELSE <<"GET">>
    BY <2>4 DEF MethodOf, HasBody
  <2> QED
    BY <1>1, <1>6, <2>2, <2>3, <2>5, BodyFound
<1>8. CASE m # 0 /\ s[m].is = "head"
  <2>1. m \in 1..Len(s)
    BY <1>8
  <2>2. \A k \in 1..Len(s) : s[k].is # "method"
    BY <1>3, <1>8
  <2>3. given = <<>>
    <3>1. \A k \in 1..Len(s) : s[k] \notin S
      BY <1>4, <2>2
    <3> QED
      BY <1>5, <3>1, AmongNone
  <2>4. Of(s, {"head"}) # <<>>
    BY <1>8, <2>1, OfSome
  <2>5. MethodOf(got) = <<"HEAD">>
    BY <1>1, <1>2, <1>8 DEF MethodOf, Explicit
  <2> QED
    BY <1>1, <1>6, <2>3, <2>4, <2>5
<1>9. CASE m # 0 /\ s[m].is = "method"
  <2>1. m \in 1..Len(s)
    BY <1>9
  <2>2. s[m].value # Empty
    BY <1>1, <1>9, <2>1 DEF Unwarned, Unambiguous
  <2>3. s[m] \in S
    <3>1. s[m] \in Range(s)
      BY <2>1 DEF Range
    <3> QED
      BY <1>4, <1>9, <2>2, <3>1
  <2>4. \A k \in 1..Len(s) : s[k] \in S => k = m
    BY <1>3, <1>4
  <2>5. given = <<s[m]>>
    BY <1>5, <2>1, <2>3, <2>4, AmongOnly
  <2>6. given # <<>> /\ Last(given) = s[m]
    BY <2>5 DEF Last
  <2>7. MethodOf(got) = s[m].value[1]
    <3>1. MethodOf(got) = Upper(s[m].value[1])
      BY <1>1, <1>2, <1>9, <2>2 DEF MethodOf, Explicit
    <3>2. Upper(s[m].value[1]) = s[m].value[1]
      BY <1>1, <1>9, <2>1 DEF Unwarned, SentTheSame
    <3> QED
      BY <3>1, <3>2
  <2> QED
    BY <1>1, <1>6, <2>6, <2>7
<1> QED
  BY <1>2, <1>7, <1>8, <1>9

LEMMA FirstNumbers ==
    /\ \A k \in 1..1 : k = 1
    /\ \A k \in 1..2 : k = 1 \/ k = 2
    /\ \A k \in 1..3 : k = 1 \/ k = 2 \/ k = 3
  OBVIOUS

LEMMA NoVariableInTwo ==
    ASSUME NEW p, NEW q, p # "{{var}}", q # "{{var}}"
    PROVE  NoVariable(<<p, q>>)
<1>1. PICK w : w = <<p, q>>
  OBVIOUS
<1>2. Len(w) = 2 /\ w[1] = p /\ w[2] = q
  BY <1>1
<1> QED
  BY <1>1, <1>2, FirstNumbers DEF NoVariable

LEMMA NoVariableInThree ==
    ASSUME NEW p, NEW q, NEW r, p # "{{var}}", q # "{{var}}", r # "{{var}}"
    PROVE  NoVariable(<<p, q, r>>)
<1>1. PICK w : w = <<p, q, r>>
  OBVIOUS
<1>2. Len(w) = 3 /\ w[1] = p /\ w[2] = q /\ w[3] = r
  BY <1>1
<1> QED
  BY <1>1, <1>2, FirstNumbers DEF NoVariable

HeaderLines(args) == [k \in 1..Len(args) |-> HeaderLine(args[k])]

LEMMA HeaderAsIs ==
    ASSUME NEW a \in Args, CleanValue(a), TakenHeader(a)
    PROVE  /\ HeaderLine(a) = CurlHeader(a)
           /\ a.is = "header" => HeaderLine(a) = a.value[1]
<1>1. CASE a.is = "header"
  <2>1. PICK l \in Seq(Pieces) : l = a.value[1]
    BY ValueLines
  <2>2. NoCR(l)
    <3>1. 1 \in 1..Len(a.value)
      BY ValueLines
    <3>2. ~Contains(l, "CR")
      BY <2>1, <3>1 DEF CleanValue, Mentions
    <3> QED
      BY <3>2 DEF Contains, NoCR
  <2>3. TrimEnd(l) = l
    BY <2>2, TrimEndIs
  <2> QED
    BY <1>1, <2>1, <2>3 DEF HeaderLine, CurlHeader
<1>2. CASE a.is # "header"
  BY <1>2 DEF HeaderLine, CurlHeader, TakenHeader, HeaderKinds
<1> QED
  BY <1>1, <1>2

(* A header of the command that another would replace.                       *)
LEMMA AgentName ==
    ASSUME NEW a \in Args, a.is \in {"agent", "user"}
    PROVE  CurlHeader(a)[1] \in {"User-Agent", "Authorization"}
<1>1. CASE a.is = "agent"
  <2>1. PICK p \in Pieces : p = "User-Agent"
    BY PiecesAssumption
  <2>2. PICK l \in Seq(Pieces) : l = a.value[1]
    BY ValueLines
  <2>3. (<<p>> \o l)[1] = p
    BY TailOf
  <2>4. CurlHeader(a) = <<p>> \o l
    BY <1>1, <2>1, <2>2 DEF CurlHeader
  <2> QED
    BY <2>1, <2>3, <2>4
<1>2. CASE a.is = "user"
  <2>1. CurlHeader(a) = <<"Authorization", "encoded">>
    BY <1>2 DEF CurlHeader
  <2> QED
    BY <2>1
<1> QED
  BY <1>1, <1>2

LEMMA OnceOnly ==
    ASSUME NEW s \in Seq(Args), NEW is, Len(Of(s, {is})) <= 1,
           NEW i \in 1..Len(s), NEW j \in 1..Len(s), s[i].is = is, s[j].is = is
    PROVE  i = j
<1>1. PICK kinds : kinds = {is}
  OBVIOUS
<1>2. /\ i \in 0..Len(s) /\ i # 0 /\ s[i].is \in kinds /\ s[j].is \in kinds
      /\ Len(Of(s, kinds)) <= 1
  BY <1>1
<1>3. \A k \in 1..Len(s) : s[k].is \in kinds => k = i
  BY <1>2, OneKind
<1> QED
  BY <1>2, <1>3

LEMMA NoneGivesWay ==
    ASSUME Unwarned, NEW sent \in Seq(Args), NEW ks, Within(seen, ks), Rising(ks),
           sent = PickedAt(seen, ks),
           \A j \in 1..Len(sent) : TakenHeader(sent[j]),
           NEW k \in 1..Len(sent)
    PROVE  ~GivesWay(sent, k)
<1>1. PICK s \in Seq(Args) : s = seen
  BY DEF Unwarned, Filed
<1>2. Len(sent) = Len(ks) /\ \A j \in 1..Len(ks) : sent[j] = s[ks[j]]
  BY <1>1, PickedType
<1>3. \A j \in 1..Len(sent) : ks[j] \in 1..Len(s) /\ sent[j] = s[ks[j]]
  BY <1>1, <1>2 DEF Within
<1> SUFFICES ASSUME sent[k].is # "header", NEW j \in 1..Len(sent),
                    \/ j > k /\ sent[j].is = sent[k].is
                    \/ /\ sent[j].is = "header"
                       /\ CurlHeader(sent[j])[1] = CurlHeader(sent[k])[1]
             PROVE  FALSE
  BY DEF GivesWay
<1>4. sent[k].is \in {"agent", "user"} /\ sent[k] \in Args
  BY DEF TakenHeader, HeaderKinds
<1>5. CASE j > k /\ sent[j].is = sent[k].is
  <2>1. ks[k] < ks[j]
    BY <1>2, <1>5 DEF Rising
  <2>2. PICK is : is = sent[k].is /\ is \in {"agent", "user"}
    BY <1>4
  <2>3. Len(Of(s, {is})) <= 1
    BY <1>1, <2>2 DEF Unwarned, Unambiguous
  <2>4. ks[k] = ks[j]
    <3>1. PICK x \in 1..Len(s), y \in 1..Len(s) : x = ks[k] /\ y = ks[j]
      BY <1>3
    <3>2. s[x].is = is /\ s[y].is = is
      BY <1>3, <1>5, <2>2, <3>1
    <3>3. x = y
      BY <2>3, <3>2, OnceOnly
    <3> QED
      BY <3>1, <3>3
  <2>5. ks[k] \in Nat
    BY <1>3
  <2> QED
    BY <2>1, <2>4, <2>5
<1>6. CASE /\ sent[j].is = "header"
           /\ CurlHeader(sent[j])[1] = CurlHeader(sent[k])[1]
  <2>1. CurlHeader(sent[k])[1] \in {"User-Agent", "Authorization"}
    BY <1>4, AgentName
  <2>2. CurlHeader(sent[j]) = sent[j].value[1]
    BY <1>6 DEF CurlHeader
  <2>3. PICK i \in 1..Len(s) : i = ks[j] /\ s[i] = sent[j]
    BY <1>3
  <2>4. s[i].value[1][1] \notin {"User-Agent", "Authorization"}
    BY <1>1, <1>6, <2>3 DEF Unwarned, Literal
  <2> QED
    BY <1>6, <2>1, <2>2, <2>3, <2>4
<1> QED
  BY <1>5, <1>6

LEMMA HeadersSent ==
    ASSUME Unwarned
    PROVE  /\ HeadersOf(got) = CurlHeaders(seen)
           /\ FillHeaders(HeadersOf(got)) = HeadersOf(got)
<1>1. PICK s \in Seq(Args) : s = seen
  BY DEF Unwarned, Filed
<1>2. PICK ks : ks = got.headers
  OBVIOUS
<1>3. Within(s, ks) /\ Rising(ks) /\ PickedAt(s, ks) = Of(s, HeaderKinds)
  BY <1>1, <1>2 DEF Unwarned, Unambiguous, Ordered, HeadersOrdered
<1>4. PICK sent \in Seq(Args) : sent = PickedAt(s, ks)
  BY <1>3, PickedType
<1>5. Len(sent) = Len(ks) /\ \A j \in 1..Len(ks) : sent[j] = s[ks[j]]
  BY <1>3, <1>4, PickedType
<1>6. \A j \in 1..Len(sent) : sent[j] \in Args /\ TakenHeader(sent[j]) /\ CleanValue(sent[j])
  <2>1. ASSUME NEW j \in 1..Len(sent)
        PROVE  TakenHeader(sent[j]) /\ CleanValue(sent[j])
    <3>1. sent[j] = s[ks[j]] /\ ks[j] \in 1..Len(s)
      BY <1>3, <1>5 DEF Within
    <3>2. TakenHeader(s[ks[j]])
      BY <1>1, <1>2, <1>5 DEF Unwarned, Filed
    <3>3. CleanValue(s[ks[j]])
      BY <1>1, <3>1, LiteralClean DEF Unwarned
    <3> QED
      BY <3>1, <3>2, <3>3
  <2> QED
    BY <2>1
<1>7. \A j \in 1..Len(sent) : WellFormed(sent[j])
  <2>1. ASSUME NEW j \in 1..Len(sent)
        PROVE  WellFormed(sent[j])
    <3>2. sent[j].is = "header" => ~Starts(sent[j].value, "colonless")
      BY <1>6 DEF TakenHeader
    <3>3. ~Starts(sent[j].value, "bare")
      <4>1. PICK v \in Seq(Seq(Pieces)) : v = sent[j].value
        BY <1>6, ValueLines
      <4>2. ~Mentions(v, "bare")
        BY <1>6, <4>1 DEF CleanValue
      <4> SUFFICES ASSUME Len(v) > 0, Len(v[1]) > 0, v[1][1] = "bare"
                   PROVE  FALSE
        BY <4>1 DEF Starts, Begins
      <4>3. 1 \in 1..Len(v) /\ v[1] \in Seq(Pieces)
        BY <4>1
      <4>4. 1 \in 1..Len(v[1])
        BY <4>3
      <4> QED
        BY <4>2, <4>3, <4>4 DEF Mentions, Contains
    <3> QED
      BY <3>2, <3>3 DEF WellFormed
  <2> QED
    BY <2>1
<1>8. PICK forms : forms = IF got.forms # <<>> THEN <<FormType>> ELSE <<>>
  OBVIOUS
<1>9. CurlHeaders(s) = HeaderLines(sent) \o forms
  <2>1. Of(s, {"header", "agent", "user"}) = sent
    BY <1>3, <1>4 DEF HeaderKinds
  <2>2. forms = IF Of(s, {"form"}) # <<>> THEN <<FormType>> ELSE <<>>
    BY <1>1, <1>8, FormsFound
  <2>3. \A k \in 1..Len(sent) :
          /\ WellFormed(sent[k]) /\ ~GivesWay(sent, k)
          /\ CurlHeader(sent[k]) = HeaderLine(sent[k])
    BY <1>1, <1>3, <1>4, <1>6, <1>7, NoneGivesWay, HeaderAsIs
  <2>4. PICK h : h = HeaderLines(sent)
    OBVIOUS
  <2>5. Len(h) = Len(sent) /\ \A k \in 1..Len(sent) : h[k] = HeaderLine(sent[k]) /\ h[k] \in Range(h)
    <3>1. PICK n \in Nat : n = Len(sent)
      OBVIOUS
    <3>2. h = [k \in 1..n |-> HeaderLine(sent[k])]
      BY <2>4, <3>1 DEF HeaderLines
    <3>3. Len(h) = n /\ \A k \in 1..n : h[k] = HeaderLine(sent[k])
      BY <3>2
    <3> QED
      BY <3>1, <3>3 DEF Range
  <2>6. [k \in 1..Len(sent) |-> IF WellFormed(sent[k]) /\ ~GivesWay(sent, k)
                                THEN <<CurlHeader(sent[k])>> ELSE <<>>]
        = [k \in 1..Len(h) |-> IF h[k] \in Range(h) THEN <<h[k]>> ELSE <<>>]
    BY <2>3, <2>5
  <2>7. HeadersGiven(s) = Among(h, Range(h))
    BY <2>1, <2>6 DEF HeadersGiven, Among
  <2>8. Among(h, Range(h)) = h
    <3>1. h \in Seq(SomeLine)
      <4>1. \A j \in 1..Len(sent) : HeaderLine(sent[j]) \in SomeLine
        BY <1>6, HeaderLineType
      <4>2. Len(sent) \in Nat
        OBVIOUS
      <4> QED
        BY <2>4, <4>1, <4>2 DEF HeaderLines
    <3>2. \A k \in 1..Len(h) : h[k] \in Range(h)
      BY <2>5
    <3> QED
      BY <3>1, <3>2, AmongAll
  <2>9. ~(Of(s, DataKinds) # <<>> /\ ContentTypes(HeadersGiven(s)) = <<>>)
    BY <1>1 DEF Unwarned, SentTheSame
  <2>10. CurlHeaders(s) = HeadersGiven(s) \o forms
    BY <2>2, <2>9 DEF CurlHeaders
  <2> QED
    BY <2>4, <2>7, <2>8, <2>10
<1>10. HeadersOf(got) = HeaderLines(sent) \o forms
  <2>1. [j \in 1..Len(ks) |-> HeaderLine(s[ks[j]])] = HeaderLines(sent)
    BY <1>5 DEF HeaderLines
  <2> QED
    BY <1>1, <1>2, <1>8, <2>1 DEF HeadersOf, Line
<1>11. HeaderLines(sent) \in Seq(SomeLine)
  <2>1. \A j \in 1..Len(sent) : HeaderLine(sent[j]) \in SomeLine
    BY <1>6, HeaderLineType
  <2>2. Len(sent) \in Nat
    OBVIOUS
  <2> QED
    BY <2>1, <2>2 DEF HeaderLines
<1>12. forms \in Seq(SomeLine)
  BY <1>8, FormTypeLine, NoLine
<1>13. ASSUME NEW a \in Args, TakenHeader(a), CleanValue(a)
       PROVE  NoVariable(HeaderLine(a))
  <2>1. PICK l \in Seq(Pieces) : l = a.value[1] /\ NoVariable(l)
    <3>1. 1 \in 1..Len(a.value) /\ a.value[1] \in Seq(Pieces)
      BY ValueLines
    <3> QED
      BY <1>13, <3>1 DEF CleanValue
  <2>2. CASE a.is = "header"
    <3>1. HeaderLine(a) = a.value[1]
      BY <1>13, <2>2, HeaderAsIs
    <3> QED
      BY <2>1, <3>1
  <2>3. CASE a.is = "agent"
    <3>1. PICK p \in Pieces : p = "User-Agent"
      BY PiecesAssumption
    <3>2. PICK w \in Seq(Pieces) : w = <<p>> \o l
      BY OneLine, LinesJoined
    <3>3. Len(w) = 1 + Len(l) /\ w[1] = p /\ \A i \in 1..Len(l) : w[1 + i] = l[i]
      BY <3>2
    <3>4. \A i \in 1..Len(w) : w[i] # "{{var}}"
      <4>1. ASSUME NEW i \in 1..Len(w), i # 1
            PROVE  w[i] # "{{var}}"
        <5>1. i - 1 \in 1..Len(l) /\ i = 1 + (i - 1)
          BY <3>3, <4>1
        <5> QED
          BY <2>1, <3>3, <5>1 DEF NoVariable
      <4>2. w[1] # "{{var}}"
        BY <3>1, <3>3
      <4> QED
        BY <4>1, <4>2
    <3>5. HeaderLine(a) = w
      BY <2>1, <2>3, <3>1, <3>2 DEF HeaderLine
    <3> QED
      BY <3>4, <3>5 DEF NoVariable
  <2>4. CASE a.is = "user"
    <3>1. NoVariable(<<"Authorization", "encoded">>)
      BY NoVariableInTwo
    <3>2. HeaderLine(a) = <<"Authorization", "encoded">>
      BY <2>4 DEF HeaderLine
    <3> QED
      BY <3>1, <3>2
  <2> QED
    BY <1>13, <2>2, <2>3, <2>4 DEF TakenHeader, HeaderKinds
<1>14. PICK h \in Seq(SomeLine) : h = HeaderLines(sent)
  BY <1>11
<1>15. PICK all \in Seq(SomeLine) : all = h \o forms
  BY <1>12, LinesJoined
<1>16. \A j \in 1..Len(h) : NoVariable(h[j])
  <2>1. Len(h) = Len(sent) /\ \A j \in 1..Len(sent) : h[j] = HeaderLine(sent[j])
    BY <1>14 DEF HeaderLines
  <2> QED
    BY <1>6, <1>13, <2>1
<1>17. \A j \in 1..Len(forms) : NoVariable(forms[j])
  <2>1. NoVariable(FormType)
    BY NoVariableInThree DEF FormType
  <2> QED
    BY <1>8, <2>1
<1>18. \A j \in 1..Len(all) : NoVariable(all[j])
  <2>1. ASSUME NEW j \in 1..Len(all)
        PROVE  NoVariable(all[j])
    <3>1. CASE j \in 1..Len(h)
      <4>1. all[j] = h[j]
        BY <1>12, <1>15, <3>1
      <4> QED
        BY <1>16, <3>1, <4>1
    <3>2. CASE j \notin 1..Len(h)
      <4>1. j - Len(h) \in 1..Len(forms) /\ all[j] = forms[j - Len(h)]
        BY <1>12, <1>15, <3>2
      <4> QED
        BY <1>17, <4>1
    <3> QED
      BY <3>1, <3>2
  <2> QED
    BY <2>1
<1>19. FillHeaders(all) = all
  BY <1>18, FillHeadersSame
<1> QED
  BY <1>1, <1>9, <1>10, <1>14, <1>15, <1>19

(* Which Content-Type a request has.                                         *)
LEMMA TypesGiven ==
    ASSUME Unwarned, NEW j \in 1..Len(HeadersOf(got)),
           HeadersOf(got)[j][1] = "Content-Type"
    PROVE  \/ got.forms = <<>> /\ ~Begins(Tail(HeadersOf(got)[j]), "multipart")
           \/ got.forms # <<>> /\ HeadersOf(got)[j] = FormType
<1>1. PICK s \in Seq(Args) : s = seen
  BY DEF Unwarned, Filed
<1>2. PICK ks \in Seq(Nat) : ks = got.headers
  BY DEF Unwarned, ParsesAs
<1>3. PICK forms \in Seq(SomeLine) : forms = IF got.forms # <<>> THEN <<FormType>> ELSE <<>>
  BY FormTypeLine, NoLine
<1>4. \A i \in 1..Len(ks) : ks[i] \in 1..Len(s) /\ TakenHeader(s[ks[i]])
  BY <1>1, <1>2 DEF Unwarned, Filed
<1>5. PICK h \in Seq(SomeLine) : h = [i \in 1..Len(ks) |-> HeaderLine(s[ks[i]])]
  <2>1. \A i \in 1..Len(ks) : HeaderLine(s[ks[i]]) \in SomeLine
    BY <1>4, HeaderLineType
  <2>2. Len(ks) \in Nat
    OBVIOUS
  <2> DEFINE Made(i) == HeaderLine(s[ks[i]])
  <2>3. \A i \in 1..Len(ks) : Made(i) \in SomeLine
    BY <2>1
  <2> HIDE DEF Made
  <2>4. [i \in 1..Len(ks) |-> Made(i)] \in Seq(SomeLine)
    BY <2>2, <2>3
  <2> QED
    BY <2>4 DEF Made
<1>6. Len(h) = Len(ks) /\ \A i \in 1..Len(ks) : h[i] = HeaderLine(s[ks[i]])
  <2>1. Len(ks) \in Nat
    OBVIOUS
  <2> QED
    BY <1>5, <2>1
<1>7. HeadersOf(got) = h \o forms
  BY <1>1, <1>2, <1>3, <1>5 DEF HeadersOf, Line
<1>8. CASE j \in 1..Len(h)
  <2>1. HeadersOf(got)[j] = HeaderLine(s[ks[j]])
    BY <1>3, <1>6, <1>7, <1>8
  <2>2. PICK k \in 1..Len(s) : k = ks[j]
    BY <1>4, <1>6, <1>8
  <2>3. PICK a \in Args : a = s[k] /\ TakenHeader(a)
    BY <1>4, <1>6, <1>8, <2>2
  <2>4. HeaderLine(a)[1] = "Content-Type"
    BY <2>1, <2>2, <2>3
  <2>5. PICK l \in Seq(Pieces) : l = a.value[1]
    BY <2>3, ValueLines
  <2>6. CASE a.is = "header"
    <3>0. CleanValue(a)
      BY <1>1, <2>2, <2>3, LiteralClean DEF Unwarned
    <3>1. HeaderLine(a) = l
      BY <2>3, <2>5, <2>6, <3>0, HeaderAsIs
    <3>2. Of(s, {"form"}) = <<>> /\ ~Begins(Tail(l), "multipart")
      BY <1>1, <2>2, <2>3, <2>4, <2>5, <2>6, <3>1 DEF Unwarned, Literal
    <3> QED
      BY <1>1, <2>1, <2>2, <2>3, <3>1, <3>2, FormsFound
  <2>7. CASE a.is = "agent"
    <3>1. PICK p \in Pieces : p = "User-Agent"
      BY PiecesAssumption
    <3>2. (<<p>> \o l)[1] = p
      BY TailOf
    <3>3. HeaderLine(a) = <<p>> \o l
      BY <2>5, <2>7, <3>1 DEF HeaderLine
    <3> QED
      BY <2>4, <3>1, <3>2, <3>3
  <2>8. CASE a.is = "user"
    <3>1. HeaderLine(a)[1] = "Authorization"
      BY <2>8 DEF HeaderLine
    <3> QED
      BY <2>4, <3>1
  <2> QED
    BY <2>3, <2>6, <2>7, <2>8 DEF TakenHeader, HeaderKinds
<1>9. CASE j \notin 1..Len(h)
  <2>1. j - Len(h) \in 1..Len(forms) /\ HeadersOf(got)[j] = forms[j - Len(h)]
    BY <1>3, <1>7, <1>9
  <2>2. got.forms # <<>>
    BY <1>3, <2>1
  <2>3. forms = <<FormType>>
    BY <1>3, <2>2
  <2>4. \A i \in 1..Len(forms) : forms[i] = FormType
    BY <2>3
  <2> QED
    BY <2>1, <2>2, <2>4
<1> QED
  BY <1>8, <1>9

LEMMA MultipartGiven ==
    ASSUME Unwarned
    PROVE  IsMultipart(FillHeaders(HeadersOf(got))) <=> got.forms # <<>>
<1>1. PICK h \in Seq(SomeLine) : h = HeadersOf(got)
  BY HeadersType DEF Unwarned
<1>2. FillHeaders(HeadersOf(got)) = h
  BY <1>1, HeadersSent
<1>3. PICK S : S = {l \in Range(h) : l[1] = "Content-Type"}
  OBVIOUS
<1>4. PICK ct \in Seq(SomeLine \cap S) : ct = Among(h, S)
  BY AmongType
<1>5. ContentTypes(h) = ct
  BY <1>3, <1>4 DEF ContentTypes
<1>6. ASSUME ct # <<>>
      PROVE  \/ got.forms = <<>> /\ ~Begins(Tail(ct[1]), "multipart")
             \/ got.forms # <<>> /\ ct[1] = FormType
  <2>1. ct[1] \in S
    BY <1>4, <1>6
  <2>2. PICK j \in 1..Len(h) : h[j] = ct[1]
    BY <1>3, <2>1 DEF Range
  <2>3. h[j][1] = "Content-Type"
    BY <1>3, <2>1, <2>2
  <2> QED
    BY <1>1, <2>2, <2>3, TypesGiven
<1>7. CASE got.forms = <<>>
  BY <1>2, <1>5, <1>6, <1>7 DEF IsMultipart
<1>8. CASE got.forms # <<>>
  <2>1. ct # <<>>
    <3>1. PICK first \in Seq(SomeLine) :
             first = [i \in 1..Len(got.headers) |-> HeaderLine(seen[got.headers[i]])]
      <4>1. \A i \in 1..Len(got.headers) : HeaderLine(seen[got.headers[i]]) \in SomeLine
        <5>1. \A i \in 1..Len(got.headers) : seen[got.headers[i]] \in Args
          BY DEF Unwarned, Filed
        <5>2. \A i \in 1..Len(got.headers) : TakenHeader(seen[got.headers[i]])
          BY DEF Unwarned, Filed
        <5> QED
          BY <5>1, <5>2, HeaderLineType
      <4>2. Len(got.headers) \in Nat
        BY DEF Unwarned, ParsesAs
      <4> DEFINE Made(i) == HeaderLine(seen[got.headers[i]])
      <4>3. \A i \in 1..Len(got.headers) : Made(i) \in SomeLine
        BY <4>1
      <4>4. PICK n \in Nat : n = Len(got.headers)
        BY <4>2
      <4> HIDE DEF Made
      <4>5. [i \in 1..n |-> Made(i)] \in Seq(SomeLine)
        BY <4>3, <4>4
      <4> QED
        BY <4>4, <4>5 DEF Made
    <3>2. h = first \o <<FormType>>
      BY <1>1, <1>8, <3>1 DEF HeadersOf, Line
    <3>3. PICK t \in SomeLine : t = FormType /\ t[1] = "Content-Type"
      BY FormTypeLine DEF FormType
    <3>4. Len(h) \in 1..Len(h) /\ h[Len(h)] = t
      BY <3>1, <3>2, <3>3
    <3>5. h[Len(h)] \in S
      <4>1. h[Len(h)] \in Range(h)
        BY <3>4 DEF Range
      <4> QED
        BY <1>3, <3>3, <3>4, <4>1
    <3> QED
      BY <1>4, <3>4, <3>5, AmongSome
  <2>2. ct[1] = FormType
    BY <1>6, <1>8, <2>1
  <2>3. Begins(Tail(FormType), "multipart")
    BY DEF FormType, Begins
  <2> QED
    BY <1>2, <1>5, <1>8, <2>1, <2>2, <2>3 DEF IsMultipart
<1> QED
  BY <1>7, <1>8

(* A body that is no form: one file, the values of -d, or nothing.           *)
LEMMA CleanBody ==
    ASSUME NEW v \in Seq(CleanLines)
    PROVE  FillAll(v) = v /\ Splice(v) = v
<1>1. v \in Seq(Seq(Pieces))
  <2>1. \A j \in 1..Len(v) : v[j] \in Seq(Pieces)
    BY DEF CleanLines
  <2> QED
    BY <2>1, SeqInto
<1>2. \A k \in 1..Len(v) : NoVariable(v[k]) /\ ~Begins(v[k], "<")
  BY DEF CleanLines
<1> QED
  BY <1>1, <1>2, FillAllSame, SpliceSame

LEMMA PlainBody ==
    ASSUME Unwarned, got.forms = <<>>
    PROVE  Unspliced(RequestOf(got)) = FillAll(BodyOf(got))
<1>1. ~IsMultipart(FillHeaders(HeadersOf(got)))
  BY MultipartGiven
<1>2. RequestOf(got).headers = HeadersOf(got) /\ RequestOf(got).body = BodyOf(got)
  BY DEF RequestOf
<1> QED
  BY <1>1, <1>2 DEF Unspliced

LEMMA FileSent ==
    ASSUME Unwarned, got.forms = <<>>, got.file # 0
    PROVE  Splice(Unspliced(RequestOf(got))) = CurlBody(seen)
<1>1. PICK s \in Seq(Args) : s = seen
  BY DEF Unwarned, Filed
<1>2. PICK m \in 1..Len(s) : m = got.file
  BY <1>1 DEF Unwarned, ParsesAs
<1>3. PICK a \in Args : a = s[m] /\ NamesFile(a)
  BY <1>1, <1>2 DEF Unwarned, Filed
<1>a. a.is = "binary" /\ ~EmptyPath(a)
  BY <1>1, <1>2, <1>3 DEF NamesFile, Unwarned, SentTheSame
<1>4. PICK p \in Seq(Pieces) : p = a.value[1] /\ Len(p) > 1
  <2>1. PICK p \in Seq(Pieces) : p = a.value[1]
    BY ValueLines
  <2>2. Len(p) > 0 /\ Len(p) # 1 /\ Len(p) \in Nat
    BY <1>3, <1>a, <2>1 DEF NamesFile, EmptyPath, Starts, Begins
  <2>3. PICK n \in Nat : n = Len(p) /\ n > 0 /\ n # 1
    BY <2>2
  <2>4. n > 1
    BY <2>3
  <2> QED
    BY <2>1, <2>3, <2>4
<1>5. NoVariable(p) /\ ~Contains(p, "CR")
  <2>1. CleanValue(a)
    BY <1>1, <1>2, <1>3, LiteralClean DEF Unwarned
  <2>2. 1 \in 1..Len(a.value)
    BY <1>3, ValueLines
  <2> QED
    BY <1>4, <2>1, <2>2 DEF CleanValue, Mentions
<1>6. PICK q \in Pieces : q = "<"
  BY PiecesAssumption
<1>7. PICK l \in Seq(Pieces) : l = <<q>> \o Tail(p)
  <2>1. Len(p) > 0
    BY <1>4
  <2> QED
    BY <1>4, <1>6, <2>1, ReferenceLine
<1>8. /\ Len(l) = Len(p) /\ l[1] = q /\ \A i \in 2..Len(l) : l[i] = p[i]
  <2>1. PICK t \in Seq(Pieces) : t = Tail(p) /\ Len(t) = Len(p) - 1
                                 /\ \A i \in 1..(Len(p) - 1) : t[i] = p[i + 1]
    <3>1. p # <<>>
      BY <1>4
    <3>2. /\ Tail(p) \in Seq(Pieces) /\ Len(Tail(p)) = Len(p) - 1
          /\ \A k \in 1..(Len(p) - 1) : Tail(p)[k] = p[k + 1]
      BY <1>4, <3>1, FirstOf
    <3> QED
      BY <3>2, Zenon
  <2>2. Len(l) = 1 + Len(t) /\ l[1] = q /\ \A i \in 1..Len(t) : l[1 + i] = t[i]
    BY <1>6, <1>7, <2>1
  <2>3. ASSUME NEW i \in 2..Len(l)
        PROVE  l[i] = p[i]
    <3>1. i - 1 \in 1..Len(t) /\ i = 1 + (i - 1) /\ i = (i - 1) + 1
      BY <2>2
    <3> QED
      BY <2>1, <2>2, <3>1
  <2> QED
    BY <2>1, <2>2, <2>3
<1>9. NoVariable(l)
  <2>1. ASSUME NEW i \in 1..Len(l)
        PROVE  l[i] # "{{var}}"
    <3>1. CASE i = 1
      BY <1>6, <1>8, <3>1
    <3>2. CASE i # 1
      <4>1. i \in 2..Len(l) /\ i \in 1..Len(p)
        BY <1>8, <3>2
      <4>2. p[i] # "{{var}}"
        BY <1>5, <4>1 DEF NoVariable
      <4> QED
        BY <1>8, <4>1, <4>2
    <3> QED
      BY <3>1, <3>2
  <2> QED
    BY <2>1 DEF NoVariable
<1>10. PICK body \in Seq(Seq(Pieces)) : body = <<l>> /\ Len(body) = 1 /\ body[1] = l
  <2>1. <<l>> \in Seq(Seq(Pieces)) /\ Len(<<l>>) = 1 /\ <<l>>[1] = l
    BY OneLine, Zenon
  <2> QED
    BY <2>1, Zenon
<1>11. BodyOf(got) = body
  BY Zenon, <1>1, <1>2, <1>3, <1>4, <1>6, <1>7, <1>10 DEF BodyOf, Line
<1>12. FillAll(body) = body
  <2>1. \A k \in 1..Len(body) : NoVariable(body[k])
    BY <1>9, <1>10
  <2> QED
    BY <2>1, FillAllSame
<1>13. Splice(body) = <<<<"bytes">>>>
  <2>1. Begins(l, "<")
    BY <1>4, <1>6, <1>8 DEF Begins
  <2>2. Last(l) # "CR"
    <3>1. Len(l) \in 2..Len(l) /\ Len(l) \in 1..Len(p)
      BY <1>4, <1>8
    <3>2. l[Len(l)] = p[Len(l)]
      BY <1>8, <3>1
    <3> QED
      BY <1>5, <3>1, <3>2 DEF Last, Contains
  <2>3. Splice(body) = [k \in 1..1 |-> <<"bytes">>]
    BY <1>10, <2>1, <2>2 DEF Splice
  <2> QED
    BY <2>3
<1>14. CurlBody(s) = <<<<"bytes">>>>
  <2>1. Of(s, {"form"}) = <<>>
    BY <1>1, FormsFound
  <2>2. Of(s, DataKinds) = <<a>>
    BY <1>1, <1>2, <1>3 DEF Unwarned, Unambiguous, Ordered, DataOrdered, FileOrdered
  <2>3. CurlData(a) = <<<<"bytes">>>>
    BY <1>3, <1>a DEF CurlData, NamesFile
  <2>4. [k \in 1..Len(<<a>>) |-> CurlData(<<a>>[k])] = <<CurlData(a)>>
    OBVIOUS
  <2>5. <<a>> # <<>>
    OBVIOUS
  <2>6. CurlBody(s) = Join(<<CurlData(a)>>)
    BY <2>1, <2>2, <2>4, <2>5 DEF CurlBody, DataKinds
  <2> QED
    BY <2>3, <2>6, JoinOne
<1> QED
  BY <1>1, <1>11, <1>12, <1>13, <1>14, PlainBody

LEMMA ValuesSent ==
    ASSUME Unwarned, got.forms = <<>>, got.file = 0
    PROVE  Splice(Unspliced(RequestOf(got))) = CurlBody(seen)
<1>1. PICK s \in Seq(Args) : s = seen
  BY DEF Unwarned, Filed
<1>2. PICK ks \in Seq(Nat) : ks = got.data
  BY DEF Unwarned, ParsesAs
<1>3. /\ Within(s, ks) /\ PickedAt(s, ks) = Of(s, DataKinds)
      /\ \A j \in 1..Len(ks) : ~NamesFile(s[ks[j]])
  BY <1>1, <1>2 DEF Unwarned, Unambiguous, Ordered, DataOrdered, ValuesOrdered
<1>4. PICK d \in Seq(Args) : d = PickedAt(s, ks)
  BY <1>3, PickedType
<1>5. Len(d) = Len(ks) /\ \A j \in 1..Len(ks) : d[j] = s[ks[j]]
  BY <1>3, <1>4, PickedType
<1>6. Of(s, {"form"}) = <<>>
  BY <1>1, FormsFound
<1>7. PICK vs : vs = [j \in 1..Len(ks) |-> DataValue(s[ks[j]])]
  OBVIOUS
<1>8. [k \in 1..Len(d) |-> CurlData(d[k])] = vs
  <2>1. ASSUME NEW j \in 1..Len(ks)
        PROVE  CurlData(d[j]) = DataValue(s[ks[j]])
    <3>1. d[j] = s[ks[j]] /\ ~NamesFile(s[ks[j]])
      BY <1>3, <1>5
    <3>2. PICK a : a = s[ks[j]] /\ ~NamesFile(a)
      BY <3>1
    <3>3. CurlData(a) = DataValue(a)
      BY <3>2 DEF CurlData, DataValue, NamesFile
    <3> QED
      BY <3>1, <3>2, <3>3
  <2> QED
    BY <1>5, <1>7, <2>1
<1>9. CASE ks = <<>>
  <2>1. Len(d) = 0
    BY <1>5, <1>9
  <2>2. d = <<>>
    BY <2>1, EmptySeq
  <2>3. CurlBody(s) = <<<<>>>>
    BY <1>3, <1>4, <1>6, <2>2 DEF CurlBody, DataKinds
  <2>4. BodyOf(got) = <<<<>>>>
    BY <1>2, <1>9 DEF BodyOf, Empty
  <2>5. <<<<>>>> \in Seq(CleanLines)
    <3>1. PICK e \in Seq(Pieces) : e = <<>>
      BY NoLine
    <3>2. e \in CleanLines
      <4>1. NoVariable(e) /\ ~Begins(e, "<")
        BY <3>1 DEF NoVariable, Begins
      <4> QED
        BY <4>1 DEF CleanLines
    <3> QED
      BY <3>1, <3>2, OneLine
  <2> QED
    BY <1>1, <2>3, <2>4, <2>5, CleanBody, PlainBody
<1>10. CASE ks # <<>>
  <2>1. PICK n \in Nat : n = Len(ks) /\ n > 0
    BY <1>10
  <2>2. Len(vs) = n /\ \A k \in 1..n : vs[k] = DataValue(s[ks[k]])
    BY <1>7, <2>1
  <2>3. ASSUME NEW k \in 1..n
        PROVE  vs[k] \in Seq(CleanLines) /\ vs[k] # <<>>
    <3>1. PICK i \in 1..Len(s) : i = ks[k]
      BY <1>3, <2>1 DEF Within
    <3>2. PICK a \in Args : a = s[i] /\ CleanValue(a)
      BY <1>1, LiteralClean DEF Unwarned
    <3>3. vs[k] = DataValue(a)
      BY <2>2, <3>1, <3>2
    <3>4. CASE a.is = "urlencode"
      <4>1. PICK p \in Pieces : p = "encoded"
        BY PiecesAssumption
      <4>2. PICK l \in Seq(Pieces) : l = <<p>> /\ Len(l) = 1 /\ l[1] = p
        BY OneLine
      <4>3. l \in CleanLines
        <5>1. NoVariable(l)
          <6>1. \A x \in 1..1 : x = 1
            OBVIOUS
          <6>2. "encoded" # "{{var}}"
            OBVIOUS
          <6> QED
            BY <4>1, <4>2, <6>1, <6>2 DEF NoVariable
        <5>2. ~Begins(l, "<")
          BY <4>1, <4>2 DEF Begins
        <5> QED
          BY <5>1, <5>2 DEF CleanLines
      <4>4. <<l>> \in Seq(CleanLines) /\ <<l>> # <<>>
        BY <4>3, OneLine
      <4> QED
        BY <3>3, <3>4, <4>1, <4>2, <4>4 DEF DataValue
    <3>5. CASE a.is # "urlencode"
      <4>1. DataValue(a) = a.value
        BY <3>5 DEF DataValue
      <4> QED
        BY <3>2, <3>3, <4>1, ValueLines DEF CleanValue
    <3> QED
      BY <3>4, <3>5
  <2>4. Join(vs) \in Seq(CleanLines)
    BY <2>1, <2>2, <2>3, CleanClosed, JoinLines
  <2>5. BodyOf(got) = Join(vs)
    BY <1>1, <1>2, <1>7, <1>10 DEF BodyOf
  <2>6. d # <<>>
    BY <1>5, <2>1
  <2>7. CurlBody(s) = Join(vs)
    BY <1>3, <1>4, <1>6, <1>8, <2>6 DEF CurlBody, DataKinds
  <2> QED
    BY <1>1, <2>4, <2>5, <2>7, CleanBody, PlainBody
<1> QED
  BY <1>9, <1>10

-----------------------------------------------------------------------------
(* The lines of a multipart body as they are sent: files in the place of     *)
(* their references, and CRLF.                                               *)
WithCR ==
    [l \in Seq(Pieces) |-> IF Begins(l, "<") THEN <<"bytes", "CR">> ELSE Append(l, "CR")]

LEMMA WithCRType == Takes(WithCR, Seq(Pieces), Seq(Pieces))
<1>1. ASSUME NEW l \in Seq(Pieces)
      PROVE  WithCR[l] \in Seq(Pieces)
  <2>1. PICK p \in Pieces, q \in Pieces : p = "bytes" /\ q = "CR"
    BY PiecesAssumption
  <2>2. <<p, q>> \in Seq(Pieces) /\ Append(l, q) \in Seq(Pieces)
    BY AppendProperties
  <2>3. WithCR[l] = IF Begins(l, "<") THEN <<p, q>> ELSE Append(l, q)
    BY <2>1 DEF WithCR
  <2> QED
    BY <2>2, <2>3
<1> QED
  BY <1>1 DEF Takes

LEMMA ClosingLine == CloseDelimiter \in Seq(Pieces) /\ ~Begins(CloseDelimiter, "<")
<1>1. CloseDelimiter[1] = "--boundary--"
  BY DEF CloseDelimiter
<1>2. "--boundary--" # "<"
  OBVIOUS
<1> QED
  BY <1>1, <1>2, DelimiterLines DEF Begins

LEMMA LineEnded ==
    ASSUME NEW l \in Seq(Pieces)
    PROVE  /\ Append(l, "CR") # <<>> /\ Last(Append(l, "CR")) = "CR"
           /\ Begins(Append(l, "CR"), "<") <=> Begins(l, "<")
<1>1. PICK q \in Pieces : q = "CR"
  BY PiecesAssumption
<1>2. PICK m \in Seq(Pieces) : m = Append(l, q)
  BY AppendProperties
<1>3. /\ Len(m) = Len(l) + 1 /\ Len(l) \in Nat /\ m[Len(m)] = q
      /\ \A k \in 1..Len(l) : m[k] = l[k]
  BY <1>2, AppendProperties
<1>4. Last(m) = q /\ m # <<>> /\ Len(m) > 0
  BY <1>3 DEF Last
<1>5. Begins(m, "<") <=> Begins(l, "<")
  <2>1. CASE Len(l) = 0
    BY <1>1, <1>3, <2>1 DEF Begins
  <2>2. CASE Len(l) # 0
    BY <1>3, <1>4, <2>2 DEF Begins
  <2> QED
    BY <2>1, <2>2
<1> QED
  BY <1>1, <1>2, <1>4, <1>5

LEMMA SplicedLines ==
    ASSUME NEW u \in Seq(Seq(Pieces))
    PROVE  Splice(ToCRLF(u \o <<CloseDelimiter>>)) = Mapped(WithCR, u) \o <<CloseDelimiter>>
<1>1. PICK L : L = Seq(Pieces)
  OBVIOUS
<1>2. PICK c \in L : c = CloseDelimiter /\ ~Begins(c, "<")
  BY <1>1, ClosingLine
<1>3. PICK n \in Nat : n = Len(u)
  OBVIOUS
<1>4. PICK w \in Seq(L) : w = u \o <<c>>
  BY <1>1, <1>2, OneLine, LinesJoined
<1>5. Len(w) = n + 1 /\ w[n + 1] = c /\ \A k \in 1..n : w[k] = u[k]
  BY <1>1, <1>2, <1>3, <1>4
<1>6. PICK m \in Seq(L) : m = Mapped(WithCR, u) /\ Follow(WithCR, u, m)
  <2>1. u \in Seq(L) /\ Takes(WithCR, L, L)
    BY <1>1, WithCRType
  <2> QED
    BY <2>1, MappedType
<1>7. PICK e \in Seq(L) : e = m \o <<c>>
  BY <1>1, <1>2, OneLine, LinesJoined
<1>8. Len(e) = n + 1 /\ e[n + 1] = c /\ \A k \in 1..n : e[k] = WithCR[u[k]]
  <2>1. Len(m) = n /\ \A k \in 1..n : m[k] = WithCR[u[k]]
    BY <1>3, <1>6 DEF Follow
  <2>2. Len(e) = n + 1 /\ e[n + 1] = c /\ \A k \in 1..n : e[k] = m[k]
    BY <1>7, <2>1
  <2> QED
    BY <2>1, <2>2
<1>9. PICK x : x = ToCRLF(w)
  OBVIOUS
<1>10. x = [k \in 1..(n + 1) |-> IF k = n + 1 THEN w[k] ELSE Append(w[k], "CR")]
  BY <1>5, <1>9 DEF ToCRLF
<1>11. Len(x) = n + 1
  BY <1>10
<1>12. Splice(x) = [k \in 1..(n + 1) |->
                      IF ~Begins(x[k], "<") THEN x[k]
                      ELSE IF Last(x[k]) = "CR" THEN <<"bytes", "CR">> ELSE <<"bytes">>]
  BY <1>11 DEF Splice
<1>13. ASSUME NEW k \in 1..(n + 1)
       PROVE  (IF ~Begins(x[k], "<") THEN x[k]
               ELSE IF Last(x[k]) = "CR" THEN <<"bytes", "CR">> ELSE <<"bytes">>) = e[k]
  <2>1. CASE k = n + 1
    <3>1. x[k] = c
      BY <1>5, <1>10, <2>1
    <3> QED
      BY <1>2, <1>8, <2>1, <3>1
  <2>2. CASE k # n + 1
    <3>1. k \in 1..n
      BY <2>2
    <3>2. PICK l \in Seq(Pieces) : l = u[k]
      BY <1>3, <3>1
    <3>3. x[k] = Append(l, "CR")
      BY <1>5, <1>10, <3>1, <3>2, <2>2
    <3>4. e[k] = IF Begins(l, "<") THEN <<"bytes", "CR">> ELSE Append(l, "CR")
      BY <1>8, <3>1, <3>2 DEF WithCR
    <3>5. Last(x[k]) = "CR" /\ (Begins(x[k], "<") <=> Begins(l, "<"))
      BY <3>2, <3>3, LineEnded
    <3> QED
      BY <3>3, <3>4, <3>5
  <2> QED
    BY <2>1, <2>2
<1>14. Splice(x) = [k \in 1..(n + 1) |-> e[k]]
  BY <1>12, <1>13
<1>15. e = [k \in 1..(n + 1) |-> e[k]]
  BY <1>7, <1>8
<1> QED
  BY <1>2, <1>4, <1>6, <1>7, <1>9, <1>14, <1>15

(* A part is its headers, a blank line and, here, one line of content.       *)
PartOf(h, c) == (h \o Empty) \o <<c>>
SentFor(c, d) == IF Begins(c, "<") THEN d = <<"bytes">> ELSE d = c

LEMMA PartOfLines ==
    ASSUME NEW h \in Seq(Seq(Pieces)), NEW c \in Seq(Pieces)
    PROVE  /\ PartOf(h, c) \in Seq(Seq(Pieces)) /\ Len(PartOf(h, c)) = Len(h) + 2
           /\ PartOf(h, c)[Len(h) + 1] = <<>> /\ PartOf(h, c)[Len(h) + 2] = c
           /\ \A k \in 1..Len(h) : PartOf(h, c)[k] = h[k]
<1>1. PICK L : L = Seq(Pieces)
  OBVIOUS
<1>2. PICK e \in L : e = <<>>
  BY <1>1, NoLine
<1>3. h \in Seq(L) /\ c \in L
  BY <1>1
<1>4. PICK w \in Seq(L) : w = (h \o <<e>>) \o <<c>>
  BY <1>2, <1>3, OneLine, LinesJoined
<1>5. /\ Len(w) = Len(h) + 2 /\ w[Len(h) + 1] = e /\ w[Len(h) + 2] = c
      /\ \A k \in 1..Len(h) : w[k] = h[k]
  BY <1>2, <1>3, <1>4
<1> QED
  BY <1>1, <1>2, <1>4, <1>5 DEF PartOf, Empty

LEMMA PartSent ==
    ASSUME NEW h \in Seq(SomeLine), \A k \in 1..Len(h) : ~Begins(h[k], "<"),
           NEW c \in Seq(Pieces), NEW d \in Seq(Pieces), SentFor(c, d)
    PROVE  Mapped(WithCR, PartOf(h, c)) = CurlLines(PartOf(h, d))
<1>1. PICK n \in Nat : n = Len(h)
  OBVIOUS
<1>2. h \in Seq(Seq(Pieces)) /\ \A k \in 1..n : h[k] # <<>> /\ ~Begins(h[k], "<")
  <2>1. PICK L : L = Seq(Pieces)
    OBVIOUS
  <2>2. \A k \in 1..Len(h) : h[k] \in L /\ h[k] # <<>>
    BY <2>1 DEF SomeLine
  <2>3. h \in Seq(L)
    BY <2>2, SeqInto
  <2> QED
    BY <1>1, <2>1, <2>2, <2>3
<1>3. PICK p \in Seq(Seq(Pieces)) : p = PartOf(h, c)
  BY <1>2, PartOfLines
<1>4. /\ Len(p) = n + 2 /\ p[n + 1] = <<>> /\ p[n + 2] = c
      /\ \A k \in 1..n : p[k] = h[k]
  BY <1>1, <1>2, <1>3, PartOfLines, Zenon
<1>5. PICK q \in Seq(Seq(Pieces)) : q = PartOf(h, d)
  BY <1>2, PartOfLines
<1>6. /\ Len(q) = n + 2 /\ q[n + 1] = <<>> /\ q[n + 2] = d
      /\ \A k \in 1..n : q[k] = h[k]
  BY <1>1, <1>2, <1>5, PartOfLines, Zenon
<1>7. SelectInSeq(q, Blank) = n + 1
  <2> DEFINE I == {i \in 1..Len(q) : Blank(q[i])}
  <2>1. I \subseteq Nat /\ n + 1 \in I
    BY <1>6 DEF Blank
  <2>2. ASSUME NEW k \in I
        PROVE  n + 1 <= k
    <3>1. k \in 1..(n + 2) /\ q[k] = <<>>
      BY <1>6 DEF Blank
    <3>2. k \notin 1..n
      BY <1>2, <1>6, <3>1
    <3> QED
      BY <3>1, <3>2
  <2>3. Min(I) = n + 1
    <3> HIDE DEF I
    <3> QED
      BY <2>1, <2>2, MinIs
  <2> QED
    BY <2>1, <2>3 DEF SelectInSeq
<1>8. CurlLines(q) = [j \in 1..(n + 2) |-> Append(q[j], "CR")]
  <2>1. \A j \in 1..(n + 2) : j <= n + 1 \/ j = n + 2
    OBVIOUS
  <2> QED
    BY <1>6, <1>7, <2>1 DEF CurlLines
<1>9. Mapped(WithCR, p) = [j \in 1..(n + 2) |-> WithCR[p[j]]]
  BY <1>4 DEF Mapped
<1>10. ASSUME NEW j \in 1..(n + 2)
       PROVE  WithCR[p[j]] = Append(q[j], "CR")
  <2>1. CASE j \in 1..n
    <3>1. PICK l \in Seq(Pieces) : l = h[j] /\ ~Begins(l, "<")
      BY <1>1, <1>2, <2>1
    <3> QED
      BY <1>4, <1>6, <2>1, <3>1 DEF WithCR
  <2>2. CASE j = n + 1
    <3>1. PICK l \in Seq(Pieces) : l = <<>> /\ ~Begins(l, "<")
      <4>1. <<>> \in Seq(Pieces) /\ ~Begins(<<>>, "<")
        BY NoLine DEF Begins
      <4> QED
        BY <4>1
    <3> QED
      BY <1>4, <1>6, <2>2, <3>1 DEF WithCR
  <2>3. CASE j = n + 2
    <3>1. CASE Begins(c, "<")
      <4>1. d = <<"bytes">> /\ WithCR[c] = <<"bytes", "CR">>
        BY <3>1 DEF SentFor, WithCR
      <4>2. Append(<<"bytes">>, "CR") = <<"bytes", "CR">>
        <5>1. PICK x \in Pieces, y \in Pieces : x = "bytes" /\ y = "CR"
          BY PiecesAssumption
        <5>2. Append(<<x>>, y) = <<x, y>>
          <6>1. PICK s \in Seq(Pieces) : s = <<x>> /\ Len(s) = 1 /\ s[1] = x
            BY OneLine
          <6>2. PICK t \in Seq(Pieces) : t = <<x, y>>
            BY PairOf
          <6>3. Len(t) = 2 /\ t[1] = x /\ t[2] = y
            BY <6>2
          <6>4. Len(t) = Len(s) + 1 /\ t[Len(t)] = y /\ \A k \in 1..Len(s) : t[k] = s[k]
            BY <6>1, <6>3
          <6>5. t = Append(s, y)
            BY <6>1, <6>2, <6>4, Extension
          <6> QED
            BY <6>1, <6>2, <6>5
        <5> QED
          BY <5>1, <5>2
      <4> QED
        BY <1>4, <1>6, <2>3, <4>1, <4>2
    <3>2. CASE ~Begins(c, "<")
      BY <1>4, <1>6, <2>3, <3>2 DEF SentFor, WithCR
    <3> QED
      BY <3>1, <3>2
  <2> QED
    BY <2>1, <2>2, <2>3
<1> QED
  BY <1>3, <1>5, <1>8, <1>9, <1>10

-----------------------------------------------------------------------------
(* The lines before the content of a part.                                   *)
HeadingLines == {l \in SomeLine : NoVariable(l) /\ ~Begins(l, "<")}

HeadOf(a) ==
    (<<Delimiter>>
     \o Line(IF IsUpload(a) THEN <<"Content-Disposition", Filename(a)>>
             ELSE <<"Content-Disposition">>))
    \o IF a.type THEN Line(<<"Content-Type", "part">>) ELSE <<>>

LEMMA HeadingOne ==
    ASSUME NEW p \in Pieces, p # "{{var}}", p # "<"
    PROVE  <<p>> \in HeadingLines
<1>1. PICK l \in Seq(Pieces) : l = <<p>> /\ Len(l) = 1 /\ l[1] = p
  BY OneLine
<1>2. l # <<>> /\ NoVariable(l) /\ ~Begins(l, "<")
  <2>1. l # <<>>
    BY <1>1
  <2>2. NoVariable(l)
    BY <1>1, FirstNumbers DEF NoVariable
  <2> QED
    BY <1>1, <2>1, <2>2 DEF Begins
<1> QED
  BY <1>1, <1>2 DEF HeadingLines, SomeLine

LEMMA HeadingTwo ==
    ASSUME NEW p \in Pieces, NEW q \in Pieces, p # "{{var}}", p # "<", q # "{{var}}"
    PROVE  <<p, q>> \in HeadingLines
<1>1. PICK l \in Seq(Pieces) : l = <<p, q>>
  BY PairOf
<1>2. Len(l) = 2 /\ l[1] = p /\ l[2] = q
  BY <1>1
<1>3. l # <<>> /\ ~Begins(l, "<")
  <2>1. l # <<>>
    <3>1. l = <<p>> \o <<q>>
      BY <1>1, PairOf
    <3>2. <<p>> \in Seq(Pieces) /\ <<q>> \in Seq(Pieces) /\ <<p>> # <<>>
      BY OneLine
    <3> QED
      BY <3>1, <3>2, LinesJoined
  <2> QED
    BY <1>2, <2>1 DEF Begins
<1>4. NoVariable(l)
  BY <1>1, NoVariableInTwo
<1> QED
  BY <1>1, <1>3, <1>4 DEF HeadingLines, SomeLine

LEMMA HeadType ==
    ASSUME NEW a \in Arg
    PROVE  HeadOf(a) \in Seq(HeadingLines)
<1>1. PICK L : L = HeadingLines
  OBVIOUS
<1>2. <<Delimiter>> \in Seq(L)
  <2>1. PICK p \in Pieces : p = "--boundary" /\ p # "{{var}}" /\ p # "<"
    BY PiecesAssumption
  <2>2. Delimiter \in L
    BY <1>1, <2>1, HeadingOne DEF Delimiter
  <2> QED
    BY <2>2, OneLine
<1>3. PICK disposition \in Seq(L) :
        disposition = Line(IF IsUpload(a) THEN <<"Content-Disposition", Filename(a)>>
                           ELSE <<"Content-Disposition">>)
  <2>1. PICK p \in Pieces : p = "Content-Disposition" /\ p # "{{var}}" /\ p # "<"
    BY PiecesAssumption
  <2>2. PICK q \in Pieces : q = Filename(a) /\ q # "{{var}}"
    BY PiecesAssumption DEF Filename, Arg
  <2>3. <<p>> \in L /\ <<p, q>> \in L
    BY <1>1, <2>1, <2>2, HeadingOne, HeadingTwo
  <2>4. PICK l \in L : l = IF IsUpload(a) THEN <<"Content-Disposition", Filename(a)>>
                           ELSE <<"Content-Disposition">>
    BY <2>1, <2>2, <2>3
  <2> QED
    BY <2>4, OneLine DEF Line
<1>4. PICK type \in Seq(L) : type = IF a.type THEN Line(<<"Content-Type", "part">>) ELSE <<>>
  <2>1. PICK p \in Pieces, q \in Pieces : /\ p = "Content-Type" /\ q = "part"
                                          /\ p # "{{var}}" /\ p # "<" /\ q # "{{var}}"
    BY PiecesAssumption
  <2>2. <<p, q>> \in L
    BY <1>1, <2>1, HeadingTwo
  <2>3. Line(<<"Content-Type", "part">>) \in Seq(L) /\ <<>> \in Seq(L)
    BY <2>1, <2>2, OneLine, NoLine DEF Line
  <2> QED
    BY <2>3
<1>5. <<Delimiter>> \o disposition \in Seq(L)
  BY <1>2, LinesJoined
<1>6. (<<Delimiter>> \o disposition) \o type \in Seq(L)
  BY <1>5, LinesJoined
<1>7. HeadOf(a) = (<<Delimiter>> \o disposition) \o type
  BY <1>3, <1>4 DEF HeadOf
<1> QED
  BY <1>1, <1>6, <1>7

LEMMA CurlPartOf ==
    ASSUME NEW a \in Arg, NEW d,
           IF Starts(a.value, "@") \/ Starts(a.value, "<") THEN <<d>> = <<<<"bytes">>>>
           ELSE <<d>> = BeforeSemicolon(a.value),
           Starts(a.value, "@") => a.type
    PROVE  CurlPart(a) = PartOf(HeadOf(a), d)
<1>1. Filename(a) = CASE a.filename = "none" -> "base" [] a.filename = "given" -> "given"
                      [] OTHER -> ""
  BY DEF Filename, Arg
<1>2. <<IF Starts(a.value, "@") THEN <<"Content-Disposition", Filename(a)>>
        ELSE <<"Content-Disposition">>>>
        = Line(IF IsUpload(a) THEN <<"Content-Disposition", Filename(a)>>
               ELSE <<"Content-Disposition">>)
  BY DEF Line, IsUpload
<1>3. PICK up : up = Starts(a.value, "@")
  OBVIOUS
<1>4. PICK head : head =
        <<Delimiter, IF up THEN <<"Content-Disposition", Filename(a)>>
                     ELSE <<"Content-Disposition">>>>
  OBVIOUS
<1>5. CurlPart(a) =
        ((head \o (IF a.type THEN <<<<"Content-Type", "part">>>> ELSE <<>>)) \o <<<<>>>>) \o <<d>>
  BY <1>1, <1>3, <1>4 DEF CurlPart
<1>6. HeadOf(a) = (<<Delimiter>> \o <<head[2]>>)
                  \o IF a.type THEN <<<<"Content-Type", "part">>>> ELSE <<>>
  BY <1>3, <1>4 DEF HeadOf, Line, IsUpload
<1>7. <<Delimiter>> \o <<head[2]>> = head
  <2>1. PICK X : X = {Delimiter, head[2]}
    OBVIOUS
  <2>2. Delimiter \in X /\ head[2] \in X
    BY <2>1
  <2>3. <<Delimiter>> \o <<head[2]>> = <<Delimiter, head[2]>>
    BY <2>2, PairOf
  <2> QED
    BY <1>4, <2>3
<1> QED
  BY <1>5, <1>6, <1>7 DEF PartOf, Empty

LEMMA PartIs ==
    ASSUME NEW a \in Arg, NEW c,
           IF IsUpload(a) THEN <<c>> = Line(<<"<">> \o Tail(a.value[1]))
           ELSE <<c>> = BeforeSemicolon(a.value)
    PROVE  Part(a) = PartOf(HeadOf(a), c)
  BY DEF Part, PartOf, HeadOf, Line

(* Text before a ";", of one line.                                           *)
LEMMA CutLine ==
    ASSUME NEW l \in CleanLines
    PROVE  \E c \in CleanLines : BeforeSemicolon(<<l>>) = <<c>>
<1>0. l \in Seq(Pieces) /\ NoVariable(l) /\ ~Begins(l, "<")
  BY DEF CleanLines
<1>1. PICK v \in Seq(Seq(Pieces)) : v = <<l>> /\ Len(v) = 1 /\ v[1] = l
  BY <1>0, OneLine
<1> DEFINE I == {i \in 1..Len(v) : Contains(v[i], ";")}
<1>2. PICK n : n = IF I # {} THEN Min(I) ELSE 0
  OBVIOUS
<1>3. n \in 0..1
  <2>1. I \subseteq 1..1
    BY <1>1
  <2> HIDE DEF I
  <2> QED
    BY <1>2, <2>1, SelectedWithin
<1>4. n = SelectInSeq(v, LAMBDA x : Contains(x, ";"))
  BY <1>2 DEF SelectInSeq
<1> DEFINE J == {i \in 1..Len(v[n]) : v[n][i] = ";"}
<1>5. PICK m : m = IF J # {} THEN Min(J) ELSE 0
  OBVIOUS
<1>6. m = SelectInSeq(v[n], LAMBDA p : p = ";")
  BY <1>5 DEF SelectInSeq
<1>7. BeforeSemicolon(v) = IF n = 0 THEN v ELSE Append(SubSeq(v, 1, n - 1), SubSeq(v[n], 1, m - 1))
  BY <1>4, <1>6 DEF BeforeSemicolon
<1>8. CASE n = 0
  BY <1>1, <1>7, <1>8
<1>9. CASE n # 0
  <2>1. n = 1
    BY <1>3, <1>9
  <2>2. m \in 0..Len(l)
    <3>1. J \subseteq 1..Len(l)
      BY <1>1, <2>1
    <3>2. Len(l) \in Nat
      BY <1>0
    <3> HIDE DEF J
    <3> QED
      BY <1>5, <3>1, <3>2, SelectedWithin
  <2>3. PICK c \in Seq(Pieces) : c = SubSeq(l, 1, m - 1) /\ \A k \in 1..Len(c) : k \in 1..Len(l) /\ c[k] = l[k]
    <3>1. m - 1 \in Int /\ 1 \in Int /\ \A i \in 1..(m - 1) : l[i] \in Pieces
      BY <1>0, <2>2
    <3>2. SubSeq(l, 1, m - 1) \in Seq(Pieces)
      BY <3>1, SubSeqProperties
    <3>3. CASE m = 0
      <4>1. SubSeq(l, 1, m - 1) = <<>>
        BY <3>3, SubSeqEmpty
      <4>2. Len(<<>>) = 0 /\ \A k \in 1..0 : FALSE
        OBVIOUS
      <4> QED
        BY <3>2, <4>1, <4>2
    <3>4. CASE m # 0
      <4>1. Len(SubSeq(l, 1, m - 1)) = m - 1 /\ \A k \in 1..(m - 1) : SubSeq(l, 1, m - 1)[k] = l[k]
        BY <1>0, <2>2, <3>4
      <4>2. \A k \in 1..(m - 1) : k \in 1..Len(l)
        BY <1>0, <2>2, <3>4
      <4> QED
        BY <3>2, <4>1, <4>2
    <3> QED
      BY <3>3, <3>4
  <2>4. NoVariable(c)
    BY <1>0, <2>3 DEF NoVariable
  <2>5. ~Begins(c, "<")
    <3>1. Len(c) > 0 => 1 \in 1..Len(c)
      BY <2>3
    <3>2. 1 \in 1..Len(l) => Len(l) > 0
      BY <1>0
    <3> QED
      BY <1>0, <2>3, <3>1, <3>2 DEF Begins
  <2>6. c \in CleanLines
    BY <2>3, <2>4, <2>5 DEF CleanLines
  <2>7. SubSeq(v, 1, n - 1) = <<>>
    BY <2>1, SubSeqEmpty
  <2>8. Append(<<>>, c) = <<c>>
    OBVIOUS
  <2> QED
    BY <1>1, <1>7, <1>9, <2>1, <2>3, <2>6, <2>7, <2>8
<1> QED
  BY <1>8, <1>9

-----------------------------------------------------------------------------
(* A body of -F.                                                             *)
FilledLines == {l \in Seq(Pieces) : NoVariable(l)}

LEMMA HeadLines ==
    ASSUME NEW h \in Seq(HeadingLines)
    PROVE  /\ h \in Seq(SomeLine) /\ h \in Seq(FilledLines) /\ h \in Seq(Seq(Pieces))
           /\ \A k \in 1..Len(h) : NoVariable(h[k]) /\ ~Begins(h[k], "<")
<1>1. PICK L : L = Seq(Pieces)
  OBVIOUS
<1>2. \A k \in 1..Len(h) : h[k] \in HeadingLines
  OBVIOUS
<1>3. \A k \in 1..Len(h) : /\ h[k] \in SomeLine /\ h[k] \in FilledLines /\ h[k] \in L
                           /\ NoVariable(h[k]) /\ ~Begins(h[k], "<")
  BY <1>1, <1>2 DEF HeadingLines, FilledLines, SomeLine
<1>4. h \in Seq(SomeLine) /\ h \in Seq(FilledLines) /\ h \in Seq(L)
  BY <1>3, SeqInto
<1> QED
  BY <1>1, <1>3, <1>4

LEMMA PartOfFilled ==
    ASSUME NEW h \in Seq(FilledLines), NEW c \in FilledLines
    PROVE  PartOf(h, c) \in Seq(FilledLines)
<1>1. PICK e \in FilledLines : e = <<>>
  <2>1. <<>> \in Seq(Pieces) /\ NoVariable(<<>>)
    BY NoLine DEF NoVariable
  <2> QED
    BY <2>1 DEF FilledLines
<1>2. <<e>> \in Seq(FilledLines) /\ <<c>> \in Seq(FilledLines)
  BY OneLine
<1>3. (h \o <<e>>) \o <<c>> \in Seq(FilledLines)
  BY <1>2, LinesJoined
<1> QED
  BY <1>1, <1>3 DEF PartOf, Empty

LEMMA ReferenceFilled ==
    ASSUME NEW p \in Seq(Pieces), Len(p) > 0, NoVariable(p)
    PROVE  <<"<">> \o Tail(p) \in FilledLines /\ Begins(<<"<">> \o Tail(p), "<")
<1>1. PICK q \in Pieces : q = "<"
  BY PiecesAssumption
<1>2. PICK l \in Seq(Pieces) : l = <<q>> \o Tail(p)
  BY <1>1, ReferenceLine
<1>3. /\ Tail(p) \in Seq(Pieces) /\ Len(Tail(p)) = Len(p) - 1
      /\ \A k \in 1..(Len(p) - 1) : Tail(p)[k] = p[k + 1]
  <2>1. p # <<>>
    OBVIOUS
  <2> QED
    BY <2>1, FirstOf
<1>4. PICK t \in Seq(Pieces) : t = Tail(p)
  BY <1>3
<1>5. Len(l) = 1 + Len(t) /\ l[1] = q /\ \A i \in 1..Len(t) : l[1 + i] = t[i]
  BY <1>2, <1>4
<1>6. NoVariable(l)
  <2>1. ASSUME NEW i \in 1..Len(l)
        PROVE  l[i] # "{{var}}"
    <3>1. CASE i = 1
      BY <1>1, <1>5, <3>1
    <3>2. CASE i # 1
      <4>1. i - 1 \in 1..Len(t) /\ i = 1 + (i - 1) /\ i \in 1..Len(p) /\ i - 1 \in 1..(Len(p) - 1)
        BY <1>3, <1>4, <1>5, <3>2
      <4>2. l[i] = p[i]
        <5>1. l[i] = t[i - 1]
          BY <1>5, <4>1
        <5>2. t[i - 1] = p[(i - 1) + 1] /\ (i - 1) + 1 = i
          BY <1>3, <1>4, <4>1
        <5> QED
          BY <5>1, <5>2
      <4>3. p[i] # "{{var}}"
        BY <4>1 DEF NoVariable
      <4> QED
        BY <4>2, <4>3
    <3> QED
      BY <3>1, <3>2
  <2> QED
    BY <2>1 DEF NoVariable
<1>7. Begins(l, "<")
  BY <1>1, <1>5 DEF Begins
<1>8. l \in FilledLines
  BY <1>6 DEF FilledLines
<1> QED
  BY <1>1, <1>2, <1>7, <1>8

LEMMA FormPart ==
    ASSUME NEW a \in Args, CleanValue(a), ~HasLineEnd(a.value), IsUpload(a) => a.type
    PROVE  /\ Part(a) \in Seq(FilledLines)
           /\ Mapped(WithCR, Part(a)) = CurlLines(CurlPart(a))
<1>1. a \in Arg
  BY ArgsAssumption
<1>2. PICK h \in Seq(HeadingLines) : h = HeadOf(a)
  BY <1>1, HeadType
<1>3. PICK l \in CleanLines : l = a.value[1] /\ a.value = <<l>>
  <2>1. a.value = <<a.value[1]>> /\ Len(a.value) = 1
    BY SingleLine
  <2>2. a.value[1] \in CleanLines
    BY <2>1 DEF CleanValue
  <2> QED
    BY <2>1, <2>2
<1>4. l \in Seq(Pieces) /\ NoVariable(l) /\ ~Begins(l, "<") /\ ~Starts(a.value, "<")
  <2>1. l \in Seq(Pieces) /\ NoVariable(l) /\ ~Begins(l, "<")
    BY DEF CleanLines
  <2> QED
    BY <1>3, <2>1 DEF Starts
<1>5. \E c \in FilledLines, d \in Seq(Pieces) :
        Part(a) = PartOf(h, c) /\ CurlPart(a) = PartOf(h, d) /\ SentFor(c, d)
  <2>1. CASE IsUpload(a)
    <3>1. Len(l) > 0
      BY <1>3, <2>1 DEF IsUpload, Starts, Begins
    <3>2. PICK c \in FilledLines : c = <<"<">> \o Tail(l) /\ Begins(c, "<")
      BY <1>4, <3>1, ReferenceFilled
    <3>3. PICK p \in Pieces : p = "bytes"
      BY PiecesAssumption
    <3>4. PICK d \in Seq(Pieces) : d = <<p>>
      BY OneLine
    <3>5. Part(a) = PartOf(h, c)
      BY <1>1, <1>2, <1>3, <2>1, <3>2, PartIs DEF Line
    <3>6. <<d>> = <<<<"bytes">>>> /\ Starts(a.value, "@") /\ a.type
      BY <2>1, <3>3, <3>4 DEF IsUpload
    <3>7. CurlPart(a) = PartOf(h, d)
      BY <1>1, <1>2, <3>6, CurlPartOf
    <3>8. SentFor(c, d)
      BY <3>2, <3>3, <3>4 DEF SentFor
    <3> QED
      BY <3>5, <3>7, <3>8
  <2>2. CASE ~IsUpload(a)
    <3>1. PICK c \in CleanLines : BeforeSemicolon(<<l>>) = <<c>>
      BY CutLine
    <3>2. c \in FilledLines /\ c \in Seq(Pieces) /\ ~Begins(c, "<")
      BY DEF CleanLines, FilledLines
    <3>3. <<c>> = BeforeSemicolon(a.value)
      BY <1>3, <3>1
    <3>4. Part(a) = PartOf(h, c)
      BY <1>1, <1>2, <2>2, <3>3, PartIs
    <3>5. ~Starts(a.value, "@")
      BY <2>2 DEF IsUpload
    <3>6. CurlPart(a) = PartOf(h, c)
      BY <1>1, <1>2, <1>4, <3>3, <3>5, CurlPartOf
    <3>7. SentFor(c, c)
      BY <3>2 DEF SentFor
    <3> QED
      BY <3>2, <3>4, <3>6, <3>7
  <2> QED
    BY <2>1, <2>2
<1>6. PICK c \in FilledLines, d \in Seq(Pieces) :
        Part(a) = PartOf(h, c) /\ CurlPart(a) = PartOf(h, d) /\ SentFor(c, d)
  BY <1>5
<1>7. /\ h \in Seq(SomeLine) /\ h \in Seq(FilledLines)
      /\ \A k \in 1..Len(h) : ~Begins(h[k], "<")
  BY HeadLines
<1>8. c \in Seq(Pieces)
  BY DEF FilledLines
<1>9. PartOf(h, c) \in Seq(FilledLines)
  BY <1>7, PartOfFilled
<1>10. Mapped(WithCR, PartOf(h, c)) = CurlLines(PartOf(h, d))
  BY <1>6, <1>7, <1>8, PartSent
<1> QED
  BY <1>6, <1>9, <1>10

LEMMA FilledType ==
    ASSUME NEW v \in Seq(FilledLines)
    PROVE  v \in Seq(Seq(Pieces)) /\ FillAll(v) = v
<1>1. PICK L : L = Seq(Pieces)
  OBVIOUS
<1>2. \A k \in 1..Len(v) : v[k] \in L /\ NoVariable(v[k])
  BY <1>1 DEF FilledLines
<1>3. v \in Seq(L)
  BY <1>2, SeqInto
<1>4. v \in Seq(Seq(Pieces))
  BY <1>1, <1>3
<1> QED
  BY <1>2, <1>4, FillAllSame

LEMMA FormsSent ==
    ASSUME Unwarned, got.forms # <<>>
    PROVE  Splice(Unspliced(RequestOf(got))) = CurlBody(seen)
<1>1. PICK s \in Seq(Args) : s = seen
  BY DEF Unwarned, Filed
<1>2. PICK f \in Seq(Args) : f = Of(s, {"form"})
  BY AmongType DEF Of
<1>3. /\ f # <<>> /\ At(got.forms) = f /\ Len(f) = Len(got.forms)
      /\ \A j \in 1..Len(f) : \E k \in 1..Len(s) : f[j] = s[k] /\ s[k].is = "form"
  <2>1. \A j \in 1..Len(got.forms) : /\ f[j] = s[got.forms[j]] /\ got.forms[j] \in 1..Len(s)
                                     /\ TakenForm(s[got.forms[j]])
    BY <1>1, <1>2, FormsFound
  <2>2. f # <<>> /\ Len(f) = Len(got.forms) /\ f = PickedAt(s, got.forms)
    BY <1>1, <1>2, FormsFound
  <2>3. At(got.forms) = f
    BY <1>1, <2>2 DEF At, PickedAt
  <2> QED
    BY <2>1, <2>2, <2>3 DEF TakenForm
<1>4. \A j \in 1..Len(f) : /\ f[j] \in Args /\ CleanValue(f[j]) /\ ~HasLineEnd(f[j].value)
                           /\ IsUpload(f[j]) => f[j].type
  <2>1. ASSUME NEW j \in 1..Len(f)
        PROVE  /\ CleanValue(f[j]) /\ ~HasLineEnd(f[j].value)
               /\ IsUpload(f[j]) => f[j].type
    <3>1. PICK k \in 1..Len(s) : f[j] = s[k] /\ s[k].is = "form"
      BY <1>3
    <3>2. CleanValue(s[k])
      BY <1>1, LiteralClean DEF Unwarned
    <3>3. ~HasLineEnd(s[k].value)
      BY <1>1, <3>1 DEF Unwarned, Literal
    <3>4. IsUpload(s[k]) => s[k].type
      BY <1>1, <3>1 DEF Unwarned, SentTheSame
    <3> QED
      BY <3>1, <3>2, <3>3, <3>4
  <2> QED
    BY <2>1
<1>5. PICK n \in Nat : n = Len(f)
  OBVIOUS
<1>6. PICK p : p = [k \in 1..n |-> Part(f[k])]
  OBVIOUS
<1>7. \A k \in 1..n : /\ p[k] = Part(f[k]) /\ Part(f[k]) \in Seq(FilledLines)
                      /\ Mapped(WithCR, Part(f[k])) = CurlLines(CurlPart(f[k]))
  BY <1>4, <1>5, <1>6, FormPart
<1>8. p \in Seq(Seq(FilledLines)) /\ Len(p) = n
  <2>1. PICK M : M = Seq(FilledLines)
    OBVIOUS
  <2>2. \A k \in 1..n : p[k] \in M
    BY <1>7, <2>1
  <2>3. p \in Seq(M) /\ Len(p) = n
    BY <1>6, <2>2
  <2> QED
    BY <2>1, <2>3
<1>9. PICK u \in Seq(FilledLines) : u = FlattenSeq(p)
  BY <1>8, FlatText
<1>10. p \in Seq(Seq(Seq(Pieces)))
  <2>1. PICK M : M = Seq(Seq(Pieces))
    OBVIOUS
  <2>2. \A k \in 1..Len(p) : p[k] \in M
    BY <1>7, <1>8, <2>1, FilledType
  <2>3. p \in Seq(M)
    BY <1>8, <2>2, SeqInto
  <2> QED
    BY <2>1, <2>3
<1>11. Mapped(WithCR, u) = FlattenSeq([k \in 1..n |-> CurlLines(CurlPart(f[k]))])
  <2>1. PICK L : L = Seq(Pieces)
    OBVIOUS
  <2>2. Takes(WithCR, L, L) /\ p \in Seq(Seq(L))
    BY <1>10, <2>1, WithCRType
  <2>3. Mapped(WithCR, u) = FlattenSeq([k \in 1..Len(p) |-> Mapped(WithCR, p[k])])
    BY <1>9, <2>2, FlatMapped
  <2>4. [k \in 1..Len(p) |-> Mapped(WithCR, p[k])]
          = [k \in 1..n |-> CurlLines(CurlPart(f[k]))]
    BY <1>7, <1>8
  <2> QED
    BY <2>3, <2>4
<1>12. PICK body \in Seq(FilledLines) : body = u \o <<CloseDelimiter>>
  <2>1. PICK q \in Pieces : q = "--boundary--" /\ q # "{{var}}" /\ q # "<"
    BY PiecesAssumption
  <2>2. CloseDelimiter \in FilledLines
    BY <2>1, HeadingOne DEF CloseDelimiter, HeadingLines, FilledLines, SomeLine
  <2> QED
    BY <2>2, OneLine, LinesJoined
<1>13. BodyOf(got) = body
  <2>1. [k \in 1..Len(f) |-> Part(f[k])] = p
    BY <1>5, <1>6
  <2>2. Multipart(f) = Append(u, CloseDelimiter)
    BY <1>9, <2>1 DEF Multipart
  <2>3. Append(u, CloseDelimiter) = u \o <<CloseDelimiter>>
    <3>1. u \in Seq(Seq(Pieces)) /\ CloseDelimiter \in Seq(Pieces)
      BY FilledType, ClosingLine
    <3>2. PICK L : L = Seq(Pieces)
      OBVIOUS
    <3>3. PICK c \in L : c = CloseDelimiter
      BY <3>1, <3>2
    <3>4. u \in Seq(L)
      BY <3>1, <3>2
    <3>5. Append(u, c) = u \o <<c>>
      BY <3>4, AppendIsConcat
    <3> QED
      BY <3>3, <3>5
  <2>4. BodyOf(got) = Multipart(At(got.forms))
    BY DEF BodyOf
  <2> QED
    BY <1>3, <1>12, <2>2, <2>3, <2>4
<1>14. Unspliced(RequestOf(got)) = ToCRLF(body)
  <2>1. RequestOf(got).headers = HeadersOf(got) /\ RequestOf(got).body = body
    BY <1>13 DEF RequestOf
  <2>2. IsMultipart(FillHeaders(HeadersOf(got)))
    BY MultipartGiven
  <2>3. FillAll(body) = body
    BY FilledType
  <2> QED
    BY <2>1, <2>2, <2>3 DEF Unspliced
<1>15. Splice(ToCRLF(body)) = Mapped(WithCR, u) \o <<CloseDelimiter>>
  <2>1. u \in Seq(Seq(Pieces))
    BY FilledType
  <2> QED
    BY <1>12, <2>1, SplicedLines
<1>16. CurlBody(s) = FlattenSeq([k \in 1..n |-> CurlLines(CurlPart(f[k]))]) \o <<CloseDelimiter>>
  BY <1>2, <1>3, <1>5 DEF CurlBody, CurlForm
<1> QED
  BY <1>1, <1>11, <1>14, <1>15, <1>16

-----------------------------------------------------------------------------
(* The request as it is sent.                                                *)
LEMMA FourChanged ==
    ASSUME NEW r \in Request, NEW u, NEW p, NEW h, NEW b
    PROVE  [r EXCEPT !.url = u, !.proxy = p, !.headers = h, !.body = b]
             = [method |-> r.method, url |-> u, proxy |-> p, headers |-> h, body |-> b]
<1> DEFINE with(url, proxy, headers, body) ==
             [method |-> r.method, url |-> url, proxy |-> proxy, headers |-> headers, body |-> body]
<1>1. [r EXCEPT !.url = u, !.proxy = p, !.headers = h, !.body = b]
        = [[[[r EXCEPT !.url = u] EXCEPT !.proxy = p] EXCEPT !.headers = h] EXCEPT !.body = b]
  BY DEF Request
<1>2. [r EXCEPT !.url = u] = with(u, r.proxy, r.headers, r.body)
  BY DEF Request
<1>3. [with(u, r.proxy, r.headers, r.body) EXCEPT !.proxy = p] = with(u, p, r.headers, r.body)
  OBVIOUS
<1>4. [with(u, p, r.headers, r.body) EXCEPT !.headers = h] = with(u, p, h, r.body)
  OBVIOUS
<1>5. [with(u, p, h, r.body) EXCEPT !.body = b] = with(u, p, h, b)
  OBVIOUS
<1> QED
  BY <1>1, <1>2, <1>3, <1>4, <1>5

LEMMA Resolved ==
    ASSUME NEW r \in Request
    PROVE  Resolve(r) = [method |-> r.method, url |-> Fill(r.url), proxy |-> Fill(r.proxy),
                         headers |-> FillHeaders(r.headers), body |-> Splice(Unspliced(r))]
<1>1. PICK u, p, h, b : /\ u = Fill(r.url) /\ p = Fill(r.proxy) /\ h = FillHeaders(r.headers)
                        /\ b = Splice(Unspliced(r))
  OBVIOUS
<1>2. Resolve(r) = [r EXCEPT !.url = u, !.proxy = p, !.headers = h, !.body = b]
  BY <1>1 DEF Resolve
<1>3. Resolve(r) = [method |-> r.method, url |-> u, proxy |-> p, headers |-> h, body |-> b]
  BY <1>2, FourChanged
<1> QED
  BY <1>1, <1>3

LEMMA ClearUrl ==
    ASSUME Unwarned, Absolute(RequestOf(got).url)
    PROVE  Fill(RequestOf(got).url) = CurlUrl(seen)
<1>1. PICK s \in Seq(Args) : s = seen
  BY DEF Unwarned, Filed
<1>2. PICK m \in 1..Len(s) : m = got.url /\ s[m].value # Empty
  BY <1>1 DEF Unwarned, ParsesAs
<1>3. PICK a \in Args : a = s[m] /\ CleanValue(a)
  BY <1>1, LiteralClean DEF Unwarned
<1>4. RequestOf(got).url = a.value[1]
  BY <1>1, <1>2, <1>3 DEF RequestOf
<1>8. a.value[1] \in Seq(Pieces) /\ NoVariable(a.value[1])
  <2>1. 1 \in 1..Len(a.value) /\ a.value[1] \in Seq(Pieces)
    BY ValueLines
  <2> QED
    BY <1>3, <2>1 DEF CleanValue
<1>5. a.is # "dashes"
  <2>1. <<<<"schemeless">>>>[1][1] = "schemeless"
    OBVIOUS
  <2>2. a.value[1][1] \in Origins
    <3>1. Fill(a.value[1]) = a.value[1]
      BY <1>8, FillSame
    <3> QED
      BY <1>4, <3>1 DEF Absolute
  <2>3. "schemeless" \notin Origins
    BY OriginsAssumption
  <2> QED
    BY <2>1, <2>2, <2>3, DashesAssumption
<1>6. Of(s, {"url", "positional"}) = <<a>>
  BY <1>1, <1>2, <1>3, <1>5, UrlFound
<1>7. CurlUrl(s) = a.value[1]
  <2>1. <<a>> # <<>> /\ <<a>>[1] = a
    OBVIOUS
  <2> QED
    BY <1>6, <2>1 DEF CurlUrl
<1> QED
  BY <1>1, <1>4, <1>7, <1>8, FillSame

LEMMA ClearProxy ==
    ASSUME Unwarned
    PROVE  Fill(RequestOf(got).proxy) = CurlProxy(seen)
<1>1. PICK s \in Seq(Args) : s = seen
  BY DEF Unwarned, Filed
<1>2. PICK m \in 0..Len(s) : m = got.proxy
  BY <1>1 DEF Unwarned, ParsesAs
<1>3. RequestOf(got).proxy = IF m = 0 THEN <<>> ELSE s[m].value[1]
  BY <1>1, <1>2 DEF RequestOf
<1>4. Of(s, {"proxy"}) = IF m = 0 THEN <<>> ELSE <<s[m]>>
  BY <1>1, <1>2, ProxyFound
<1>5. CASE m = 0
  <2>1. CurlProxy(s) = <<>>
    BY <1>4, <1>5 DEF CurlProxy
  <2>2. <<>> \in Seq(Pieces) /\ NoVariable(<<>>)
    BY NoLine DEF NoVariable
  <2> QED
    BY <1>1, <1>3, <1>5, <2>1, <2>2, FillSame
<1>6. CASE m # 0
  <2>1. PICK a \in Args : a = s[m] /\ CleanValue(a)
    BY <1>1, <1>6, LiteralClean DEF Unwarned
  <2>2. Of(s, {"proxy"}) = <<a>>
    BY <1>4, <1>6, <2>1
  <2>3. CurlProxy(s) = a.value[1]
    <3>1. <<a>> # <<>> /\ Last(<<a>>) = a
      BY DEF Last
    <3> QED
      BY <2>2, <3>1 DEF CurlProxy
  <2>4. a.value[1] \in Seq(Pieces) /\ NoVariable(a.value[1])
    <3>1. 1 \in 1..Len(a.value) /\ a.value[1] \in Seq(Pieces)
      BY ValueLines
    <3> QED
      BY <2>1, <3>1 DEF CleanValue
  <2> QED
    BY <1>1, <1>3, <1>6, <2>1, <2>3, <2>4, FillSame
<1> QED
  BY <1>5, <1>6

LEMMA RequestSent ==
    ASSUME Unwarned, RequestOf(got) \in Request, Absolute(RequestOf(got).url)
    PROVE  Resolve(RequestOf(got)) = CurlSends(seen)
<1>1. PICK r \in Request : r = RequestOf(got)
  OBVIOUS
<1>2. Resolve(r) = [method |-> r.method, url |-> Fill(r.url), proxy |-> Fill(r.proxy),
                    headers |-> FillHeaders(r.headers), body |-> Splice(Unspliced(r))]
  BY Resolved
<1>3. r.method = CurlMethod(seen)
  BY <1>1, MethodSent DEF RequestOf
<1>4. Fill(r.url) = CurlUrl(seen) /\ Fill(r.proxy) = CurlProxy(seen)
  BY <1>1, ClearUrl, ClearProxy
<1>5. FillHeaders(r.headers) = CurlHeaders(seen)
  <2>1. r.headers = HeadersOf(got)
    BY <1>1 DEF RequestOf
  <2> QED
    BY <2>1, HeadersSent
<1>6. Splice(Unspliced(r)) = CurlBody(seen)
  BY <1>1, FormsSent, FileSent, ValuesSent
<1>7. CurlSends(seen) =
        [method |-> CurlMethod(seen), url |-> CurlUrl(seen),
         proxy |-> CurlProxy(seen),
         headers |-> CurlHeaders(seen), body |-> CurlBody(seen)]
  BY DEF CurlSends
<1> QED
  BY <1>1, <1>2, <1>3, <1>4, <1>5, <1>6, <1>7

LEMMA SentAlways == Converting /\ Ordered => SendsAsCurl
<1> SUFFICES ASSUME Converting, Ordered, request # None, block # None, ~block.errors,
                    Plain(request), Unambiguous, Literal(seen), SentTheSame(seen)
             PROVE  Same(Resolve(block.request), CurlSends(seen))
  BY DEF SendsAsCurl, Converted
<1>1. Writable(request) /\ request = RequestOf(got) /\ ParsesAs(got)
  BY DEF Converting, HasRequest
<1>2. block.request = request /\ Absolute(request.url)
  <2>1. block = ReadBlock(Scanned(Format(request)))
    BY DEF Converting, HasBlock
  <2>2. ReadBlock(Scanned(Format(request))) =
            [request |-> request, errors |-> Unresolvable(request), alone |-> TRUE]
    BY <1>1, ReadsBack
  <2>3. ~Unresolvable(request)
    BY <2>1, <2>2
  <2> QED
    BY <2>1, <2>2, <2>3 DEF Unresolvable
<1>a. NoEmptyPaths(seen)
  BY DEF SentTheSame, EmptyPath, NamesFile, NoEmptyPaths
<1>3. Unwarned
  BY <1>1, <1>a DEF Unwarned, Converting
<1>4. RequestOf(got) \in Request /\ Absolute(RequestOf(got).url)
  BY <1>1, <1>2 DEF Writable
<1>5. Resolve(block.request) = CurlSends(seen)
  BY <1>1, <1>2, <1>3, <1>4, RequestSent
<1> QED
  BY <1>5 DEF Same

(* What httpfly sends for the file that from-curl prints is what curl itself *)
(* sends for the command, line ends and order included, when the command     *)
(* was taken without a warning, none of its values has a meaning in a file,  *)
(* and it leaves nothing to what curl alone does: a method in small letters, *)
(* a Content-Type that curl adds to a body or an upload, or a -d @file, of   *)
(* which curl drops the line ends (Parse, formatBlock, the parser and        *)
(* Resolve, together).                                                       *)
THEOREM SentAsCurl == Spec => []SendsAsCurl
<1>1. Init => Ordered
  BY OrderedInit
<1>2. Converting /\ Ordered /\ [Next]_vars => Ordered'
  BY OrderedStep DEF Converting
<1>3. Converting /\ Ordered => SendsAsCurl
  BY SentAlways
<1> QED
  BY <1>1, <1>2, <1>3, ConvertingAlways, PTL DEF Spec

-----------------------------------------------------------------------------
(* The command that to-curl prints: its groups of arguments.                 *)
Opening(r) == <<Argument("positional", <<Fill(r.url)>>), Argument("method", <<r.method>>)>>
ProxyArguments(r) ==
    IF r.proxy = <<>> THEN <<>> ELSE <<Argument("proxy", <<Fill(r.proxy)>>)>>
KeptHeaders(r) ==
    LET filled == FillHeaders(r.headers)
    IN Among(filled, {l \in Range(filled) : ~(HasParts(r) /\ l[1] = "Content-Type")})

(* Only arguments of these kinds.                                            *)
AreAll(args, kinds) ==
    args \in Seq(Arg) /\ \A k \in 1..Len(args) : args[k].is \in kinds

LEMMA AreAllOne ==
    ASSUME NEW is \in Kinds, NEW value \in Text
    PROVE  AreAll(<<Argument(is, value)>>, {is})
<1>1. PICK a \in Arg : a = Argument(is, value) /\ a.is = is
  BY ArgumentType
<1>2. PICK s \in Seq(Arg) : s = <<a>> /\ Len(s) = 1 /\ s[1] = a
  BY OneLine
<1>3. \A k \in 1..Len(s) : s[k].is \in {is}
  BY <1>1, <1>2, FirstNumbers
<1> QED
  BY <1>1, <1>2, <1>3 DEF AreAll

LEMMA AreAllNone ==
    ASSUME NEW kinds
    PROVE  AreAll(<<>>, kinds)
  BY NoLine DEF AreAll

LEMMA OpeningGiven ==
    ASSUME Bound, NEW r \in Request
    PROVE  /\ Opening(r) \in Seq(Arg) /\ Len(Opening(r)) = 2
           /\ Opening(r)[1] \in Arg /\ Opening(r)[2] \in Arg
           /\ Opening(r)[1].is = "positional" /\ Opening(r)[1].value = <<Fill(r.url)>>
           /\ Opening(r)[2].is = "method" /\ Opening(r)[2].value = <<r.method>>
<1>1. PICK u \in Text : u = <<Fill(r.url)>>
  <2>1. Fill(r.url) \in Seq(Pieces)
    BY FillType DEF Request, SomeLine
  <2> QED
    BY <2>1, OneLine DEF Text
<1>2. PICK m \in Text : m = <<r.method>>
  <2>1. r.method \in Seq(Pieces)
    BY DEF Request, SomeLine
  <2> QED
    BY <2>1, OneLine DEF Text
<1>3. PICK a \in Arg : a = Argument("positional", u) /\ a.is = "positional" /\ a.value = u
  BY ArgumentType DEF Kinds
<1>4. PICK b \in Arg : b = Argument("method", m) /\ b.is = "method" /\ b.value = m
  BY ArgumentType DEF Kinds
<1>5. PICK s \in Seq(Arg) : s = <<a, b>>
  BY PairOf
<1>6. Len(s) = 2 /\ s[1] = a /\ s[2] = b
  BY <1>5
<1>7. Opening(r) = s
  BY <1>1, <1>2, <1>3, <1>4, <1>5 DEF Opening
<1> QED
  BY <1>1, <1>2, <1>3, <1>4, <1>6, <1>7

LEMMA ProxyGiven ==
    ASSUME Bound, NEW r \in Request
    PROVE  AreAll(ProxyArguments(r), {"proxy"})
<1>1. PICK p \in Text : p = <<Fill(r.proxy)>>
  <2>1. Fill(r.proxy) \in Seq(Pieces)
    BY FillType DEF Request
  <2> QED
    BY <2>1, OneLine DEF Text
<1>2. AreAll(<<Argument("proxy", p)>>, {"proxy"}) /\ AreAll(<<>>, {"proxy"})
  BY AreAllOne, AreAllNone DEF Kinds
<1> QED
  BY <1>1, <1>2 DEF ProxyArguments

LEMMA KeptGiven ==
    ASSUME Bound, NEW r \in Request
    PROVE  /\ KeptHeaders(r) \in Seq(SomeLine)
           /\ HeaderArguments(r) = [k \in 1..Len(KeptHeaders(r)) |-> Argument("header", <<KeptHeaders(r)[k]>>)]
           /\ AreAll(HeaderArguments(r), {"header"})
<1>1. PICK f \in Seq(SomeLine) : f = FillHeaders(r.headers)
  BY FillHeadersType DEF Request
<1>2. PICK kept \in Seq(SomeLine) : kept = KeptHeaders(r)
  BY <1>1, AmongType DEF KeptHeaders
<1>3. PICK h \in Seq(Arg) : h = HeaderArguments(r)
  BY HeaderArgumentsType
<1>4. h = [k \in 1..Len(kept) |-> Argument("header", <<kept[k]>>)]
  BY <1>2, <1>3 DEF HeaderArguments, KeptHeaders
<1>5. Len(kept) \in Nat
  OBVIOUS
<1>6. Len(h) = Len(kept)
  BY <1>4, <1>5
<1>7. \A k \in 1..Len(h) : h[k].is \in {"header"}
  BY <1>4, <1>6 DEF Argument
<1> QED
  BY <1>2, <1>3, <1>4, <1>7 DEF AreAll

LEMMA BodyGiven ==
    ASSUME Bound, NEW r \in Request
    PROVE  AreAll(BodyArguments(r), IF HasParts(r) THEN {"form"} ELSE {"binary", "raw"})
<1>1. r.body \in Text /\ r.body \in Seq(Seq(Pieces))
  BY DEF Request, Text
<1>2. CASE HasParts(r)
  <2>1. PICK s \in Seq(Segment) : s = Segments(r.body)
    BY <1>1, SegmentsType
  <2>2. PICK b \in Seq(Arg) : b = BodyArguments(r)
    BY BodyArgumentsType
  <2>3. b = [n \in 1..Len(s) |-> FormFlag(s[n])]
    BY <1>2, <2>1, <2>2 DEF BodyArguments
  <2>4. Len(s) \in Nat
    OBVIOUS
  <2>5. Len(b) = Len(s)
    BY <2>3, <2>4
  <2>6. \A n \in 1..Len(b) : b[n].is = "form"
    <3>1. \A x : FormFlag(x).is = "form"
      BY DEF FormFlag, Argument
    <3> QED
      BY <2>3, <2>5, <3>1
  <2> QED
    BY <1>2, <2>2, <2>6 DEF AreAll
<1>3. CASE ~HasParts(r) /\ OnlyFile(r.body)
  <2>1. PICK t \in Text : t = <<<<"@">> \o Tail(r.body[1])>>
    BY <1>1, <1>3, UploadValue
  <2>2. AreAll(<<Argument("binary", t)>>, {"binary"})
    BY AreAllOne DEF Kinds
  <2>3. BodyArguments(r) = <<Argument("binary", t)>>
    BY <1>3, <2>1 DEF BodyArguments
  <2> QED
    BY <1>3, <2>2, <2>3 DEF AreAll
<1>4. CASE ~HasParts(r) /\ ~OnlyFile(r.body) /\ r.body # Empty
  <2>1. PICK t \in Text : t = Unspliced(r)
    BY UnsplicedType
  <2>2. AreAll(<<Argument("raw", t)>>, {"raw"})
    BY AreAllOne DEF Kinds
  <2>3. BodyArguments(r) = <<Argument("raw", t)>>
    BY <1>4, <2>1 DEF BodyArguments
  <2> QED
    BY <1>4, <2>2, <2>3 DEF AreAll
<1>5. CASE ~HasParts(r) /\ ~OnlyFile(r.body) /\ r.body = Empty
  <2>1. BodyArguments(r) = <<>>
    BY <1>5 DEF BodyArguments
  <2> QED
    BY <1>5, <2>1, AreAllNone
<1> QED
  BY <1>2, <1>3, <1>4, <1>5

(* What is taken of the command is what is taken of each group.              *)
LEMMA CommandAmong ==
    ASSUME Bound, NEW r \in Request, NEW S
    PROVE  Among(CommandOf(r), S) =
             ((Among(Opening(r), S) \o Among(HeaderArguments(r), S))
              \o Among(ProxyArguments(r), S)) \o Among(BodyArguments(r), S)
<1>1. PICK o \in Seq(Arg) : o = Opening(r)
  BY OpeningGiven
<1>2. PICK h \in Seq(Arg) : h = HeaderArguments(r)
  BY HeaderArgumentsType
<1>3. PICK p \in Seq(Arg) : p = ProxyArguments(r)
  BY ProxyGiven DEF AreAll
<1>4. PICK b \in Seq(Arg) : b = BodyArguments(r)
  BY BodyArgumentsType
<1>5. CommandOf(r) = ((o \o h) \o p) \o b
  BY <1>1, <1>2, <1>3, <1>4 DEF CommandOf, Opening, ProxyArguments
<1>6. PICK u \in Seq(Arg) : u = o \o h
  BY LinesJoined
<1>7. PICK v \in Seq(Arg) : v = u \o p
  BY LinesJoined
<1>8. AmongParted(o, h, S) /\ AmongParted(u, p, S) /\ AmongParted(v, b, S)
  BY AmongJoined
<1>9. Among(u, S) = Among(o, S) \o Among(h, S)
  BY <1>6, <1>8 DEF AmongParted
<1>10. Among(v, S) = Among(u, S) \o Among(p, S)
  BY <1>7, <1>8 DEF AmongParted
<1>11. Among(v \o b, S) = Among(v, S) \o Among(b, S)
  BY <1>8 DEF AmongParted
<1> QED
  BY <1>1, <1>2, <1>3, <1>4, <1>5, <1>6, <1>7, <1>9, <1>10, <1>11

LEMMA GroupAll ==
    ASSUME NEW s, NEW kinds, AreAll(s, kinds), NEW S, \A a \in Arg : a.is \in kinds => a \in S
    PROVE  Among(s, S) = s
<1>1. s \in Seq(Arg) /\ \A k \in 1..Len(s) : s[k] \in S
  BY DEF AreAll
<1> QED
  BY <1>1, AmongAll

LEMMA GroupNone ==
    ASSUME NEW s, NEW kinds, AreAll(s, kinds), NEW S, \A a \in Arg : a.is \in kinds => a \notin S
    PROVE  Among(s, S) = <<>>
<1>1. s \in Seq(Arg) /\ \A k \in 1..Len(s) : s[k] \notin S
  BY DEF AreAll
<1> QED
  BY <1>1, AmongNone

LEMMA OneGroup ==
    ASSUME NEW X, NEW s \in Seq(X)
    PROVE  /\ ((s \o <<>>) \o <<>>) \o <<>> = s
           /\ ((<<>> \o s) \o <<>>) \o <<>> = s
           /\ ((<<>> \o <<>>) \o s) \o <<>> = s
           /\ ((<<>> \o <<>>) \o <<>>) \o s = s
<1>1. s \o <<>> = s /\ <<>> \o s = s
  OBVIOUS
<1>2. <<>> \o <<>> = <<>>
  OBVIOUS
<1> QED
  BY <1>1, <1>2

-----------------------------------------------------------------------------
(* What curl sends for the command that to-curl prints.                      *)
BodyIs(r) == IF HasParts(r) THEN {"form"} ELSE {"binary", "raw"}

LEMMA OfCommand ==
    ASSUME Bound, NEW r \in Request, NEW kinds
    PROVE  Of(CommandOf(r), kinds) = Among(CommandOf(r), {a \in Arg : a.is \in kinds})
<1>1. CommandOf(r) \in Seq(Arg)
  BY CommandType
<1> QED
  BY <1>1, OfIs

(* One of the first two arguments, and nothing of the rest.                  *)
LEMMA OfOpening ==
    ASSUME Bound, NEW r \in Request, NEW S, NEW k \in {1, 2},
           \A a \in Arg : a.is \in {"header", "proxy", "form", "binary", "raw"} => a \notin S,
           \A j \in {1, 2} : Opening(r)[j] \in S <=> j = k
    PROVE  Among(CommandOf(r), S) = <<Opening(r)[k]>>
<1>1. PICK o \in Seq(Arg) : o = Opening(r) /\ Len(o) = 2
  BY OpeningGiven
<1>2. Among(o, S) = <<o[k]>>
  <2>1. 1..Len(o) = {1, 2}
    BY <1>1
  <2>2. k \in 1..Len(o) /\ o[k] \in S /\ \A j \in 1..Len(o) : o[j] \in S => j = k
    BY <1>1, <2>1
  <2> QED
    BY <2>2, AmongOnly
<1>3. Among(HeaderArguments(r), S) = <<>>
  BY KeptGiven, GroupNone
<1>4. Among(ProxyArguments(r), S) = <<>>
  BY ProxyGiven, GroupNone
<1>5. Among(BodyArguments(r), S) = <<>>
  <2>1. AreAll(BodyArguments(r), BodyIs(r))
    BY BodyGiven DEF BodyIs
  <2>2. \A a \in Arg : a.is \in BodyIs(r) => a \notin S
    BY DEF BodyIs
  <2> QED
    BY <2>1, <2>2, GroupNone
<1>6. PICK x \in Seq(Arg) : x = <<o[k]>>
  <2>1. o[k] \in Arg
    BY <1>1
  <2> QED
    BY <2>1, OneLine
<1>7. Among(CommandOf(r), S) = ((x \o <<>>) \o <<>>) \o <<>>
  BY <1>1, <1>2, <1>3, <1>4, <1>5, <1>6, CommandAmong
<1>8. Among(CommandOf(r), S) = x
  BY <1>7, OneGroup
<1> QED
  BY <1>1, <1>6, <1>8

LEMMA UrlAgain ==
    ASSUME Bound, NEW r \in Request
    PROVE  CurlUrl(CommandOf(r)) = Fill(r.url)
<1>1. PICK kinds : kinds = {"url", "positional"}
  OBVIOUS
<1>2. PICK S : S = {a \in Arg : a.is \in kinds}
  OBVIOUS
<1>3. PICK o \in Seq(Arg) : /\ o = Opening(r) /\ Len(o) = 2 /\ o[1].is = "positional"
                            /\ o[2].is = "method" /\ o[1].value = <<Fill(r.url)>>
  BY OpeningGiven
<1>4. o[1] \in Arg /\ o[2] \in Arg
  BY <1>3, OpeningGiven
<1>5. o[1] \in S /\ o[2] \notin S
  BY <1>1, <1>2, <1>3, <1>4
<1>6. \A a \in Arg : a.is \in {"header", "proxy", "form", "binary", "raw"} => a \notin S
  BY <1>1, <1>2
<1>7. Among(CommandOf(r), S) = <<o[1]>>
  BY <1>3, <1>5, <1>6, OfOpening
<1>8. PICK v \in Arg : v = o[1] /\ v.value = <<Fill(r.url)>>
  BY <1>3, <1>4
<1>9. Of(CommandOf(r), kinds) = <<v>>
  BY <1>2, <1>7, <1>8, OfCommand
<1>10. CurlUrl(CommandOf(r)) = v.value[1]
  <2>1. <<v>> # <<>> /\ <<v>>[1] = v
    OBVIOUS
  <2> QED
    BY <1>1, <1>9, <2>1 DEF CurlUrl
<1> QED
  BY <1>1, <1>8, <1>10

LEMMA MethodAgain ==
    ASSUME Bound, NEW r \in Request
    PROVE  CurlMethod(CommandOf(r)) = r.method
<1>1. PICK c \in Seq(Arg) : c = CommandOf(r)
  BY CommandType
<1>2. PICK S : S = {a \in Arg : a.is = "method" /\ a.value # Empty}
  OBVIOUS
<1>3. PICK o \in Seq(Arg) : /\ o = Opening(r) /\ Len(o) = 2 /\ o[1].is = "positional"
                            /\ o[2].is = "method" /\ o[2].value = <<r.method>>
  BY OpeningGiven
<1>4. o[1] \in Arg /\ o[2] \in Arg
  BY <1>3, OpeningGiven
<1>5. <<r.method>> # Empty
  <2>1. r.method # <<>>
    BY DEF Request, SomeLine
  <2>2. <<r.method>>[1] # Empty[1]
    BY <2>1 DEF Empty
  <2> QED
    BY <2>2
<1>6. o[1] \notin S /\ o[2] \in S
  BY <1>2, <1>3, <1>4, <1>5
<1>7. \A a \in Arg : a.is \in {"header", "proxy", "form", "binary", "raw"} => a \notin S
  BY <1>2
<1>8. Among(c, S) = <<o[2]>>
  BY <1>1, <1>3, <1>6, <1>7, OfOpening
<1>9. Among(c, {a \in Range(c) : a.is = "method" /\ a.value # Empty}) = Among(c, S)
  <2>1. PICK T : T = {a \in Range(c) : a.is = "method" /\ a.value # Empty}
    OBVIOUS
  <2>2. \A k \in 1..Len(c) : c[k] \in T <=> c[k] \in S
    <3>1. \A k \in 1..Len(c) : c[k] \in Range(c) /\ c[k] \in Arg
      BY DEF Range
    <3> QED
      BY <1>2, <2>1, <3>1
  <2>3. Among(c, T) = Among(c, S)
    BY <2>2, AmongSame
  <2> QED
    BY <2>1, <2>3
<1>10. PICK m \in Arg : m = o[2] /\ m.value = <<r.method>>
  BY <1>3, <1>4
<1>11. CurlMethod(c) = Last(<<m>>).value[1]
  <2>1. <<m>> # <<>>
    OBVIOUS
  <2> QED
    BY <1>8, <1>9, <1>10, <2>1 DEF CurlMethod
<1>12. Last(<<m>>) = m
  BY DEF Last
<1> QED
  BY <1>1, <1>10, <1>11, <1>12

LEMMA ProxyAgain ==
    ASSUME Bound, NEW r \in Request
    PROVE  CurlProxy(CommandOf(r)) = Fill(r.proxy)
<1>1. PICK kinds : kinds = {"proxy"}
  OBVIOUS
<1>2. PICK S : S = {a \in Arg : a.is \in kinds}
  OBVIOUS
<1>3. PICK o \in Seq(Arg) : /\ o = Opening(r) /\ Len(o) = 2 /\ o[1].is = "positional"
                            /\ o[2].is = "method"
  BY OpeningGiven
<1>4. Among(o, S) = <<>>
  <2>1. 1..Len(o) = {1, 2}
    BY <1>3
  <2>2. \A k \in 1..Len(o) : o[k] \notin S
    BY <1>1, <1>2, <1>3, <2>1
  <2> QED
    BY <2>2, AmongNone
<1>5. Among(HeaderArguments(r), S) = <<>>
  <2>1. \A a \in Arg : a.is \in {"header"} => a \notin S
    BY <1>1, <1>2
  <2> QED
    BY <2>1, KeptGiven, GroupNone
<1>6. Among(BodyArguments(r), S) = <<>>
  <2>1. AreAll(BodyArguments(r), BodyIs(r))
    BY BodyGiven DEF BodyIs
  <2>2. \A a \in Arg : a.is \in BodyIs(r) => a \notin S
    BY <1>1, <1>2 DEF BodyIs
  <2> QED
    BY <2>1, <2>2, GroupNone
<1>7. PICK p \in Seq(Arg) : p = ProxyArguments(r)
  BY ProxyGiven DEF AreAll
<1>8. Among(p, S) = p
  <2>1. \A a \in Arg : a.is \in {"proxy"} => a \in S
    BY <1>1, <1>2
  <2> QED
    BY <1>7, <2>1, ProxyGiven, GroupAll
<1>9. Among(CommandOf(r), S) = ((<<>> \o <<>>) \o p) \o <<>>
  BY <1>3, <1>4, <1>5, <1>6, <1>7, <1>8, CommandAmong
<1>10. Of(CommandOf(r), kinds) = p
  BY <1>2, <1>9, OfCommand, OneGroup
<1>11. CASE r.proxy = <<>>
  <2>1. p = <<>>
    BY <1>7, <1>11 DEF ProxyArguments
  <2>2. CurlProxy(CommandOf(r)) = <<>>
    BY <1>1, <1>10, <2>1 DEF CurlProxy
  <2>3. Fill(<<>>) = <<>>
    <3>1. <<>> \in Seq(Pieces) /\ NoVariable(<<>>)
      BY NoLine DEF NoVariable
    <3> QED
      BY <3>1, FillSame
  <2> QED
    BY <1>1, <1>11, <2>2, <2>3
<1>12. CASE r.proxy # <<>>
  <2>1. PICK v : v = Argument("proxy", <<Fill(r.proxy)>>)
    OBVIOUS
  <2>2. p = <<v>>
    BY <1>7, <1>12, <2>1 DEF ProxyArguments
  <2>3. <<v>> # <<>> /\ Last(<<v>>) = v
    BY DEF Last
  <2>4. CurlProxy(CommandOf(r)) = v.value[1]
    BY <1>1, <1>10, <2>2, <2>3 DEF CurlProxy
  <2>5. v.value = <<Fill(r.proxy)>>
    BY <2>1 DEF Argument
  <2> QED
    BY <1>1, <2>4, <2>5
<1> QED
  BY <1>11, <1>12

(* The arguments of the body, of those kinds or of none of them.             *)
LEMMA BodyAgain ==
    ASSUME Bound, NEW r \in Request, NEW kinds,
           \A x \in {"positional", "method", "header", "proxy"} : x \notin kinds
    PROVE  /\ BodyIs(r) \subseteq kinds => Of(CommandOf(r), kinds) = BodyArguments(r)
           /\ BodyIs(r) \cap kinds = {} => Of(CommandOf(r), kinds) = <<>>
<1>1. PICK S : S = {a \in Arg : a.is \in kinds}
  OBVIOUS
<1>2. PICK o \in Seq(Arg) : /\ o = Opening(r) /\ Len(o) = 2 /\ o[1].is = "positional"
                            /\ o[2].is = "method"
  BY OpeningGiven
<1>3. Among(o, S) = <<>>
  <2>1. 1..Len(o) = {1, 2}
    BY <1>2
  <2>2. \A k \in 1..Len(o) : o[k] \notin S
    BY <1>1, <1>2, <2>1
  <2> QED
    BY <2>2, AmongNone
<1>4. Among(HeaderArguments(r), S) = <<>>
  <2>1. \A a \in Arg : a.is \in {"header"} => a \notin S
    BY <1>1
  <2> QED
    BY <2>1, KeptGiven, GroupNone
<1>5. Among(ProxyArguments(r), S) = <<>>
  <2>1. \A a \in Arg : a.is \in {"proxy"} => a \notin S
    BY <1>1
  <2> QED
    BY <2>1, ProxyGiven, GroupNone
<1>6. PICK b \in Seq(Arg) : b = BodyArguments(r)
  BY BodyArgumentsType
<1>7. AreAll(b, BodyIs(r))
  BY <1>6, BodyGiven DEF BodyIs
<1>8. PICK x \in Seq(Arg) : x = Among(b, S)
  BY AmongType
<1>9. Among(CommandOf(r), S) = ((<<>> \o <<>>) \o <<>>) \o x
  BY <1>2, <1>3, <1>4, <1>5, <1>6, <1>8, CommandAmong
<1>10. Of(CommandOf(r), kinds) = x
  BY <1>1, <1>9, OfCommand, OneGroup
<1>11. ASSUME BodyIs(r) \subseteq kinds
       PROVE  x = b
  <2>1. \A a \in Arg : a.is \in BodyIs(r) => a \in S
    BY <1>1, <1>11
  <2> QED
    BY <1>7, <1>8, <2>1, GroupAll
<1>12. ASSUME BodyIs(r) \cap kinds = {}
       PROVE  x = <<>>
  <2>1. \A a \in Arg : a.is \in BodyIs(r) => a \notin S
    BY <1>1, <1>12
  <2> QED
    BY <1>7, <1>8, <2>1, GroupNone
<1> QED
  BY <1>6, <1>10, <1>11, <1>12

-----------------------------------------------------------------------------
(* The headers that curl sends for the command, and those of the block.      *)
Types == {l \in SomeLine : l[1] = "Content-Type"}
NoTypes == {l \in SomeLine : l[1] # "Content-Type"}

LEMMA TypesAmong ==
    ASSUME NEW h \in Seq(SomeLine)
    PROVE  /\ ContentTypes(h) = Among(h, Types)
           /\ Among(h, {l \in Range(h) : l[1] # "Content-Type"}) = Among(h, NoTypes)
<1>1. \A k \in 1..Len(h) : h[k] \in Range(h) /\ h[k] \in SomeLine
  BY DEF Range
<1>2. PICK T : T = {l \in Range(h) : l[1] = "Content-Type"}
  OBVIOUS
<1>3. PICK N : N = {l \in Range(h) : l[1] # "Content-Type"}
  OBVIOUS
<1>4. \A k \in 1..Len(h) : h[k] \in T <=> h[k] \in Types
  BY <1>1, <1>2 DEF Types
<1>5. \A k \in 1..Len(h) : h[k] \in N <=> h[k] \in NoTypes
  BY <1>1, <1>3 DEF NoTypes
<1>6. Among(h, T) = Among(h, Types) /\ Among(h, N) = Among(h, NoTypes)
  BY <1>4, <1>5, AmongSame
<1> QED
  BY <1>2, <1>3, <1>6 DEF ContentTypes

LEMMA KeptIs ==
    ASSUME Bound, NEW r \in Request
    PROVE  KeptHeaders(r) = IF HasParts(r) THEN Among(FillHeaders(r.headers), NoTypes)
                            ELSE FillHeaders(r.headers)
<1>1. PICK f \in Seq(SomeLine) : f = FillHeaders(r.headers)
  BY FillHeadersType DEF Request
<1>2. PICK S : S = {l \in Range(f) : ~(HasParts(r) /\ l[1] = "Content-Type")}
  OBVIOUS
<1>3. KeptHeaders(r) = Among(f, S)
  BY <1>1, <1>2 DEF KeptHeaders
<1>4. \A k \in 1..Len(f) : f[k] \in Range(f) /\ f[k] \in SomeLine
  BY DEF Range
<1>5. CASE HasParts(r)
  <2>1. \A k \in 1..Len(f) : f[k] \in S <=> f[k] \in NoTypes
    BY <1>2, <1>4, <1>5 DEF NoTypes
  <2>2. Among(f, S) = Among(f, NoTypes)
    BY <2>1, AmongSame
  <2> QED
    BY <1>1, <1>3, <1>5, <2>2
<1>6. CASE ~HasParts(r)
  <2>1. \A k \in 1..Len(f) : f[k] \in S
    BY <1>2, <1>4, <1>6
  <2>2. Among(f, S) = f
    BY <2>1, AmongAll
  <2> QED
    BY <1>1, <1>3, <1>6, <2>2
<1> QED
  BY <1>5, <1>6

LEMMA HeadersTaken ==
    ASSUME Bound, NEW r \in Request
    PROVE  Of(CommandOf(r), HeaderKinds) = HeaderArguments(r)
<1>1. PICK S : S = {a \in Arg : a.is \in HeaderKinds}
  OBVIOUS
<1>2. PICK o \in Seq(Arg) : /\ o = Opening(r) /\ Len(o) = 2 /\ o[1].is = "positional"
                            /\ o[2].is = "method"
  BY OpeningGiven
<1>3. Among(o, S) = <<>>
  <2>1. 1..Len(o) = {1, 2}
    BY <1>2
  <2>2. \A k \in 1..Len(o) : o[k] \notin S
    BY <1>1, <1>2, <2>1 DEF HeaderKinds
  <2> QED
    BY <2>2, AmongNone
<1>4. PICK h \in Seq(Arg) : h = HeaderArguments(r)
  BY HeaderArgumentsType
<1>5. Among(h, S) = h
  <2>1. \A a \in Arg : a.is \in {"header"} => a \in S
    BY <1>1 DEF HeaderKinds
  <2>2. AreAll(h, {"header"})
    BY <1>4, KeptGiven
  <2> QED
    BY <2>1, <2>2, GroupAll
<1>6. Among(ProxyArguments(r), S) = <<>>
  <2>1. \A a \in Arg : a.is \in {"proxy"} => a \notin S
    BY <1>1 DEF HeaderKinds
  <2> QED
    BY <2>1, ProxyGiven, GroupNone
<1>7. Among(BodyArguments(r), S) = <<>>
  <2>1. AreAll(BodyArguments(r), BodyIs(r))
    BY BodyGiven DEF BodyIs
  <2>2. \A a \in Arg : a.is \in BodyIs(r) => a \notin S
    BY <1>1 DEF BodyIs, HeaderKinds
  <2> QED
    BY <2>1, <2>2, GroupNone
<1>8. Among(CommandOf(r), S) = ((<<>> \o h) \o <<>>) \o <<>>
  BY <1>2, <1>3, <1>4, <1>5, <1>6, <1>7, CommandAmong
<1> QED
  BY <1>1, <1>4, <1>8, OfCommand, OneGroup

LEMMA FormsTaken ==
    ASSUME Bound, NEW r \in Request
    PROVE  Of(CommandOf(r), {"form"}) # <<>> <=> HasParts(r)
<1>1. PICK kinds : kinds = {"form"}
  OBVIOUS
<1>a. \A x \in {"positional", "method", "header", "proxy"} : x \notin kinds
  BY <1>1
<1>2. CASE HasParts(r)
  <2>1. Of(CommandOf(r), kinds) = BodyArguments(r)
    BY <1>1, <1>a, <1>2, BodyAgain DEF BodyIs
  <2>2. PICK s \in Seq(Segment) : s = Segments(r.body) /\ s # <<>>
    BY <1>2, SegmentsType DEF HasParts, Request, Text
  <2>3. Len(s) \in Nat /\ Len(s) # 0
    BY <2>2
  <2>4. BodyArguments(r) = [n \in 1..Len(s) |-> FormFlag(s[n])]
    BY <1>2, <2>2 DEF BodyArguments
  <2>5. Len(BodyArguments(r)) # 0
    BY <2>3, <2>4
  <2>6. Len(<<>>) = 0
    OBVIOUS
  <2> QED
    BY <1>1, <1>2, <2>1, <2>5, <2>6
<1>3. CASE ~HasParts(r)
  <2>1. Of(CommandOf(r), kinds) = <<>>
    BY <1>1, <1>a, <1>3, BodyAgain DEF BodyIs
  <2> QED
    BY <1>1, <1>3, <2>1
<1> QED
  BY <1>2, <1>3

NamedFields(r) == \A k \in 1..Len(r.headers) : r.headers[k][1] \notin {"bare", "colonless"}
TypedBody(r) == r.body # Empty => ContentTypes(r.headers) # <<>>

LEMMA TypeFilled ==
    ASSUME Bound, NEW r \in Request, ContentTypes(r.headers) # <<>>
    PROVE  ContentTypes(FillHeaders(r.headers)) # <<>>
<1>1. PICK v \in Seq(SomeLine) : v = r.headers
  BY DEF Request
<1>2. PICK f \in Seq(SomeLine) : f = FillHeaders(v)
  BY FillHeadersType
<1>3. Len(f) = Len(v) /\ \A k \in 1..Len(v) : f[k] = <<v[k][1]>> \o Fill(Tail(v[k]))
  BY <1>2, FillHeadersType
<1>4. PICK k \in 1..Len(v) : v[k] \in Types
  <2>1. Among(v, Types) # <<>>
    BY <1>1, TypesAmong
  <2> QED
    BY <2>1, AmongNone
<1>5. f[k][1] = "Content-Type" /\ f[k] \in SomeLine
  <2>1. PICK l \in SomeLine : l = v[k] /\ l[1] = "Content-Type"
    BY <1>4 DEF Types
  <2>2. (<<l[1]>> \o Fill(Tail(l)))[1] = l[1]
    BY FillHeaderType
  <2>3. f[k] = <<l[1]>> \o Fill(Tail(l))
    BY <1>3, <2>1
  <2>4. k \in 1..Len(f)
    BY <1>3
  <2>5. f[k] \in SomeLine
    BY <2>4
  <2> QED
    BY <2>1, <2>2, <2>3, <2>5
<1>6. f[k] \in Types /\ k \in 1..Len(f)
  BY <1>3, <1>5 DEF Types
<1>7. Among(f, Types) # <<>>
  BY <1>6, AmongSome
<1> QED
  BY <1>1, <1>2, <1>7, TypesAmong

(* A command with data, and not with parts, is for a request with a body.    *)
LEMMA DataHasBody ==
    ASSUME Bound, NEW r \in Request, Of(CommandOf(r), DataKinds) # <<>>
    PROVE  ~HasParts(r) /\ r.body # Empty
<1>1. PICK kinds : kinds = DataKinds
  OBVIOUS
<1>2. \A x \in {"positional", "method", "header", "proxy"} : x \notin kinds
  BY <1>1 DEF DataKinds
<1>3. ~HasParts(r)
  <2>1. ASSUME HasParts(r)
        PROVE  FALSE
    <3>1. BodyIs(r) \cap kinds = {}
      BY <1>1, <2>1 DEF BodyIs, DataKinds
    <3>2. Of(CommandOf(r), kinds) = <<>>
      BY <1>2, <3>1, BodyAgain
    <3> QED
      BY <1>1, <3>2
  <2> QED
    BY <2>1
<1>4. Of(CommandOf(r), kinds) = BodyArguments(r)
  <2>1. BodyIs(r) \subseteq kinds
    BY <1>1, <1>3 DEF BodyIs, DataKinds
  <2> QED
    BY <1>2, <2>1, BodyAgain
<1>5. r.body # Empty
  <2>1. ASSUME r.body = Empty
        PROVE  FALSE
    <3>1. ~OnlyFile(r.body)
      <4>1. Len(Empty) = 1 /\ Empty[1] = <<>> /\ Len(<<>>) = 0
        BY DEF Empty
      <4> QED
        BY <2>1, <4>1 DEF OnlyFile, Starts, Begins
    <3>2. BodyArguments(r) = <<>>
      BY <1>3, <2>1, <3>1 DEF BodyArguments
    <3> QED
      BY <1>1, <1>4, <3>2
  <2> QED
    BY <2>1
<1> QED
  BY <1>3, <1>5

LEMMA HeadersAgain ==
    ASSUME Bound, NEW r \in Request, NamedFields(r), TypedBody(r)
    PROVE  CurlHeaders(CommandOf(r)) = KeptHeaders(r) \o IF HasParts(r) THEN <<FormType>> ELSE <<>>
<1>1. PICK kept \in Seq(SomeLine) : kept = KeptHeaders(r)
  BY KeptGiven
<1>2. PICK h \in Seq(Arg) : h = HeaderArguments(r)
  BY HeaderArgumentsType
<1>3. h = [k \in 1..Len(kept) |-> Argument("header", <<kept[k]>>)]
  BY <1>1, <1>2, KeptGiven
<1>4. Len(kept) \in Nat
  OBVIOUS
<1>5. /\ Len(h) = Len(kept)
      /\ \A k \in 1..Len(kept) : h[k].is = "header" /\ h[k].value = <<kept[k]>>
  BY <1>3, <1>4 DEF Argument
<1>6. \A k \in 1..Len(kept) : kept[k][1] \notin {"bare", "colonless"}
  <2>1. PICK f \in Seq(SomeLine) : f = FillHeaders(r.headers)
    BY FillHeadersType DEF Request
  <2>2. PICK S : kept = Among(f, S)
    BY <1>1, <2>1 DEF KeptHeaders
  <2>3. kept \in Seq(SomeLine \cap Range(f))
    <3>1. \A k \in 1..Len(f) : f[k] \in Range(f)
      BY DEF Range
    <3>2. f \in Seq(Range(f))
      BY <3>1, SeqInto
    <3>3. kept \in Seq(Range(f))
      BY <2>2, <3>2, AmongType
    <3> QED
      BY <3>3
  <2>4. \A l \in Range(f) : l[1] \notin {"bare", "colonless"}
    <3>1. PICK v \in Seq(SomeLine) : v = r.headers
      BY DEF Request
    <3>2. Len(f) = Len(v) /\ \A k \in 1..Len(v) : f[k] = <<v[k][1]>> \o Fill(Tail(v[k]))
      BY <2>1, <3>1, FillHeadersType
    <3>3. ASSUME NEW k \in 1..Len(v)
          PROVE  f[k][1] = v[k][1]
      <4>1. PICK l \in SomeLine : l = v[k]
        OBVIOUS
      <4>2. (<<l[1]>> \o Fill(Tail(l)))[1] = l[1]
        BY FillHeaderType
      <4> QED
        BY <3>2, <4>1, <4>2
    <3>4. \A k \in 1..Len(v) : v[k][1] \notin {"bare", "colonless"}
      BY <3>1 DEF NamedFields
    <3>5. ASSUME NEW l \in Range(f)
          PROVE  l[1] \notin {"bare", "colonless"}
      <4>1. PICK k \in 1..Len(f) : l = f[k]
        BY DEF Range
      <4>2. k \in 1..Len(v)
        BY <3>2
      <4>3. f[k][1] = v[k][1] /\ v[k][1] \notin {"bare", "colonless"}
        BY <3>3, <3>4, <4>2
      <4> QED
        BY <4>1, <4>3
    <3> QED
      BY <3>5
  <2> QED
    BY <2>3, <2>4
<1>7. ASSUME NEW k \in 1..Len(h)
      PROVE  /\ WellFormed(h[k]) /\ ~GivesWay(h, k)
             /\ CurlHeader(h[k]) = kept[k]
  <2>1. PICK l \in SomeLine : l = kept[k] /\ l[1] \notin {"bare", "colonless"}
    BY <1>5, <1>6
  <2>2. PICK a \in Arg : a = h[k] /\ a.is = "header" /\ a.value = <<l>>
    BY <1>5, <2>1
  <2>3. WellFormed(a)
    BY <2>1, <2>2 DEF WellFormed, Starts, Begins
  <2>4. ~GivesWay(h, k)
    BY <2>2 DEF GivesWay
  <2>5. CurlHeader(a) = l
    <3>1. CurlHeader(a) = a.value[1]
      BY <2>2 DEF CurlHeader
    <3>2. <<l>>[1] = l
      OBVIOUS
    <3> QED
      BY <2>2, <3>1, <3>2
  <2> QED
    BY <2>1, <2>2, <2>3, <2>4, <2>5
<1>8. PICK c : c = CommandOf(r)
  OBVIOUS
<1>9. Of(c, {"header", "agent", "user"}) = h
  BY <1>2, <1>8, HeadersTaken DEF HeaderKinds
<1>10. PICK types : types = IF Of(c, {"form"}) # <<>> THEN <<FormType>> ELSE <<>>
  OBVIOUS
<1>11. HeadersGiven(c) = kept
  <2>1. [k \in 1..Len(h) |-> IF WellFormed(h[k]) /\ ~GivesWay(h, k)
                             THEN <<CurlHeader(h[k])>> ELSE <<>>]
        = [k \in 1..Len(kept) |-> IF kept[k] \in Range(kept) THEN <<kept[k]>> ELSE <<>>]
    <3>1. \A k \in 1..Len(kept) : kept[k] \in Range(kept)
      BY DEF Range
    <3> QED
      BY <1>5, <1>7, <3>1
  <2>2. HeadersGiven(c) = Among(kept, Range(kept))
    BY <1>9, <2>1 DEF HeadersGiven, Among
  <2>3. \A k \in 1..Len(kept) : kept[k] \in Range(kept)
    BY DEF Range
  <2>4. Among(kept, Range(kept)) = kept
    BY <2>3, AmongAll
  <2> QED
    BY <2>2, <2>4
<1>12. CurlHeaders(c) = kept \o types
  <2>1. ~(Of(c, DataKinds) # <<>> /\ ContentTypes(HeadersGiven(c)) = <<>>)
    <3>1. ASSUME Of(c, DataKinds) # <<>>
          PROVE  ContentTypes(kept) # <<>>
      <4>1. ~HasParts(r) /\ r.body # Empty
        BY <1>8, <3>1, DataHasBody
      <4>2. ContentTypes(FillHeaders(r.headers)) # <<>>
        BY <4>1, TypeFilled DEF TypedBody
      <4>3. kept = FillHeaders(r.headers)
        BY <1>1, <4>1, KeptIs
      <4> QED
        BY <4>2, <4>3
    <3> QED
      BY <1>11, <3>1
  <2>2. CurlHeaders(c) = HeadersGiven(c) \o types
    BY <1>10, <2>1 DEF CurlHeaders
  <2> QED
    BY <1>11, <2>2
<1>13. types = IF HasParts(r) THEN <<FormType>> ELSE <<>>
  BY <1>8, <1>10, FormsTaken
<1> QED
  BY <1>1, <1>8, <1>12, <1>13

-----------------------------------------------------------------------------
(* The parts of a body, taken apart into -F flags and sent by curl.          *)
LEMMA FlatFirst ==
    ASSUME NEW X, NEW s \in Seq(Seq(X)), s # <<>>
    PROVE  \E u \in Seq(X) : FlattenSeq(s) = s[1] \o u
<1>1. PICK L : L = Seq(X)
  OBVIOUS
<1>2. PICK t \in Seq(L), x \in L : s = <<x>> \o t /\ x = s[1]
  BY <1>1, FirstOf
<1>3. <<x>> \in Seq(L)
  BY OneLine
<1>4. FlattenSeq(s) = FlattenSeq(<<x>>) \o FlattenSeq(t)
  BY <1>1, <1>2, <1>3, FlatJoined
<1>5. FlattenSeq(<<x>>) = x
  <2>1. <<>> \in Seq(L)
    BY NoLine
  <2>2. FlattenSeq(Append(<<>>, x)) = FlattenSeq(<<>>) \o x
    BY <1>1, <2>1, FlatAppend
  <2>3. Append(<<>>, x) = <<x>>
    OBVIOUS
  <2>4. x \in Seq(X) /\ <<>> \o x = x
    BY <1>1
  <2> QED
    BY <2>2, <2>3, <2>4, FlatNothing
<1>6. FlattenSeq(t) \in Seq(X)
  BY <1>1, FlatText
<1> QED
  BY <1>2, <1>4, <1>5, <1>6

LEMMA OnlyElement ==
    ASSUME NEW X, NEW s \in Seq(X), Len(s) = 1
    PROVE  s = <<s[1]>> /\ s[1] \in X
<1>1. s[1] \in X
  OBVIOUS
<1>2. s = <<s[1]>>
  BY <1>1
<1> QED
  BY <1>1, <1>2

LEMMA FillFirst ==
    ASSUME Bound, NEW l \in Seq(Pieces), Begins(l, "<")
    PROVE  Begins(Fill(l), "<")
<1>1. PICK b \in Seq(Pieces) : b = bound
  BY DEF Bound
<1>2. PICK L : L = Seq(Pieces)
  OBVIOUS
<1> DEFINE Filled(k) == IF l[k] = "{{var}}" THEN bound ELSE <<l[k]>>
<1>3. ASSUME NEW k \in 1..Len(l)
      PROVE  Filled(k) \in L
  <2>1. PICK p \in Pieces : p = l[k]
    OBVIOUS
  <2>2. <<p>> \in L
    BY <1>2, OneLine
  <2> QED
    BY <1>1, <1>2, <2>1, <2>2
<1>4. Fill(l) = FlattenSeq([k \in 1..Len(l) |-> Filled(k)])
  BY DEF Fill
<1>5. Len(l) \in Nat /\ Len(l) > 0 /\ 1 \in 1..Len(l) /\ Filled(1) = <<"<">>
  BY DEF Begins
<1> HIDE DEF Filled
<1>6. PICK s \in Seq(L) : s = [k \in 1..Len(l) |-> Filled(k)]
  <2>1. [k \in 1..Len(l) |-> Filled(k)] \in Seq(L)
    BY <1>3, <1>5
  <2> QED
    BY <2>1
<1>7. s # <<>> /\ s[1] = <<"<">>
  <2>1. Len(s) = Len(l) /\ s[1] = Filled(1)
    BY <1>5, <1>6
  <2>2. Len(s) # 0
    BY <1>5, <2>1
  <2> QED
    BY <1>5, <2>1, <2>2
<1>8. PICK u \in Seq(Pieces) : FlattenSeq(s) = <<"<">> \o u
  BY <1>2, <1>7, FlatFirst
<1>9. PICK p \in Pieces : p = "<"
  BY PiecesAssumption
<1>10. Len(<<p>> \o u) > 0 /\ (<<p>> \o u)[1] = p
  OBVIOUS
<1> QED
  BY <1>4, <1>6, <1>8, <1>9, <1>10 DEF Begins

(* A part is its headers and, after a blank line, its content.               *)
LEMMA PartCut ==
    ASSUME NEW seg \in Segment, Contains(seg, <<>>), Len(Content(seg)) = 1
    PROVE  /\ PartHeader(seg) \in Seq(Seq(Pieces)) /\ Content(seg)[1] \in Seq(Pieces)
           /\ Content(seg) = <<Content(seg)[1]>>
           /\ <<Delimiter>> \o seg = PartOf(<<Delimiter>> \o PartHeader(seg), Content(seg)[1])
<1>1. PICK L : L = Seq(Pieces)
  OBVIOUS
<1>2. seg \in Seq(L)
  BY <1>1 DEF Segment
<1>3. ~\A k \in 1..Len(seg) : seg[k] # <<>>
  BY DEF Contains
<1>4. PICK n \in 1..Len(seg) : seg[n] = <<>> /\ \A k \in 1..(n - 1) : seg[k] # <<>>
  BY <1>2, <1>3, CutSomewhere
<1>5. PICK h \in Seq(L) : h = SubSeq(seg, 1, n - 1)
  BY <1>2, Around
<1>6. PICK w \in Seq(L) : w = SubSeq(seg, n + 1, Len(seg))
  BY <1>2, Around
<1>7. PartHeader(seg) = h /\ Content(seg) = w
  BY <1>2, <1>4, <1>5, <1>6, CutAtBlank DEF Content, PartHeader
<1>8. seg = (h \o <<<<>>>>) \o w
  <2>1. seg = (SubSeq(seg, 1, n - 1) \o <<seg[n]>>) \o SubSeq(seg, n + 1, Len(seg))
    BY <1>2, Around
  <2> QED
    BY <1>4, <1>5, <1>6, <2>1
<1>9. PICK c \in L : w = <<c>> /\ c = w[1]
  <2>1. Len(w) = 1
    BY <1>7
  <2>2. w[1] \in L /\ w = <<w[1]>>
    BY <2>1, OnlyElement
  <2> QED
    BY <2>2
<1>10. PICK d \in Seq(L) : d = <<Delimiter>>
  BY <1>1, DelimiterLines, OneLine
<1>11. PICK e \in Seq(L) : e = <<<<>>>>
  BY <1>1, NoLine, OneLine
<1>12. h \o e \in Seq(L)
  BY LinesJoined
<1>13. d \o ((h \o e) \o w) = (d \o (h \o e)) \o w
  <2>1. Grouped(d, h \o e, w)
    BY <1>12, Grouping
  <2> QED
    BY <2>1 DEF Grouped
<1>14. d \o (h \o e) = (d \o h) \o e
  <2>1. Grouped(d, h, e)
    BY Grouping
  <2> QED
    BY <2>1 DEF Grouped
<1>15. d \o seg = ((d \o h) \o e) \o <<c>>
  BY <1>8, <1>9, <1>11, <1>13, <1>14
<1> QED
  BY <1>1, <1>7, <1>9, <1>10, <1>11, <1>15 DEF PartOf, Empty

LEMMA PartFilled ==
    ASSUME Bound, NEW h \in Seq(HeadingLines), NEW c \in Seq(Pieces)
    PROVE  FillAll(PartOf(h, c)) = PartOf(h, Fill(c))
<1>1. /\ h \in Seq(Seq(Pieces)) /\ \A k \in 1..Len(h) : NoVariable(h[k])
  BY HeadLines
<1>2. PICK f \in Seq(Pieces) : f = Fill(c)
  BY FillType
<1>3. PICK n \in Nat : n = Len(h)
  OBVIOUS
<1>4. PICK p \in Seq(Seq(Pieces)) :
        /\ p = PartOf(h, c) /\ Len(p) = n + 2 /\ p[n + 1] = <<>> /\ p[n + 2] = c
        /\ \A k \in 1..n : p[k] = h[k]
  BY <1>1, <1>3, PartOfLines
<1>5. PICK q \in Seq(Seq(Pieces)) :
        /\ q = PartOf(h, f) /\ Len(q) = n + 2 /\ q[n + 1] = <<>> /\ q[n + 2] = f
        /\ \A k \in 1..n : q[k] = h[k]
  BY <1>1, <1>3, PartOfLines
<1>6. ASSUME NEW k \in 1..n
      PROVE  Fill(p[k]) = q[k]
  <2>1. PICK l \in Seq(Pieces) : l = h[k] /\ NoVariable(l)
    BY <1>1, <1>3
  <2>2. Fill(l) = l
    BY <2>1, FillSame
  <2> QED
    BY <1>4, <1>5, <2>1, <2>2
<1>7. Fill(<<>>) = <<>>
  <2>1. <<>> \in Seq(Pieces) /\ NoVariable(<<>>)
    BY NoLine DEF NoVariable
  <2> QED
    BY <2>1, FillSame
<1>8. \A k \in 1..(n + 2) : k \in 1..n \/ k = n + 1 \/ k = n + 2
  BY <1>3
<1>9. \A k \in 1..(n + 2) : Fill(p[k]) = q[k]
  BY <1>2, <1>4, <1>5, <1>6, <1>7, <1>8
<1>10. FillAll(p) = [k \in 1..(n + 2) |-> q[k]]
  BY <1>4, <1>9 DEF FillAll
<1>11. q = [k \in 1..(n + 2) |-> q[k]]
  BY <1>5
<1> QED
  BY <1>2, <1>4, <1>5, <1>10, <1>11

LEMMA NoSemicolon ==
    ASSUME NEW c, ~Contains(c, ";")
    PROVE  BeforeSemicolon(<<c>>) = <<c>>
<1>1. \A l : l = c => ~Contains(l, ";")
  OBVIOUS
<1>2. PICK v : v = <<c>> /\ Len(v) = 1 /\ v[1] = c
  <2>1. Len(<<c>>) = 1 /\ <<c>>[1] = c
    OBVIOUS
  <2> QED
    BY <2>1
<1>3. \A k \in 1..Len(v) : v[k] = c
  BY <1>2, FirstNumbers
<1>4. {k \in 1..Len(v) : Contains(v[k], ";")} = {}
  BY <1>1, <1>3
<1>5. SelectInSeq(v, LAMBDA l : Contains(l, ";")) = 0
  BY <1>4 DEF SelectInSeq
<1> QED
  BY <1>2, <1>5 DEF BeforeSemicolon

(* What the flag for a part is: the part again, once curl reads the file.    *)
SameHead(seg) == HeadOf(FormFlag(seg)) = <<Delimiter>> \o PartHeader(seg)

LEMMA TextHead ==
    ASSUME NEW seg \in Segment, PartReadable(seg), TextTaken(seg)
    PROVE  /\ SameHead(seg) /\ FormFlag(seg).value = Content(seg)
           /\ BeforeSemicolon(Content(seg)) = Content(seg)
           /\ NoVariable(Content(seg)[1]) /\ ~Begins(Content(seg)[1], "<")
           /\ ~Starts(Content(seg), "@") /\ ~Starts(Content(seg), "<")
<1>1. PICK c \in Seq(Pieces) : Content(seg) = <<c>> /\ Content(seg)[1] = c
  BY PartCut DEF PartReadable, TextTaken
<1>2. ~Starts(Content(seg), "@") /\ ~Starts(Content(seg), "<")
  BY DEF TextTaken
<1>3. ~Begins(c, "<")
  BY <1>1, <1>2 DEF Starts
<1>4. ~Contains(c, ";") /\ ~Contains(c, "{{var}}")
  <2>1. Len(<<c>>) = 1 /\ <<c>>[1] = c /\ 1 \in 1..1
    OBVIOUS
  <2> QED
    BY <1>1, <2>1 DEF TextTaken, Mentions
<1>5. NoVariable(c)
  BY <1>4 DEF Contains, NoVariable
<1>6. BeforeSemicolon(<<c>>) = <<c>>
  BY <1>4, NoSemicolon
<1>7. FormFlag(seg) = Argument("form", Content(seg))
  BY <1>2 DEF FormFlag, OnlyFile
<1>8. PICK a : /\ a = FormFlag(seg) /\ a.value = Content(seg) /\ a.type = FALSE
               /\ ~IsUpload(a)
  BY <1>2, <1>7 DEF Argument, IsUpload
<1>9. HeadOf(a) = <<Delimiter>> \o PartHeader(seg)
  <2>1. HeadOf(a) = (<<Delimiter>> \o <<<<"Content-Disposition">>>>) \o <<>>
    BY <1>8 DEF HeadOf, Line
  <2>2. PICK x : x = <<"Content-Disposition">>
    OBVIOUS
  <2>3. PICK y : y = Delimiter
    OBVIOUS
  <2>4. (<<y>> \o <<x>>) \o <<>> = <<y>> \o <<x>>
    OBVIOUS
  <2> QED
    BY <2>1, <2>2, <2>3, <2>4 DEF TextTaken
<1> QED
  BY <1>1, <1>2, <1>3, <1>5, <1>6, <1>8, <1>9 DEF SameHead

LEMMA FileHead ==
    ASSUME NEW seg \in Segment, PartReadable(seg), FileTaken(seg)
    PROVE  SameHead(seg) /\ Starts(FormFlag(seg).value, "@") /\ FormFlag(seg).type
<1>1. PICK name \in {"given", "base"} :
         PartHeader(seg) = <<<<"Content-Disposition", name>>, <<"Content-Type", "part">>>>
  BY DEF FileTaken
<1>2. PICK x : x = <<"Content-Disposition", name>>
  OBVIOUS
<1>3. PICK y : y = <<"Content-Type", "part">>
  OBVIOUS
<1>4. PICK d : d = Delimiter
  OBVIOUS
<1>5. PICK g : g = <<"Content-Disposition", "given">>
  OBVIOUS
<1>6. /\ x # y /\ y # g /\ (x = g <=> name = "given")
  <2>1. x[1] = "Content-Disposition" /\ y[1] = "Content-Type" /\ x[1] # y[1]
    BY <1>2, <1>3
  <2>2. g[1] = "Content-Disposition" /\ y[1] # g[1]
    BY <1>3, <1>5
  <2>3. x[2] = name /\ g[2] = "given"
    BY <1>2, <1>5
  <2> QED
    BY <1>2, <1>5, <2>1, <2>2, <2>3
<1>7. PICK h : h = PartHeader(seg) /\ h = <<x, y>>
  BY <1>1, <1>2, <1>3
<1>8. PICK a : /\ a = FormFlag(seg) /\ IsUpload(a)
               /\ a.filename = IF Contains(h, g) THEN "given" ELSE "none"
               /\ a.type = Contains(h, y)
  <2>1. OnlyFile(Content(seg))
    BY DEF FileTaken
  <2>2. PICK t : t = Tail(Content(seg)[1])
    OBVIOUS
  <2>a. PICK f : f = IF Contains(h, g) THEN "given" ELSE "none"
    OBVIOUS
  <2>b. PICK b : b = Contains(h, y)
    OBVIOUS
  <2>c. PICK v : v = <<<<"@">> \o t>>
    OBVIOUS
  <2>d. FormFlag(seg) = [is |-> "form", value |-> v, filename |-> f, type |-> b]
    BY <1>3, <1>5, <1>7, <2>1, <2>2, <2>a, <2>b, <2>c DEF FormFlag
  <2>3. /\ FormFlag(seg).value = v /\ FormFlag(seg).filename = f
        /\ FormFlag(seg).type = b
    BY <2>d
  <2>4. Starts(v, "@")
    <3>1. PICK c \in Seq(Pieces) : c = Content(seg)[1] /\ c # <<>>
      <4>1. Content(seg)[1] \in Seq(Pieces)
        BY <2>1, PartCut DEF PartReadable, OnlyFile
      <4>2. Len(Content(seg)[1]) > 0
        BY <2>1 DEF OnlyFile, Starts, Begins
      <4> QED
        BY <4>1, <4>2
    <3>2. t \in Seq(Pieces)
      BY <2>2, <3>1, FirstOf
    <3>3. PICK p \in Pieces : p = "@"
      BY PiecesAssumption
    <3>4. Len(<<p>> \o t) > 0 /\ (<<p>> \o t)[1] = p
      BY <3>2
    <3>5. PICK l : l = <<p>> \o t
      OBVIOUS
    <3>6. v = <<l>> /\ Begins(l, "@")
      BY <2>c, <3>3, <3>4, <3>5 DEF Begins
    <3>7. Len(<<l>>) > 0 /\ <<l>>[1] = l
      OBVIOUS
    <3> QED
      BY <3>6, <3>7 DEF Starts
  <2> QED
    BY <2>3, <2>4, <2>a, <2>b DEF IsUpload
<1>9. (Contains(h, g) <=> name = "given") /\ Contains(h, y)
  <2>1. Len(h) = 2 /\ h[1] = x /\ h[2] = y
    BY <1>7
  <2>2. \A k \in 1..Len(h) : h[k] = x \/ h[k] = y
    BY <2>1, FirstNumbers
  <2>3. 1 \in 1..Len(h) /\ 2 \in 1..Len(h)
    BY <2>1
  <2> QED
    BY <1>6, <2>1, <2>2, <2>3 DEF Contains
<1>10. Filename(a) = name
  BY <1>8, <1>9 DEF Filename
<1>11. HeadOf(a) = (<<d>> \o <<x>>) \o <<y>>
  BY <1>2, <1>3, <1>4, <1>8, <1>9, <1>10 DEF HeadOf, Line
<1>12. (<<d>> \o <<x>>) \o <<y>> = <<d>> \o h
  <2>1. PICK X : X = {d, x, y}
    OBVIOUS
  <2>2. d \in X /\ x \in X /\ y \in X
    BY <2>1
  <2>3. <<d>> \in Seq(X) /\ <<x>> \in Seq(X) /\ <<y>> \in Seq(X)
    BY <2>2, OneLine
  <2>4. Grouped(<<d>>, <<x>>, <<y>>)
    BY <2>3, Grouping
  <2>5. <<x>> \o <<y>> = <<x, y>>
    BY <2>2, PairOf
  <2> QED
    BY <1>7, <2>4, <2>5 DEF Grouped
<1> QED
  BY <1>4, <1>7, <1>8, <1>9, <1>11, <1>12 DEF SameHead, IsUpload

PartBack(seg) ==
    /\ <<Delimiter>> \o seg \in Seq(Seq(Pieces))
    /\ Mapped(WithCR, FillAll(<<Delimiter>> \o seg)) = CurlLines(CurlPart(FormFlag(seg)))

LEMMA PartAgain ==
    ASSUME Bound, NEW seg \in Segment, PartReadable(seg), TextTaken(seg) \/ FileTaken(seg)
    PROVE  PartBack(seg)
<1>1. PICK a \in Arg : a = FormFlag(seg)
  BY FormFlagType
<1>2. PICK h \in Seq(HeadingLines) : h = HeadOf(a)
  BY HeadType
<1>3. h = <<Delimiter>> \o PartHeader(seg)
  BY <1>1, <1>2, TextHead, FileHead DEF SameHead
<1>4. PICK c \in Seq(Pieces) : c = Content(seg)[1] /\ Content(seg) = <<c>>
                               /\ <<Delimiter>> \o seg = PartOf(h, c)
  <2>1. Len(Content(seg)) = 1
    BY DEF TextTaken, FileTaken, OnlyFile
  <2> QED
    BY <1>3, <2>1, PartCut DEF PartReadable
<1>5. PICK e \in Seq(Pieces) : e = Fill(c)
  BY FillType
<1>6. /\ h \in Seq(SomeLine) /\ h \in Seq(Seq(Pieces))
      /\ \A k \in 1..Len(h) : ~Begins(h[k], "<")
  BY HeadLines
<1>7. FillAll(PartOf(h, c)) = PartOf(h, e) /\ PartOf(h, c) \in Seq(Seq(Pieces))
  BY <1>5, <1>6, PartFilled, PartOfLines
<1>8. \E d \in Seq(Pieces) : CurlPart(a) = PartOf(h, d) /\ SentFor(e, d)
  <2>1. CASE TextTaken(seg)
    <3>1. /\ a.value = <<c>> /\ BeforeSemicolon(a.value) = <<c>>
          /\ NoVariable(c) /\ ~Begins(c, "<")
          /\ ~Starts(a.value, "@") /\ ~Starts(a.value, "<")
      BY <1>1, <1>4, <2>1, TextHead
    <3>2. CurlPart(a) = PartOf(h, c)
      BY <1>2, <3>1, CurlPartOf
    <3>3. e = c
      BY <1>5, <3>1, FillSame
    <3> QED
      BY <3>1, <3>2, <3>3 DEF SentFor
  <2>2. CASE ~TextTaken(seg)
    <3>1. FileTaken(seg)
      BY <2>2
    <3>2. Begins(c, "<")
      BY <1>4, <3>1 DEF FileTaken, OnlyFile, Starts
    <3>3. Begins(e, "<")
      BY <1>5, <3>2, FillFirst
    <3>4. PICK p \in Pieces : p = "bytes"
      BY PiecesAssumption
    <3>5. PICK d \in Seq(Pieces) : d = <<p>>
      BY OneLine
    <3>6. Starts(a.value, "@") /\ a.type
      BY <1>1, <3>1, FileHead
    <3>7. <<d>> = <<<<"bytes">>>>
      BY <3>4, <3>5
    <3>8. CurlPart(a) = PartOf(h, d)
      BY <1>2, <3>6, <3>7, CurlPartOf
    <3>9. SentFor(e, d)
      BY <3>3, <3>4, <3>5 DEF SentFor
    <3> QED
      BY <3>8, <3>9
  <2> QED
    BY <2>1, <2>2
<1>9. PICK d \in Seq(Pieces) : CurlPart(a) = PartOf(h, d) /\ SentFor(e, d)
  BY <1>8
<1>10. Mapped(WithCR, PartOf(h, e)) = CurlLines(PartOf(h, d))
  BY <1>6, <1>9, PartSent
<1> QED
  BY <1>1, <1>4, <1>7, <1>9, <1>10 DEF PartBack

(* A body that is its parts, filled in and with CRLF, is what curl makes of  *)
(* the flags for them.                                                       *)
LEMMA PartsAgain ==
    ASSUME Bound, NEW r \in Request, HasParts(r), OnlyParts(r.body)
    PROVE  CurlBody(CommandOf(r)) = Splice(Unspliced(r))
<1>1. PICK L : L = Seq(Pieces)
  OBVIOUS
<1>2. PICK body \in Seq(L) : body = r.body
  BY <1>1 DEF Request, Text
<1>3. PICK s \in Seq(Segment) : s = Segments(body) /\ s # <<>>
  BY <1>1, <1>2, SegmentsType DEF HasParts
<1>4. PICK n \in Nat : n = Len(s)
  OBVIOUS
<1>5. \A k \in 1..n : PartBack(s[k])
  <2>1. ASSUME NEW k \in 1..n
        PROVE  PartBack(s[k])
    <3>1. PICK seg \in Segment : seg = s[k]
      BY <1>4
    <3>2. PartReadable(seg)
      BY <1>2, <1>3, <1>4, <3>1 DEF HasParts
    <3>3. TextTaken(seg) \/ FileTaken(seg)
      BY <1>2, <1>3, <1>4, <3>1 DEF OnlyParts
    <3> QED
      BY <3>1, <3>2, <3>3, PartAgain
  <2> QED
    BY <2>1
<1>6. PICK p : p = [k \in 1..n |-> <<Delimiter>> \o s[k]]
  OBVIOUS
<1>7. p \in Seq(Seq(L)) /\ Len(p) = n
  <2>1. PICK M : M = Seq(L)
    OBVIOUS
  <2>2. \A k \in 1..n : <<Delimiter>> \o s[k] \in M
    BY <1>1, <1>5, <2>1 DEF PartBack
  <2>a. Len(p) = n /\ \A k \in 1..n : p[k] = <<Delimiter>> \o s[k]
    BY <1>6
  <2>b. \A k \in 1..n : p[k] \in M
    BY <2>2, <2>a
  <2>3. p \in Seq(M) /\ Len(p) = n
    BY <1>6, <2>a, <2>b
  <2> QED
    BY <2>1, <2>3
<1>8. PICK u \in Seq(L) : u = FlattenSeq(p)
  BY <1>7, FlatText
<1>9. PICK c \in L : c = CloseDelimiter
  BY <1>1, ClosingLine
<1>10. body = u \o <<c>>
  BY <1>2, <1>3, <1>4, <1>6, <1>8, <1>9 DEF OnlyParts
<1>11. PICK F : F = [l \in L |-> Fill(l)]
  OBVIOUS
<1>12. Takes(F, L, L) /\ \A l \in L : F[l] = Fill(l)
  <2>1. \A l \in L : Fill(l) \in L
    BY <1>1, FillType
  <2> QED
    BY <1>11, <2>1 DEF Takes
<1>13. ASSUME NEW v \in Seq(L)
       PROVE  Mapped(F, v) = FillAll(v) /\ FillAll(v) \in Seq(L)
  <2>1. \A k \in 1..Len(v) : F[v[k]] = Fill(v[k])
    BY <1>12
  <2>2. FillAll(v) \in Seq(L)
    BY <1>1, FillAllType
  <2> QED
    BY <2>1, <2>2 DEF Mapped, FillAll
<1>14. PICK f : f = [k \in 1..n |-> Mapped(F, p[k])]
  OBVIOUS
<1>15. Mapped(F, u) = FlattenSeq(f) /\ f \in Seq(Seq(L))
  <2>1. f = [k \in 1..Len(p) |-> Mapped(F, p[k])]
    BY <1>7, <1>14
  <2>2. Takes(F, L, L) /\ p \in Seq(Seq(L))
    BY <1>7, <1>12
  <2>3. Mapped(F, FlattenSeq(p)) = FlattenSeq([k \in 1..Len(p) |-> Mapped(F, p[k])])
    BY <2>2, FlatMapped
  <2>4. f \in Seq(Seq(L))
    <3>1. PICK M : M = Seq(L)
      OBVIOUS
    <3>2. p \in Seq(M) /\ Len(p) = n
      BY <1>7, <3>1
    <3>3. ASSUME NEW k \in 1..n
          PROVE  Mapped(F, p[k]) \in M
      <4>1. PICK v \in Seq(L) : v = p[k]
        BY <3>1, <3>2
      <4> QED
        BY <2>2, <3>1, <4>1, MappedType
    <3>4. f \in Seq(M)
      BY <1>14, <3>3
    <3> QED
      BY <3>1, <3>4
  <2> QED
    BY <1>8, <2>1, <2>3, <2>4
<1>16. PICK w \in Seq(L) : w = Mapped(F, u) /\ w = FlattenSeq(f)
  BY <1>15, FlatText
<1>17. FillAll(body) = w \o <<c>>
  <2>1. PICK q \in Seq(L) : q = <<c>>
    BY OneLine
  <2>2. Parted(F, u, q)
    BY <1>12, MappedJoined
  <2>3. Mapped(F, q) = q
    <3>1. Len(q) = 1 /\ q[1] = c /\ \A k \in 1..1 : k = 1
      BY <2>1, FirstNumbers
    <3>2. F[c] = c
      <4>1. NoVariable(c)
        <5>1. \A k \in 1..Len(c) : c[k] = "--boundary--"
          BY <1>9, FirstNumbers DEF CloseDelimiter
        <5> QED
          BY <5>1 DEF NoVariable
      <4>2. Fill(c) = c
        BY <1>1, <4>1, FillSame
      <4> QED
        BY <1>12, <4>2
    <3>3. q = [k \in 1..1 |-> c]
      BY <2>1
    <3> QED
      BY <3>1, <3>2, <3>3 DEF Mapped
  <2> QED
    BY <1>10, <1>13, <1>16, <2>1, <2>2, <2>3 DEF Parted
<1>18. Unspliced(r) = ToCRLF(w \o <<CloseDelimiter>>)
  <2>1. IsMultipart(FillHeaders(r.headers))
    <3>1. /\ ContentTypes(FillHeaders(r.headers)) # <<>>
          /\ ContentTypes(FillHeaders(r.headers))[1] = FormType
      BY DEF HasParts
    <3>2. Begins(Tail(FormType), "multipart")
      BY DEF FormType, Begins
    <3> QED
      BY <3>1, <3>2 DEF IsMultipart
  <2> QED
    BY <1>2, <1>9, <1>17, <2>1 DEF Unspliced
<1>19. Splice(Unspliced(r)) = Mapped(WithCR, w) \o <<CloseDelimiter>>
  BY <1>1, <1>18, SplicedLines
<1>20. Mapped(WithCR, w) = FlattenSeq([k \in 1..n |-> CurlLines(CurlPart(FormFlag(s[k])))])
  <2>1. Takes(WithCR, L, L)
    BY <1>1, WithCRType
  <2>2. Len(f) = n
    BY <1>14
  <2>3. Mapped(WithCR, w) = FlattenSeq([k \in 1..Len(f) |-> Mapped(WithCR, f[k])])
    BY <1>15, <1>16, <2>1, FlatMapped
  <2>4. ASSUME NEW k \in 1..n
        PROVE  Mapped(WithCR, f[k]) = CurlLines(CurlPart(FormFlag(s[k])))
    <3>1. PICK v \in Seq(L) : v = p[k]
      BY <1>7
    <3>2. v = <<Delimiter>> \o s[k]
      BY <1>6, <3>1
    <3>3. f[k] = FillAll(v)
      BY <1>13, <1>14, <3>1
    <3> QED
      BY <1>5, <3>2, <3>3 DEF PartBack
  <2>5. [k \in 1..Len(f) |-> Mapped(WithCR, f[k])]
          = [k \in 1..n |-> CurlLines(CurlPart(FormFlag(s[k])))]
    BY <2>2, <2>4
  <2> QED
    BY <2>3, <2>5
<1>21. CurlBody(CommandOf(r)) = CurlForm(BodyArguments(r))
  <2>1. PICK kinds : kinds = {"form"}
    OBVIOUS
  <2>2. BodyIs(r) \subseteq kinds /\ \A x \in {"positional", "method", "header", "proxy"} : x \notin kinds
    BY <2>1 DEF BodyIs
  <2>3. Of(CommandOf(r), kinds) = BodyArguments(r)
    BY <2>2, BodyAgain
  <2>4. Of(CommandOf(r), {"form"}) # <<>>
    BY FormsTaken
  <2> QED
    BY <2>1, <2>3, <2>4 DEF CurlBody
<1>22. PICK b : b = [k \in 1..n |-> FormFlag(s[k])] /\ b = BodyArguments(r)
  BY <1>2, <1>3, <1>4 DEF BodyArguments
<1>23. CurlForm(b) = FlattenSeq([k \in 1..n |-> CurlLines(CurlPart(FormFlag(s[k])))]) \o <<CloseDelimiter>>
  <2>1. Len(b) = n /\ \A k \in 1..n : b[k] = FormFlag(s[k])
    BY <1>22
  <2>2. [k \in 1..Len(b) |-> CurlLines(CurlPart(b[k]))]
          = [k \in 1..n |-> CurlLines(CurlPart(FormFlag(s[k])))]
    BY <2>1
  <2> QED
    BY <2>2 DEF CurlForm
<1> QED
  BY <1>19, <1>20, <1>21, <1>22, <1>23

LEMMA DataAgain ==
    ASSUME Bound, NEW r \in Request, ~HasParts(r)
    PROVE  /\ Of(CommandOf(r), {"form"}) = <<>>
           /\ Of(CommandOf(r), DataKinds) = BodyArguments(r)
<1>1. PICK kinds : kinds = DataKinds
  OBVIOUS
<1>2. BodyIs(r) \subseteq kinds /\ \A x \in {"positional", "method", "header", "proxy"} : x \notin kinds
  BY <1>1 DEF BodyIs, DataKinds
<1>3. Of(CommandOf(r), kinds) = BodyArguments(r)
  BY <1>2, BodyAgain
<1> QED
  BY <1>1, <1>3, FormsTaken

(* A command with one argument for its body, or none.                        *)
LEMMA OneArgument ==
    ASSUME Bound, NEW r \in Request, ~HasParts(r), NEW a, BodyArguments(r) = <<a>>
    PROVE  CurlBody(CommandOf(r)) = CurlData(a)
<1>1. PICK b : b = <<a>>
  OBVIOUS
<1>2. Len(b) = 1 /\ b[1] = a /\ b # <<>>
  BY <1>1
<1>3. Of(CommandOf(r), {"form"}) = <<>> /\ Of(CommandOf(r), DataKinds) = b
  BY <1>1, DataAgain
<1>4. CurlBody(CommandOf(r)) = Join([k \in 1..Len(b) |-> CurlData(b[k])])
  BY <1>2, <1>3 DEF CurlBody
<1>5. [k \in 1..Len(b) |-> CurlData(b[k])] = <<CurlData(a)>>
  <2>1. PICK v : v = CurlData(a)
    OBVIOUS
  <2>2. \A k \in 1..Len(b) : CurlData(b[k]) = v
    BY <1>2, <2>1, FirstNumbers
  <2>3. [k \in 1..Len(b) |-> CurlData(b[k])] = [k \in 1..1 |-> v]
    BY <1>2, <2>2
  <2>4. [k \in 1..1 |-> v] = <<v>>
    OBVIOUS
  <2> QED
    BY <2>1, <2>3, <2>4
<1> QED
  BY <1>4, <1>5, JoinOne

LEMMA NoArgument ==
    ASSUME Bound, NEW r \in Request, ~HasParts(r), BodyArguments(r) = <<>>
    PROVE  CurlBody(CommandOf(r)) = Empty
<1>1. Of(CommandOf(r), {"form"}) = <<>> /\ Of(CommandOf(r), DataKinds) = <<>>
  BY DataAgain
<1> QED
  BY <1>1 DEF CurlBody, Empty

(* One file as the body: no line end follows it.                             *)
LEMMA FileAgain ==
    ASSUME Bound, NEW r \in Request, ~HasParts(r), OnlyFile(r.body),
           ~Mentions(FillAll(r.body), "CR")
    PROVE  CurlBody(CommandOf(r)) = Splice(Unspliced(r))
<1>1. PICK L : L = Seq(Pieces)
  OBVIOUS
<1>2. PICK l \in L : r.body = <<l>> /\ l = r.body[1]
  <2>1. r.body \in Seq(L) /\ Len(r.body) = 1
    BY <1>1 DEF Request, Text, OnlyFile
  <2> QED
    BY <2>1, OnlyElement
<1>3. Begins(l, "<")
  BY <1>2 DEF OnlyFile, Starts
<1>4. PICK e \in L : e = Fill(l)
  BY <1>1, FillType
<1>5. Begins(e, "<")
  BY <1>1, <1>3, <1>4, FillFirst
<1>6. PICK v \in Seq(L) : v = <<e>> /\ Len(v) = 1 /\ v[1] = e
  BY OneLine
<1>7. FillAll(r.body) = v
  <2>1. Len(<<l>>) = 1 /\ <<l>>[1] = l /\ \A k \in 1..1 : k = 1
    BY FirstNumbers
  <2>2. PICK w : w = <<l>>
    OBVIOUS
  <2>3. Len(w) = 1 /\ \A k \in 1..1 : Fill(w[k]) = e
    BY <1>4, <2>1, <2>2
  <2>4. FillAll(w) = [k \in 1..1 |-> e]
    BY <2>3 DEF FillAll
  <2>5. [k \in 1..1 |-> e] = <<e>>
    OBVIOUS
  <2> QED
    BY <1>2, <1>6, <2>2, <2>4, <2>5
<1>8. Last(e) # "CR"
  <2>1. 1 \in 1..Len(v)
    BY <1>6
  <2>2. ~Contains(e, "CR")
    BY <1>6, <1>7, <2>1 DEF Mentions
  <2>3. Len(e) \in 1..Len(e)
    BY <1>1, <1>5 DEF Begins
  <2> QED
    BY <2>2, <2>3 DEF Contains, Last
<1>9. Unspliced(r) = v
  <2>1. ToCRLF(v) = v
    <3>1. \A k \in 1..Len(v) : k = Len(v)
      BY <1>6, FirstNumbers
    <3>2. ToCRLF(v) = [k \in 1..Len(v) |-> v[k]]
      BY <3>1 DEF ToCRLF
    <3>3. v = [k \in 1..Len(v) |-> v[k]]
      BY <1>6
    <3> QED
      BY <3>2, <3>3
  <2> QED
    BY <1>7, <2>1 DEF Unspliced
<1>10. Splice(v) = <<<<"bytes">>>>
  <2>1. PICK d : d = <<"bytes">>
    OBVIOUS
  <2>2. \A k \in 1..Len(v) : v[k] = e
    BY <1>6, FirstNumbers
  <2>3. Splice(v) = [k \in 1..Len(v) |-> d]
    BY <1>5, <1>8, <2>1, <2>2 DEF Splice
  <2>4. [k \in 1..1 |-> d] = <<d>>
    OBVIOUS
  <2> QED
    BY <1>6, <2>1, <2>3, <2>4
<1>11. PICK t : t = <<<<"@">> \o Tail(l)>>
  OBVIOUS
<1>12. Starts(t, "@")
  <2>1. Tail(l) \in Seq(Pieces)
    <3>1. l # <<>>
      BY <1>3 DEF Begins
    <3> QED
      BY <1>1, <3>1, FirstOf
  <2>2. PICK p \in Pieces : p = "@"
    BY PiecesAssumption
  <2>3. Len(<<p>> \o Tail(l)) > 0 /\ (<<p>> \o Tail(l))[1] = p
    BY <2>1
  <2>4. PICK m : m = <<p>> \o Tail(l)
    OBVIOUS
  <2>5. t = <<m>> /\ Begins(m, "@")
    BY <1>11, <2>2, <2>3, <2>4 DEF Begins
  <2>6. Len(<<m>>) > 0 /\ <<m>>[1] = m
    OBVIOUS
  <2> QED
    BY <2>5, <2>6 DEF Starts
<1>13. PICK a : a = Argument("binary", t) /\ a.is = "binary" /\ a.value = t
  <2>1. Argument("binary", t).is = "binary" /\ Argument("binary", t).value = t
    BY DEF Argument
  <2> QED
    BY <2>1
<1>14. BodyArguments(r) = <<a>>
  BY <1>2, <1>11, <1>13 DEF BodyArguments
<1>15. CurlData(a) = <<<<"bytes">>>>
  BY <1>12, <1>13 DEF CurlData
<1> QED
  BY <1>9, <1>10, <1>14, <1>15, OneArgument

(* Text, or no body.                                                         *)
LEMMA TextAgain ==
    ASSUME Bound, NEW r \in Request, ~IsMultipart(FillHeaders(r.headers)),
           \A k \in 1..Len(r.body) : ~Begins(FillAll(r.body)[k], "<")
    PROVE  CurlBody(CommandOf(r)) = Splice(Unspliced(r))
<1>1. PICK L : L = Seq(Pieces)
  OBVIOUS
<1>2. PICK v \in Seq(L) : v = r.body
  BY <1>1 DEF Request, Text
<1>3. PICK w \in Seq(L) : /\ w = FillAll(v) /\ Len(w) = Len(v)
                          /\ \A k \in 1..Len(v) : w[k] = Fill(v[k])
  BY <1>1, FillAllType
<1>4. Unspliced(r) = w
  BY <1>2, <1>3 DEF Unspliced
<1>5. Splice(w) = w
  BY <1>1, <1>2, <1>3, SpliceSame
<1>6. ~HasParts(r)
  <2>1. Begins(Tail(FormType), "multipart")
    BY DEF FormType, Begins
  <2> QED
    BY <2>1 DEF HasParts, IsMultipart
<1>7. ~OnlyFile(v)
  <2>1. ASSUME OnlyFile(v)
        PROVE  FALSE
    <3>1. Len(v) = 1 /\ Begins(v[1], "<")
      BY <2>1 DEF OnlyFile, Starts
    <3>2. 1 \in 1..Len(v)
      BY <3>1
    <3>3. PICK l \in L : l = v[1] /\ w[1] = Fill(l)
      BY <1>3, <3>2
    <3>4. Begins(Fill(l), "<")
      BY <1>1, <3>1, <3>3, FillFirst
    <3> QED
      BY <1>2, <1>3, <3>2, <3>3, <3>4
  <2> QED
    BY <2>1
<1>8. CASE v # Empty
  <2>a. Argument("raw", w).is = "raw" /\ Argument("raw", w).value = w
    BY DEF Argument
  <2>1. PICK a : a = Argument("raw", w) /\ a.is = "raw" /\ a.value = w
    BY <2>a
  <2>2. BodyArguments(r) = <<a>>
    BY <1>2, <1>4, <1>6, <1>7, <1>8, <2>1 DEF BodyArguments
  <2>3. CurlData(a) = w
    BY <2>1 DEF CurlData
  <2> QED
    BY <1>4, <1>5, <1>6, <2>2, <2>3, OneArgument
<1>9. CASE v = Empty
  <2>1. BodyArguments(r) = <<>>
    BY <1>2, <1>6, <1>7, <1>9 DEF BodyArguments
  <2>2. w = Empty
    <3>1. \A k \in 1..Len(v) : NoVariable(v[k])
      <4>1. Len(Empty) = 1 /\ Empty[1] = <<>>
        BY DEF Empty
      <4>2. \A k \in 1..Len(v) : v[k] = <<>>
        BY <1>9, <4>1, FirstNumbers
      <4>3. <<>> \in Seq(Pieces) /\ NoVariable(<<>>)
        BY NoLine DEF NoVariable
      <4> QED
        BY <4>2, <4>3
    <3>2. FillAll(v) = v
      BY <1>1, <3>1, FillAllSame
    <3> QED
      BY <1>3, <1>9, <3>2
  <2> QED
    BY <1>4, <1>5, <1>6, <2>1, <2>2, NoArgument
<1> QED
  BY <1>8, <1>9

LEMMA BodySentAgain ==
    ASSUME Bound, NEW r \in Request, Faithful(r)
    PROVE  CurlBody(CommandOf(r)) = Splice(Unspliced(r))
<1>1. CASE HasParts(r) /\ OnlyParts(r.body)
  BY <1>1, PartsAgain
<1>2. CASE ~HasParts(r) /\ OnlyFile(r.body)
  BY <1>2, FileAgain DEF Faithful
<1>3. CASE /\ ~IsMultipart(FillHeaders(r.headers))
           /\ \A k \in 1..Len(r.body) : ~Begins(FillAll(r.body)[k], "<")
  BY <1>3, TextAgain
<1> QED
  BY <1>1, <1>2, <1>3 DEF Faithful

-----------------------------------------------------------------------------
(* The request of the command and that of the block.                         *)
Outgoing(m, u, p, h, b) == [method |-> m, url |-> u, proxy |-> p, headers |-> h, body |-> b]

LEMMA SameSent ==
    ASSUME NEW m, NEW u, NEW p, NEW b, NEW h \in Seq(SomeLine), NEW g \in Seq(SomeLine),
           Among(h, NoTypes) = Among(g, NoTypes), Among(h, Types) = Among(g, Types)
    PROVE  Same(Outgoing(m, u, p, h, b), Outgoing(m, u, p, g, b))
<1>1. PICK x : x = Outgoing(m, u, p, h, b)
  OBVIOUS
<1>2. PICK y : y = Outgoing(m, u, p, g, b)
  OBVIOUS
<1>3. x.headers = h /\ y.headers = g
  BY <1>1, <1>2 DEF Outgoing
<1>4. PICK o : o = Among(h, NoTypes) /\ o = Among(g, NoTypes)
  OBVIOUS
<1>5. /\ Among(h, {l \in Range(h) : l[1] # "Content-Type"}) = o
      /\ Among(g, {l \in Range(g) : l[1] # "Content-Type"}) = o
  BY <1>4, TypesAmong
<1>6. [x EXCEPT !.headers = o] = [y EXCEPT !.headers = o]
  BY <1>1, <1>2 DEF Outgoing
<1>7. ContentTypes(x.headers) = ContentTypes(y.headers)
  BY <1>3, TypesAmong
<1>8. /\ [x EXCEPT !.headers = Among(@, {l \in Range(@) : l[1] # "Content-Type"})]
            = [x EXCEPT !.headers = o]
      /\ [y EXCEPT !.headers = Among(@, {l \in Range(@) : l[1] # "Content-Type"})]
            = [y EXCEPT !.headers = o]
  BY <1>3, <1>5
<1>9. Same(x, y)
  BY <1>6, <1>7, <1>8 DEF Same
<1> QED
  BY <1>1, <1>2, <1>9

(* Where there are parts, curl writes the Content-Type after the others.     *)
LEMMA TypeMoved ==
    ASSUME NEW f \in Seq(SomeLine), NEW t \in SomeLine, Among(f, Types) = <<t>>, t \in Types
    PROVE  /\ Among(f, NoTypes) \o <<t>> \in Seq(SomeLine)
           /\ Among(Among(f, NoTypes) \o <<t>>, NoTypes) = Among(f, NoTypes)
           /\ Among(Among(f, NoTypes) \o <<t>>, Types) = Among(f, Types)
<1>1. PICK k \in Seq(SomeLine) : k = Among(f, NoTypes) /\ k \in Seq(SomeLine \cap NoTypes)
  BY AmongType
<1>2. PICK z \in Seq(SomeLine) : z = <<t>>
  BY OneLine
<1>3. \A j \in 1..Len(k) : k[j] \in NoTypes /\ k[j] \notin Types
  BY <1>1 DEF NoTypes, Types
<1>4. \A j \in 1..Len(z) : z[j] \in Types /\ z[j] \notin NoTypes
  BY <1>2, FirstNumbers DEF NoTypes, Types
<1>5. /\ Among(k, NoTypes) = k /\ Among(k, Types) = <<>>
      /\ Among(z, NoTypes) = <<>> /\ Among(z, Types) = z
  BY <1>3, <1>4, AmongAll, AmongNone
<1>6. AmongParted(k, z, NoTypes) /\ AmongParted(k, z, Types)
  BY AmongJoined
<1>7. Among(k \o z, NoTypes) = k \o <<>> /\ Among(k \o z, Types) = <<>> \o z
  BY <1>5, <1>6 DEF AmongParted
<1>8. k \o <<>> = k /\ <<>> \o z = z
  OBVIOUS
<1>9. k \o z \in Seq(SomeLine)
  BY LinesJoined
<1> QED
  BY <1>1, <1>2, <1>7, <1>8, <1>9

LEMMA SentAgain ==
    ASSUME Bound, NEW r \in Request, Faithful(r)
    PROVE  Same(CurlSends(CommandOf(r)), Resolve(r))
<1>1. PICK f \in Seq(SomeLine) : f = FillHeaders(r.headers)
  BY FillHeadersType DEF Request
<1>2. PICK u : u = Fill(r.url)
  OBVIOUS
<1>3. PICK p : p = Fill(r.proxy)
  OBVIOUS
<1>4. PICK b : b = Splice(Unspliced(r))
  OBVIOUS
<1>5. PICK h : h = KeptHeaders(r) \o IF HasParts(r) THEN <<FormType>> ELSE <<>>
  OBVIOUS
<1>6. Resolve(r) = Outgoing(r.method, u, p, f, b)
  BY <1>1, <1>2, <1>3, <1>4, Resolved DEF Outgoing
<1>7. CurlSends(CommandOf(r)) = Outgoing(r.method, u, p, h, b)
  <2>1. NamedFields(r) /\ TypedBody(r)
    BY DEF Faithful, NamedFields, TypedBody
  <2>2. CurlHeaders(CommandOf(r)) = h
    BY <1>5, <2>1, HeadersAgain
  <2>3. CurlMethod(CommandOf(r)) = r.method
    BY MethodAgain
  <2>4. CurlUrl(CommandOf(r)) = u
    BY <1>2, UrlAgain
  <2>5. CurlProxy(CommandOf(r)) = p
    BY <1>3, ProxyAgain
  <2>6. CurlBody(CommandOf(r)) = b
    BY <1>4, BodySentAgain
  <2> QED
    BY <2>2, <2>3, <2>4, <2>5, <2>6 DEF CurlSends, Outgoing
<1>8. /\ h \in Seq(SomeLine)
      /\ Among(h, NoTypes) = Among(f, NoTypes) /\ Among(h, Types) = Among(f, Types)
  <2>1. CASE ~HasParts(r)
    <3>1. h = f \o <<>>
      BY <1>1, <1>5, <2>1, KeptIs
    <3>2. f \o <<>> = f
      OBVIOUS
    <3> QED
      BY <3>1, <3>2
  <2>2. CASE HasParts(r)
    <3>1. PICK t \in SomeLine : t = FormType
      BY FormTypeLine
    <3>2. h = Among(f, NoTypes) \o <<t>>
      BY <1>1, <1>5, <2>2, <3>1, KeptIs
    <3>3. PICK c \in Seq(SomeLine) : c = Among(f, Types)
      BY AmongType
    <3>4. c = ContentTypes(f)
      BY <3>3, TypesAmong
    <3>5. c[1] = t
      BY <1>1, <2>2, <3>1, <3>4 DEF HasParts
    <3>6. Len(c) = 1
      <4>1. IsMultipart(f)
        <5>1. Begins(Tail(FormType), "multipart")
          BY DEF FormType, Begins
        <5> QED
          BY <1>1, <2>2, <5>1 DEF HasParts, IsMultipart
      <4> QED
        BY <1>1, <2>2, <3>4, <4>1 DEF Faithful
    <3>7. c = <<t>>
      BY <3>5, <3>6, OnlyElement
    <3>8. t \in Types
      <4>1. FormType[1] = "Content-Type"
        BY DEF FormType
      <4> QED
        BY <3>1, <4>1 DEF Types
    <3> QED
      BY <3>2, <3>3, <3>7, <3>8, TypeMoved
  <2> QED
    BY <2>1, <2>2
<1>9. Same(Outgoing(r.method, u, p, h, b), Outgoing(r.method, u, p, f, b))
  BY <1>8, SameSent
<1> QED
  BY <1>6, <1>7, <1>9

(* No -I, and not both -F and -d.                                           *)
LEMMA NotRefused ==
    ASSUME Bound, NEW r \in Request
    PROVE  ~CurlRefuses(CommandOf(r))
<1>1. Of(CommandOf(r), {"head"}) = <<>>
  <2>1. PICK kinds : kinds = {"head"}
    OBVIOUS
  <2>2. /\ \A x \in {"positional", "method", "header", "proxy"} : x \notin kinds
        /\ BodyIs(r) \cap kinds = {}
    BY <2>1 DEF BodyIs
  <2>3. Of(CommandOf(r), kinds) = <<>>
    BY <2>2, BodyAgain
  <2> QED
    BY <2>1, <2>3
<1>2. ~(Of(CommandOf(r), {"form"}) # <<>> /\ Of(CommandOf(r), DataKinds) # <<>>)
  BY FormsTaken, DataHasBody
<1> QED
  BY <1>1, <1>2 DEF CurlRefuses

LEMMA SentAgainAlways == Converting => CommandSendsSame
<1>1. SUFFICES ASSUME Converting, command # None, Faithful(block.request)
               PROVE  /\ ~CurlRefuses(command)
                      /\ Same(CurlSends(command), Resolve(block.request))
  BY DEF CommandSendsSame
<1>2. ReadTyped(block) /\ command = CommandOf(block.request)
  BY <1>1 DEF Converting, HasCommand
<1>3. PICK r \in Request : r = block.request
  BY <1>2 DEF ReadTyped
<1>4. Bound
  BY <1>1, BindingsAssumption DEF Converting, Bound
<1> QED
  BY <1>1, <1>2, <1>3, <1>4, SentAgain, NotRefused

(* The command that to-curl prints for a block makes curl send what a run    *)
(* of the block sends, bytes of files and line ends included, and is not one *)
(* that curl refuses, whatever the value of the variable; left out are what  *)
(* Faithful names: bodies that -F and --data-raw cannot say, and those       *)
(* without a Content-Type, to which curl adds one and httpfly does not       *)
(* (ToCurl against Resolve).                                                 *)
THEOREM CommandFaithful == Spec => []CommandSendsSame
<1>1. Converting => CommandSendsSame
  BY SentAgainAlways
<1> QED
  BY <1>1, ConvertingAlways, PTL
=============================================================================
