--------------------------- MODULE Analyze_proofs ---------------------------
(***************************************************************************)
(* Proofs about Analyze: for every set of names and every number of        *)
(* blocks, the type invariant and the safety properties of the automaton.  *)
(***************************************************************************)
EXTENDS Analyze, TLAPS

(* Without an error a block carries the one name written in it, if any,     *)
(* unless its request line is none but metadata.                            *)
Good(b) ==
    /\ b \in Block
    /\ b.worst # "error" /\ b.misread # "metadata" =>
         b.written = {b.name} \ {NoName}

Identified(b) == b.worst = "error" \/ b.name \in Ids

Finishes == {"prelude", "prefix", "end"}

(* The inductive invariant: what is said of finished blocks must hold of    *)
(* the block being read as soon as its end would finish it.                 *)
Distinct ==
    \A j, k \in 1..Len(blocks) :
        (j < k /\ blocks[j].name = blocks[k].name /\ blocks[k].name # NoName) =>
            blocks[k].worst = "error"

Reading ==
    /\ Good(block)
    /\ mode \notin Finishes => Identified(block)
    /\ mode = "dead" => block.worst = "error"
    /\ mode \in Finishes \cup {"pre", "afterpre"} => block.misread = "nothing"

Sound ==
    /\ TypeOK
    /\ Reading
    /\ \A k \in 1..Len(blocks) : Good(blocks[k]) /\ Identified(blocks[k])
    /\ Distinct

-----------------------------------------------------------------------------
(* What the operators on blocks return.                                     *)

LEMMA FailIs ==
    ASSUME NEW b \in Block
    PROVE  /\ Fail(b) \in Block /\ Fail(b).worst = "error"
           /\ Fail(b).name = b.name /\ Fail(b).misread = b.misread
           /\ Good(Fail(b)) /\ Identified(Fail(b))
BY DEF Fail, Block, Good, Identified

LEMMA WarnIs ==
    ASSUME NEW b \in Block
    PROVE  /\ Warn(b) \in Block
           /\ Good(b) => Good(Warn(b))
           /\ Identified(b) => Identified(Warn(b))
           /\ Warn(b).name = b.name /\ Warn(b).misread = b.misread
           /\ b.worst = "error" => Warn(b).worst = "error"
<1>1. CASE b.worst = "error"
  <2>1. Warn(b) = b
    BY <1>1 DEF Warn, Block
  <2> QED BY <2>1, <1>1
<1>2. CASE b.worst # "error"
  <2>1. Warn(b) = [b EXCEPT !.worst = "warning"]
    BY <1>2 DEF Warn, Block
  <2> QED BY <2>1, <1>2 DEF Block, Good, Identified
<1> QED BY <1>1, <1>2

LEMMA MisreadIs ==
    ASSUME NEW b \in Block, NEW what \in {"comment", "metadata"}
    PROVE  LET x == [b EXCEPT !.misread = what] IN
           /\ x \in Block /\ x.worst = b.worst
           /\ Good(b) /\ b.misread = "nothing" => Good(x)
           /\ what = "metadata" => Good(x)
           /\ Identified(b) => Identified(x)
BY DEF Block, Good, Identified

LEMMA MisreadingsAre ==
    ASSUME NEW b \in Block, NEW x \in Misreadings(b)
    PROVE  Good(x) /\ (Identified(b) => Identified(x))
<1> DEFINE m == [b EXCEPT !.misread = "metadata"]
<1>1. m \in Block /\ Good(m) /\ (Identified(b) => Identified(m))
  BY MisreadIs
<1>2. x = Fail(m) \/ x = Warn(m)
  BY DEF Misreadings
<1> HIDE DEF m
<1> QED BY <1>1, <1>2, FailIs, WarnIs

LEMMA FreshIs ==
    /\ Fresh \in Block /\ Good(Fresh)
    /\ Fresh.name = NoName /\ Fresh.misread = "nothing"
BY DEF Fresh, Block, Good

LEMMA NameIs ==
    ASSUME NEW b \in Block, NEW n \in Ids, Good(b)
    PROVE  /\ Name(b, n) \in Block /\ Good(Name(b, n))
           /\ Name(b, n).misread = b.misread
<1> DEFINE x == [b EXCEPT !.name = n, !.written = @ \cup {n}]
<1>1. /\ x \in Block /\ x.name = n /\ x.written = b.written \cup {n}
      /\ x.worst = b.worst /\ x.misread = b.misread
  BY DEF Block
<1>2. CASE b.name \notin {NoName, n}
  BY <1>1, <1>2, FailIs DEF Name
<1>3. CASE b.name \in {NoName, n}
  <2>1. Name(b, n) = x
    BY <1>3 DEF Name
  <2>2. b.worst # "error" /\ b.misread # "metadata" => x.written = {n}
    BY <1>1, <1>3 DEF Good
  <2>3. {n} \ {NoName} = {n}
    BY NoNameAssumption
  <2> QED BY <1>1, <2>1, <2>2, <2>3 DEF Good
<1> QED BY <1>2, <1>3

LEMMA NamedIs ==
    ASSUME block \in Block, Good(block)
    PROVE  /\ Named \in Block /\ Good(Named) /\ Identified(Named)
           /\ Named.misread = block.misread
<1>1. CASE block.name = NoName
  BY <1>1, FailIs DEF Named
<1>2. CASE block.name # NoName
  BY <1>2 DEF Named, Identified, Block
<1> QED BY <1>1, <1>2

LEMMA MetadataIs ==
    ASSUME NEW b \in Block, NEW key \in Keys, NEW hasValue \in BOOLEAN
    PROVE  /\ Metadata(b, key, hasValue) \in Block
           /\ Good(b) => Good(Metadata(b, key, hasValue))
           /\ Metadata(b, key, hasValue).misread = b.misread
<1>1. /\ [b EXCEPT !.name = NoName] \in Block
      /\ [b EXCEPT !.name = NoName].misread = b.misread
  BY DEF Block
<1> QED BY <1>1, FailIs, WarnIs DEF Metadata

LEMMA FinishedIs ==
    ASSUME Sound, mode # "end"
    PROVE  /\ Finished \in Seq(Block)
           /\ \A k \in 1..Len(Finished) : Good(Finished[k]) /\ Identified(Finished[k])
           /\ \A j, k \in 1..Len(Finished) :
                (j < k /\ Finished[j].name = Finished[k].name
                 /\ Finished[k].name # NoName) => Finished[k].worst = "error"
<1> USE DEF Sound, TypeOK
<1>1. CASE mode \in {"prelude", "prefix"}
  BY <1>1 DEF Finished, Distinct
<1>2. CASE mode \notin {"prelude", "prefix"}
  <2> DEFINE c == Closed(block)
             u == Unrepeated(c)
  <2>1. /\ c \in Block /\ Good(c) /\ Identified(c)
    BY <1>2, FailIs DEF Closed, Reading, Finishes
  <2>2. /\ u \in Block /\ Good(u) /\ Identified(u) /\ u.name = c.name
        /\ (u.name # NoName /\ \E k \in 1..Len(blocks) : blocks[k].name = u.name)
             => u.worst = "error"
    BY <2>1, FailIs DEF Unrepeated
  <2>3. Finished = Append(blocks, u)
    BY <1>2 DEF Finished
  <2> HIDE DEF u, c
  <2>4. /\ Finished \in Seq(Block) /\ Len(Finished) = Len(blocks) + 1
        /\ Finished[Len(blocks) + 1] = u
        /\ \A k \in 1..Len(blocks) : Finished[k] = blocks[k]
    BY <2>2, <2>3
  <2>5. ASSUME NEW k \in 1..Len(Finished)
        PROVE  Good(Finished[k]) /\ Identified(Finished[k])
    <3>1. CASE k \in 1..Len(blocks)
      BY <3>1, <2>4
    <3>2. CASE k = Len(blocks) + 1
      BY <3>2, <2>2, <2>4
    <3> QED BY <3>1, <3>2, <2>4
  <2>6. ASSUME NEW j \in 1..Len(Finished), NEW k \in 1..Len(Finished), j < k,
               Finished[j].name = Finished[k].name, Finished[k].name # NoName
        PROVE  Finished[k].worst = "error"
    <3>1. CASE k \in 1..Len(blocks)
      BY <3>1, <2>4, <2>6 DEF Distinct
    <3>2. CASE k = Len(blocks) + 1
      BY <3>2, <2>2, <2>4, <2>6
    <3> QED BY <3>1, <3>2, <2>4
  <2> QED BY <2>4, <2>5, <2>6
<1> QED BY <1>1, <1>2

(* A line touches the block being read, or the issues of the prelude.       *)
LEMMA LineKeepsSound ==
    ASSUME Sound, UNCHANGED <<prelude, started, blocks>>,
           mode' \in Modes, issues' \in Block, Reading'
    PROVE  Sound'
<1> USE DEF Sound
<1>1. TypeOK'
  BY DEF TypeOK, Reading, Good
<1>2. Distinct'
  BY DEF Distinct
<1>3. \A k \in 1..Len(blocks') : Good(blocks'[k]) /\ Identified(blocks'[k])
  OBVIOUS
<1>4. (\A k \in 1..Len(blocks) : Good(blocks[k]) /\ Identified(blocks[k]))'
  BY <1>3 DEF Good, Identified
<1> QED BY <1>1, <1>2, <1>4

LEMMA StepKeepsSound ==
    ASSUME Sound, [Next]_vars
    PROVE  Sound'
<1> USE DEF Sound, TypeOK
<1> block \in Block /\ Good(block) /\ issues \in Block
  BY DEF Reading
<1>1. ASSUME NEW n \in Ids, ReadName(n)
      PROVE  Sound'
  <2>1. CASE mode = "prelude"
    BY <1>1, <2>1, FailIs, LineKeepsSound DEF ReadName, Reading, Modes, Finishes
  <2>2. CASE mode = "prefix"
    <3>1. Good(Name(block, n)) /\ Name(block, n).misread = "nothing"
      BY <2>2, NameIs DEF Reading, Finishes
    <3>2. block' = Name(block, n) /\ mode' = "prefix"
      BY <1>1, <2>2 DEF ReadName
    <3>3. Reading'
      BY <3>1, <3>2 DEF Reading, Good, Finishes
    <3> QED BY <1>1, <2>2, <3>3, LineKeepsSound DEF ReadName, Modes
  <2> QED BY <1>1, <2>1, <2>2 DEF ReadName
<1>2. ASSUME NEW n \in Ids, ReadNameAmongHeaders(n)
      PROVE  Sound'
  <2> DEFINE x == [block EXCEPT !.written = @ \cup {n}]
  <2>1. x \in Block
    BY DEF Block
  <2>2. block' = Fail(x) /\ mode' = "headers" /\ UNCHANGED <<prelude, started, issues, blocks>>
    BY <1>2 DEF ReadNameAmongHeaders
  <2>3. Reading'
    BY <2>1, <2>2, FailIs DEF Reading, Good, Identified, Finishes
  <2> QED BY <2>2, <2>3, LineKeepsSound DEF Modes
<1>16. ASSUME NEW n \in Ids, ReadNameForRequest(n)
       PROVE  Sound'
  <2> DEFINE x == [block EXCEPT !.written = @ \cup {n}]
  <2>1. x \in Block /\ Identified(x)
    BY <1>16 DEF Block, ReadNameForRequest, Reading, Finishes, Identified
  <2>2. /\ block' \in Misreadings(x) /\ mode' = "headers"
        /\ UNCHANGED <<prelude, started, issues, blocks>>
    BY <1>16 DEF ReadNameForRequest
  <2>3. Good(block') /\ Identified(block')
    BY <2>1, <2>2, MisreadingsAre
  <2>4. Reading'
    BY <2>2, <2>3 DEF Reading, Good, Identified, Finishes
  <2> QED BY <2>2, <2>4, LineKeepsSound DEF Modes
<1>3. ASSUME NEW key \in Keys, NEW hasValue \in BOOLEAN, ReadMetadata(key, hasValue)
      PROVE  Sound'
  <2>1. CASE mode = "prelude"
    <3>2. issues' \in Block
      BY <1>3, <2>1, FailIs, MetadataIs DEF ReadMetadata
    <3>3. Reading'
      BY <1>3, <2>1 DEF ReadMetadata, Reading, Good, Identified
    <3> QED BY <1>3, <2>1, <3>2, <3>3, LineKeepsSound DEF ReadMetadata
  <2>2. CASE mode = "prefix"
    <3>1. /\ Good(Metadata(block, key, hasValue))
          /\ Metadata(block, key, hasValue).misread = "nothing"
      BY <2>2, MetadataIs DEF Reading, Finishes
    <3>2. block' = Metadata(block, key, hasValue) /\ mode' = "prefix"
      BY <1>3, <2>2 DEF ReadMetadata
    <3>3. Reading'
      BY <3>1, <3>2 DEF Reading, Good, Finishes
    <3> QED BY <1>3, <2>2, <3>3, LineKeepsSound DEF ReadMetadata, Modes
  <2>3. CASE mode = "headers"
    <3>1. Reading'
      BY <1>3, <2>3, FailIs DEF ReadMetadata, Reading, Good, Identified, Finishes
    <3> QED BY <1>3, <2>3, <3>1, LineKeepsSound DEF ReadMetadata, Modes
  <2>4. CASE mode = "afterpre"
    <3>1. Identified(block)
      BY <2>4 DEF Reading, Finishes
    <3>2. Good(block') /\ Identified(block')
      BY <1>3, <2>4, <3>1, FailIs, MisreadingsAre DEF ReadMetadata
    <3>3. mode' = "headers" /\ UNCHANGED <<prelude, started, issues, blocks>>
      BY <1>3, <2>4 DEF ReadMetadata
    <3>4. Reading'
      BY <3>2, <3>3 DEF Reading, Good, Identified, Finishes
    <3> QED BY <3>3, <3>4, LineKeepsSound DEF Modes
  <2> QED BY <1>3, <2>1, <2>2, <2>3, <2>4 DEF ReadMetadata
<1>4. ASSUME NEW l \in Lines, PreludeLine(l)
      PROVE  Sound'
  <2>1. issues' \in Block
    BY <1>4, WarnIs DEF PreludeLine
  <2>2. Reading'
    BY <1>4 DEF PreludeLine, Reading, Good, Identified
  <2> QED BY <1>4, <2>1, <2>2, LineKeepsSound DEF PreludeLine
<1>5. ASSUME NEW l \in Lines, PrefixLine(l)
      PROVE  Sound'
  <2>1. /\ Named \in Block /\ Good(Named) /\ Identified(Named)
        /\ Named.misread = "nothing"
    BY <1>5, NamedIs DEF PrefixLine, Reading, Finishes
  <2>2. /\ Good(Fail(Named)) /\ Identified(Fail(Named)) /\ Fail(Named).worst = "error"
        /\ Good(Warn(Named)) /\ Identified(Warn(Named))
    BY <2>1, FailIs, WarnIs
  <2>3. mode' \in Modes /\ UNCHANGED <<prelude, started, issues, blocks>>
    BY <1>5 DEF PrefixLine, Modes
  <2>4. \/ mode' = mode /\ block' = block
        \/ /\ mode' \in {"pre", "dead", "headers"}
           /\ Good(block') /\ Identified(block')
           /\ mode' = "dead" => block'.worst = "error"
           /\ mode' = "pre" => block'.misread = "nothing"
    BY <1>5, <2>1, <2>2 DEF PrefixLine, Requested
  <2>5. Reading'
    BY <2>4, <1>5 DEF Reading, Finishes, Good, Identified, PrefixLine
  <2> QED BY <2>3, <2>5, LineKeepsSound
<1>6. ASSUME NEW l \in Lines, NEW compiles \in BOOLEAN, ScriptLine(l, compiles)
      PROVE  Sound'
  <2>1. Identified(block)
    BY <1>6 DEF ScriptLine, Reading, Finishes
  <2>2. mode' \in {"pre", "post", "afterpre", "after"} /\ Good(block') /\ Identified(block')
    BY <1>6, <2>1, FailIs DEF ScriptLine, Identified, Good
  <2>3. mode' \in {"pre", "afterpre"} => block'.misread = "nothing"
    BY <1>6, FailIs DEF ScriptLine, Reading, Finishes
  <2>4. Reading'
    BY <2>2, <2>3 DEF Reading, Good, Identified, Finishes
  <2> QED BY <1>6, <2>2, <2>4, LineKeepsSound DEF ScriptLine, Modes
<1>7. ASSUME NEW l \in Lines, AfterPreLine(l)
      PROVE  Sound'
  <2>1. Identified(block)
    BY <1>7 DEF AfterPreLine, Reading, Finishes
  <2> DEFINE x == [block EXCEPT !.misread = "comment"]
  <2>0. block.misread = "nothing"
    BY <1>7 DEF AfterPreLine, Reading, Finishes
  <2>2. x \in Block /\ Good(x) /\ Identified(x)
    BY <2>0, <2>1, MisreadIs
  <2>3. /\ Good(Fail(block)) /\ Fail(block).worst = "error"
        /\ Good(Warn(block)) /\ Identified(Warn(block))
        /\ Good(Warn(x)) /\ Identified(Warn(x)) /\ Identified(Fail(block))
    BY <2>1, <2>2, FailIs, WarnIs
  <2> HIDE DEF x
  <2>4. /\ mode' \in {"afterpre", "headers", "dead"}
        /\ Good(block') /\ Identified(block')
        /\ mode' = "dead" => block'.worst = "error"
        /\ mode' = "afterpre" => block' = block
    BY <1>7, <2>1, <2>3 DEF AfterPreLine, Requested, Identified, Good, x
  <2>5. Reading'
    BY <2>0, <2>4 DEF Reading, Good, Identified, Finishes
  <2> QED BY <1>7, <2>4, <2>5, LineKeepsSound DEF AfterPreLine, Modes
<1>8. ASSUME NEW l \in Lines, HeaderLine(l)
      PROVE  Sound'
  <2>1. Identified(block)
    BY <1>8 DEF HeaderLine, Reading, Finishes
  <2>2. mode' \in {"headers", "body"} /\ Good(block') /\ Identified(block')
    BY <1>8, <2>1, FailIs DEF HeaderLine, Identified, Good
  <2>3. Reading'
    BY <2>2 DEF Reading, Good, Identified, Finishes
  <2> QED BY <1>8, <2>2, <2>3, LineKeepsSound DEF HeaderLine, Modes
<1>9. ASSUME NEW l \in Lines, BodyLine(l)
      PROVE  Sound'
  <2>1. Identified(block)
    BY <1>9 DEF BodyLine, Reading, Finishes
  <2>2. mode' \in {"body", "post"} /\ Good(block') /\ Identified(block')
    BY <1>9, <2>1 DEF BodyLine, Identified, Good
  <2>3. Reading'
    BY <2>2 DEF Reading, Good, Identified, Finishes
  <2> QED BY <1>9, <2>2, <2>3, LineKeepsSound DEF BodyLine, Modes
<1>10. ASSUME NEW l \in Lines, AfterPostLine(l)
       PROVE  Sound'
  <2>1. Identified(block)
    BY <1>10 DEF AfterPostLine, Reading, Finishes
  <2>2. Good(block') /\ Identified(block')
    BY <1>10, <2>1, WarnIs DEF AfterPostLine, Identified, Good
  <2>3. Reading'
    BY <1>10, <2>2 DEF Reading, Good, Identified, AfterPostLine, Finishes
  <2> QED BY <1>10, <2>2, <2>3, LineKeepsSound DEF AfterPostLine
<1>12. ASSUME mode # "end", blocks' = Finished, mode' \in Finishes, Good(block'),
              block'.misread = "nothing",
              UNCHANGED <<prelude, issues>>, started' \in BOOLEAN
       PROVE  Sound'
  <2>1. TypeOK'
    BY <1>12, FinishedIs DEF Good, Modes, Finishes
  <2>2. Reading'
    BY <1>12 DEF Reading, Good, Finishes
  <2>3. (\A k \in 1..Len(blocks) : Good(blocks[k]) /\ Identified(blocks[k]))'
    BY <1>12, FinishedIs DEF Good, Identified
  <2>4. Distinct'
    BY <1>12, FinishedIs DEF Distinct
  <2> QED BY <2>1, <2>2, <2>3, <2>4
<1>13. ASSUME NEW n \in Ids \cup {NoName}, Separator(n)
       PROVE  Sound'
  <2>1. /\ Good(IF n = NoName THEN Fresh ELSE Name(Fresh, n))
        /\ (IF n = NoName THEN Fresh ELSE Name(Fresh, n)).misread = "nothing"
    BY FreshIs, NameIs
  <2> QED BY <1>12, <1>13, <2>1 DEF Separator, Finishes, Good
<1>14. ASSUME EndOfFile
       PROVE  Sound'
  BY <1>12, <1>14, FreshIs DEF EndOfFile, Finishes, Good
<1>15. CASE UNCHANGED vars
  BY <1>15 DEF vars, Reading, Distinct, Good, Identified
<1> QED
  BY <1>1, <1>2, <1>3, <1>4, <1>5, <1>6, <1>7, <1>8, <1>9, <1>10,
     <1>13, <1>14, <1>15, <1>16 DEF Next

(* While a file is read, what the current block must have to be accepted, and *)
(* that of two finished blocks of one name the later one has an error.       *)
THEOREM Soundness == Spec => []Sound
<1>1. Init => Sound
  <2> SUFFICES ASSUME Init PROVE Sound
    OBVIOUS
  <2>1. blocks = <<>> /\ blocks \in Seq(Block) /\ Len(blocks) = 0
    BY DEF Init
  <2>2. TypeOK
    BY <2>1, FreshIs DEF Init, TypeOK, Modes
  <2>3. Reading
    BY FreshIs DEF Init, Reading, Finishes
  <2> QED BY <2>1, <2>2, <2>3 DEF Sound, Distinct
<1> QED BY <1>1, StepKeepsSound, PTL DEF Spec

-----------------------------------------------------------------------------
(* The variables have their types.                                          *)
THEOREM TypeCorrect == Spec => []TypeOK
<1>1. Sound => TypeOK
  BY DEF Sound
<1> QED BY <1>1, Soundness, PTL

(* In an accepted file -name reaches every request, however many blocks.    *)
THEOREM Reachable == Spec => []EveryRequestReachable
<1>1. ASSUME Sound, Accepted
      PROVE  \A k \in 1..Len(blocks) :
               /\ blocks[k].name \in Ids
               /\ \A j \in 1..Len(blocks) : blocks[j].name = blocks[k].name => j = k
  <2>1. ASSUME NEW k \in 1..Len(blocks)
        PROVE  blocks[k].worst # "error" /\ blocks[k].name \in Ids
                 /\ blocks[k].name # NoName
    BY <1>1, <2>1, NoNameAssumption DEF Sound, Accepted, Identified
  <2>2. ASSUME NEW j \in 1..Len(blocks), NEW k \in 1..Len(blocks),
               blocks[j].name = blocks[k].name
        PROVE  j = k
    <3>1. ~(j < k) /\ ~(k < j)
      BY <1>1, <2>1, <2>2 DEF Sound, Distinct
    <3> QED BY <3>1, <1>1 DEF Sound, TypeOK
  <2> QED BY <2>1, <2>2
<1>2. Sound => EveryRequestReachable
  BY <1>1 DEF EveryRequestReachable
<1> QED BY <1>2, Soundness, PTL

(* In an accepted file a block goes by the only name written in it, as long *)
(* as its request line is not metadata.                                     *)
THEOREM NamesTrue == Spec => []NamesAsWritten
<1>1. ASSUME Sound, Accepted, NEW k \in 1..Len(blocks),
             blocks[k].misread # "metadata"
      PROVE  blocks[k].written = {blocks[k].name}
  <2>1. /\ blocks[k].worst # "error" /\ blocks[k].name \in Ids
        /\ blocks[k].written = {blocks[k].name} \ {NoName}
    BY <1>1 DEF Sound, Accepted, Identified, Good
  <2> QED BY <2>1, NoNameAssumption
<1>2. Sound => NamesAsWritten
  BY <1>1 DEF NamesAsWritten
<1> QED BY <1>2, Soundness, PTL
=============================================================================
