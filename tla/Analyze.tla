------------------------------- MODULE Analyze -------------------------------
(***************************************************************************)
(* How an .http file becomes requests: parser.splitBlocks, parsePrelude,   *)
(* validateBlock and AnalyzeWithEnv, read as one automaton that takes the  *)
(* file line by line.  A line is what its place in the file makes of it: a *)
(* "# @name" is metadata before the request line, an error among the       *)
(* headers and plain text in a body or a script.  The text of lines is     *)
(* left out but for @name, which -name selects by; resolving placeholders  *)
(* (validateBlock's last step) is in RunCommand and Interpolate.           *)
(***************************************************************************)
EXTENDS Naturals, Sequences, FiniteSets, Functions

CONSTANTS
    Ids,        \* names of requests
    NoName,     \* a block, or a separator line, without a name
    MaxBlocks   \* bound: request blocks of a file

ASSUME NoNameAssumption == NoName \notin Ids
ASSUME MaxBlocksAssumption == MaxBlocks \in Nat

VARIABLES
    prelude,    \* the file has a separator, so what precedes it is the prelude
    started,    \* a separator has been read
    mode,       \* the part of the file the next line belongs to
    block,      \* the block being read
    issues,     \* what the prelude was found to have wrong
    blocks      \* the results for the blocks before it

vars == <<prelude, started, mode, block, issues, blocks>>

(* Where the next line falls.  "dead" is the rest of a block that an error  *)
(* made validateBlock give up on: no line of it is looked at.               *)
Modes == {"prelude", "prefix", "pre", "afterpre", "headers", "body", "post",
          "after", "dead", "end"}

(* Lines, trimmed: "near" is a ">" line that is not exactly "> {%", such as *)
(* ">{%"; "angle" a "<" line that is no "< {%"; "request" reads as METHOD,  *)
(* absolute URL and perhaps PROTO; "header" has a name and a colon; "words" *)
(* is neither.  "#", "@", "<" and ">" lines may happen to be one as well.   *)
Lines == {"blank", "comment", "variable", "open", "angle", "postopen", "near",
          "close", "request", "header", "words"}

(* The worst of a block's issues is what later steps look at.  written and  *)
(* misread are history: the names written in the block where metadata is    *)
(* read, refused or misread, and what was taken for the request line.       *)
Block == [name : Ids \cup {NoName}, worst : {"none", "warning", "error"},
          written : SUBSET Ids, misread : {"nothing", "comment", "metadata"}]

Fresh == [name |-> NoName, worst |-> "none", written |-> {},
          misread |-> "nothing"]

Fail(b) == [b EXCEPT !.worst = "error"]
Warn(b) == [b EXCEPT !.worst = IF @ = "error" THEN @ ELSE "warning"]

TypeOK ==
    /\ prelude \in BOOLEAN
    /\ started \in BOOLEAN
    /\ mode \in Modes
    /\ block \in Block
    /\ issues \in Block
    /\ blocks \in Seq(Block)

(* A file without any separator has no prelude: it is one block.            *)
Init ==
    /\ prelude \in BOOLEAN
    /\ started = FALSE
    /\ mode = IF prelude THEN "prelude" ELSE "prefix"
    /\ block = Fresh
    /\ issues = Fresh
    /\ blocks = <<>>

-----------------------------------------------------------------------------
(* Metadata                                                                 *)

(* Two names for one block, by a separator or by metadata, are an error.    *)
Name(b, n) ==
    LET named == [b EXCEPT !.name = n, !.written = @ \cup {n}] IN
    IF b.name \notin {NoName, n} THEN Fail(named) ELSE named

(* "# @name n": not in the prelude, not among the headers.                  *)
ReadName(n) ==
    \/ /\ mode = "prelude"
       /\ issues' = Fail(issues)
       /\ UNCHANGED <<prelude, started, mode, block, blocks>>
    \/ /\ mode = "prefix"
       /\ block' = Name(block, n)
       /\ UNCHANGED <<prelude, started, mode, issues, blocks>>

(* Mutated: any "#" line among the headers is a comment.                    *)
NameAmongHeadersSkipped(n) ==
    /\ mode = "headers"
    /\ block' = [block EXCEPT !.written = @ \cup {n}]
    /\ UNCHANGED <<prelude, started, mode, issues, blocks>>

ReadNameAmongHeaders(n) ==
    /\ mode = "headers"
    /\ block' = Fail([block EXCEPT !.written = @ \cup {n}])
    /\ UNCHANGED <<prelude, started, mode, issues, blocks>>

(* Metadata after a pre-request script is taken for the request line, which *)
(* it even is when its value is a URL: "#@name https://host" has the method *)
(* "#@name", which is worth a warning.                                      *)
Misreadings(b) == LET m == [b EXCEPT !.misread = "metadata"] IN {Fail(m), Warn(m)}

ReadNameForRequest(n) ==
    /\ mode = "afterpre"
    /\ mode' = "headers"
    /\ block' \in Misreadings([block EXCEPT !.written = @ \cup {n}])
    /\ UNCHANGED <<prelude, started, issues, blocks>>

(* "# @key value" for another key: known ones need a value, unknown ones    *)
(* are a warning, as is a language other than Lua; "lang" and "name" are    *)
(* for requests only, and a "# @name" without a value undoes an earlier one.*)
Keys == {"name", "lang", "cobol", "proxy", "unknown", "empty"}
BadMetadata(key, hasValue) ==
    key = "empty" \/ (key \in {"name", "lang", "proxy"} /\ ~hasValue)

Metadata(b, key, hasValue) ==
    IF BadMetadata(key, hasValue)
    THEN Fail(IF key = "name" THEN [b EXCEPT !.name = NoName] ELSE b)
    ELSE IF key \in {"unknown", "cobol"} THEN Warn(b) ELSE b

ReadMetadata(key, hasValue) ==
    \/ /\ mode = "prelude"
       /\ issues' = IF key \in {"lang", "cobol"} THEN Fail(issues)
                    ELSE Metadata(issues, key, hasValue)
       /\ UNCHANGED <<prelude, started, mode, block, blocks>>
    \/ /\ mode = "prefix"
       /\ block' = Metadata(block, key, hasValue)
       /\ UNCHANGED <<prelude, started, mode, issues, blocks>>
    \/ /\ mode = "headers"
       /\ block' = Fail(block)
       /\ UNCHANGED <<prelude, started, mode, issues, blocks>>
    \/ /\ mode = "afterpre"
       /\ mode' = "headers"
       /\ block' \in IF hasValue THEN Misreadings(block) ELSE {Fail(block)}
       /\ UNCHANGED <<prelude, started, issues, blocks>>

-----------------------------------------------------------------------------
(* Lines by place                                                           *)

(* parsePrelude keeps variables and reports what it does not understand.    *)
PreludeLine(l) ==
    /\ mode = "prelude"
    /\ issues' = IF l \in {"blank", "comment", "variable"} THEN issues
                 ELSE Warn(issues)
    /\ UNCHANGED <<prelude, started, mode, block, blocks>>

(* parseRequestLine: an odd method or protocol is a warning.                *)
Requested(b) == {b, Warn(b)}

(* The first line of a block that is neither blank, comment, metadata nor   *)
(* variable opens a pre-request script or is the request line; a name must  *)
(* have been given by then.                                                 *)
Named == IF block.name = NoName THEN Fail(block) ELSE block

PrefixLine(l) ==
    /\ mode = "prefix"
    /\ \/ l \in {"blank", "comment", "variable"} /\ UNCHANGED <<mode, block>>
       \/ l = "open" /\ mode' = "pre" /\ block' = Named
       \/ l = "angle" /\ mode' = "dead" /\ block' = Fail(Named)
       \/ l \in {"postopen", "near"} /\ mode' = "dead"
             /\ block' = Fail(Named)
       \/ l = "request" /\ mode' = "headers" /\ block' \in Requested(Named)
       \/ l \in {"header", "words", "close"} /\ mode' = "headers"
             /\ block' = Fail(Named)
    /\ UNCHANGED <<prelude, started, issues, blocks>>

(* Every line up to "%}" is Lua, which is compiled then.                    *)
ScriptLine(l, compiles) ==
    /\ mode \in {"pre", "post"}
    /\ \/ l # "close" /\ UNCHANGED <<mode, block>>
       \/ /\ l = "close"
          /\ mode' = IF mode = "pre" THEN "afterpre" ELSE "after"
          /\ block' = IF compiles THEN block ELSE Fail(block)
    /\ UNCHANGED <<prelude, started, issues, blocks>>

(* Only blank lines may come between the script and the request line: what  *)
(* was a comment before the script is read as the request after it, and     *)
(* "# https://host" is one.                                                 *)
AfterPreLine(l) ==
    /\ mode = "afterpre"
    /\ \/ l = "blank" /\ UNCHANGED <<mode, block>>
       \/ l = "request" /\ mode' = "headers" /\ block' \in Requested(block)
       \/ l \in {"postopen", "near"} /\ mode' = "dead"
             /\ block' = Fail(block)
       \/ l \notin {"blank", "request", "postopen", "near"}
             /\ mode' = "headers" /\ block' = Fail(block)
       \/ l \in {"comment", "variable", "angle"} /\ mode' = "headers"
             /\ block' = Warn(IF l = "comment"
                              THEN [block EXCEPT !.misread = "comment"]
                              ELSE block)
    /\ UNCHANGED <<prelude, started, issues, blocks>>

(* A line with a colon is a header, even one that looks like a request.     *)
HeaderLine(l) ==
    /\ mode = "headers"
    /\ \/ l = "blank" /\ mode' = "body" /\ UNCHANGED block
       \/ l \in {"comment", "header", "request", "variable", "angle", "near"}
             /\ UNCHANGED <<mode, block>>
       \/ l \notin {"blank", "comment", "header", "request"}
             /\ block' = Fail(block) /\ UNCHANGED mode
    /\ UNCHANGED <<prelude, started, issues, blocks>>

(* Mutated: a script is read the same way wherever it stands.               *)
AnyScript(l) ==
    /\ mode = "body"
    /\ mode' = IF l = "postopen" THEN "script" ELSE mode
    /\ UNCHANGED <<prelude, started, block, issues, blocks>>

(* extractPostScript: nothing but "> {%" ends the body.                     *)
BodyLine(l) ==
    /\ mode = "body"
    /\ mode' = IF l = "postopen" THEN "post" ELSE mode
    /\ UNCHANGED <<prelude, started, block, issues, blocks>>

(* Nothing but blank lines belongs after the post-request script.           *)
AfterPostLine(l) ==
    /\ mode = "after"
    /\ block' = IF l = "blank" THEN block ELSE Warn(block)
    /\ UNCHANGED <<prelude, started, mode, issues, blocks>>

-----------------------------------------------------------------------------
(* The end of a block                                                       *)

(* A script left open, or no request line after one.                        *)
Closed(b) == IF mode \in {"pre", "afterpre", "post"} THEN Fail(b) ELSE b

(* Mutated: a repeated name is worth a warning.                             *)
RepeatedIsOdd(b) ==
    IF b.name # NoName /\ \E k \in 1..Len(blocks) : blocks[k].name = b.name
    THEN Warn(b) ELSE b

(* seenNames: a name identifies one request of the file.                    *)
Unrepeated(b) ==
    IF b.name # NoName /\ \E k \in 1..Len(blocks) : blocks[k].name = b.name
    THEN Fail(b) ELSE b

(* A block of comments, variables and metadata only is no request and has   *)
(* no issues, whatever was found in it.                                     *)
Finished ==
    IF mode \in {"prelude", "prefix"} THEN blocks
    ELSE Append(blocks, Unrepeated(Closed(block)))

(* A line starting with "###" ends the block, in the middle of a body or of *)
(* a script too, and may name the next one.                                 *)
Separator(n) ==
    /\ prelude /\ mode # "end" /\ Len(Finished) < MaxBlocks
    /\ started' = TRUE
    /\ mode' = "prefix"
    /\ blocks' = Finished
    /\ block' = IF n = NoName THEN Fresh ELSE Name(Fresh, n)
    /\ UNCHANGED <<prelude, issues>>

EndOfFile ==
    /\ mode # "end" /\ (prelude => started)
    /\ mode' = "end"
    /\ blocks' = Finished
    /\ block' = Fresh
    /\ UNCHANGED <<prelude, started, issues>>

Next ==
    \/ \E n \in Ids : ReadName(n) \/ ReadNameAmongHeaders(n) \/ ReadNameForRequest(n)
    \/ \E key \in Keys, hasValue \in BOOLEAN : ReadMetadata(key, hasValue)
    \/ \E l \in Lines :
         \/ PreludeLine(l)
         \/ PrefixLine(l)
         \/ \E compiles \in BOOLEAN : ScriptLine(l, compiles)
         \/ AfterPreLine(l)
         \/ HeaderLine(l)
         \/ BodyLine(l)
         \/ AfterPostLine(l)
    \/ \E n \in Ids \cup {NoName} : Separator(n)
    \/ EndOfFile

Spec == Init /\ [][Next]_vars

(* ParseWithEnv: one error anywhere and no request of the file is used.     *)
Accepted ==
    /\ mode = "end"
    /\ issues.worst # "error"
    /\ \A k \in 1..Len(blocks) : blocks[k].worst # "error"

-----------------------------------------------------------------------------
(* In an accepted file every request has a name and no two have the same,   *)
(* so that -name reaches each of them (AnalyzeWithEnv).                     *)
EveryRequestReachable ==
    Accepted =>
        \A k \in 1..Len(blocks) :
            /\ blocks[k].name \in Ids
            /\ \A j \in 1..Len(blocks) : blocks[j].name = blocks[k].name => j = k

(* In an accepted file a block goes by the only name written in it, in its  *)
(* separator or as metadata: a name that is misplaced or contradicted is    *)
(* not ignored, unless it stands after the pre-request script and passes    *)
(* for the request line.                                                    *)
NamesAsWritten ==
    Accepted => \A k \in 1..Len(blocks) :
        blocks[k].misread # "metadata" => blocks[k].written = {blocks[k].name}

(* What doc/http-file-format.md says and the code does not do.              *)
(* A comment before the request line is ignored.                            *)
CommentsIgnored ==
    Accepted => \A k \in 1..Len(blocks) : blocks[k].misread # "comment"
=============================================================================
