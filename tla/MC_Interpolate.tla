--------------------------- MODULE MC_Interpolate ---------------------------
(* Three names whose values are up to two tokens, with every graph of        *)
(* references between them, and four shapes of URL.                         *)
EXTENDS Interpolate

CONSTANTS a, b, c, uuid

MCNames == {a, b, c}
MCDynamic == {uuid}

MCTexts == {<<Lit>>, <<uuid, Nope>>} \cup {<<m>> : m \in MCNames} \cup
           {<<m, n>> : m \in MCNames, n \in MCNames}

MCScriptTexts == {<<Lit>>, <<b>>}
MCLocal == {b, c}

Flag(k) == [key |-> k, hasValue |-> FALSE, value |-> <<>>]
Pair(k, v) == [key |-> k, hasValue |-> TRUE, value |-> v]

MCURLs ==
    {[base |-> <<Lit, a>>, query |-> <<>>],
     [base |-> <<b, Nope>>, query |-> <<Flag(<<c>>)>>],
     [base |-> <<Lit>>, query |-> <<Pair(<<Lit>>, <<Lit, a, uuid>>)>>],
     [base |-> <<a>>, query |-> <<Flag(<<Lit, c>>), Pair(<<b>>, <<Lit, c>>)>>]}
=============================================================================
