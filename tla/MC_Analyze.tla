----------------------------- MODULE MC_Analyze -----------------------------
(* Files of up to two requests and any number of lines, two names.        *)
EXTENDS Analyze

CONSTANTS a, b

MCIds == {a, b}
=============================================================================
