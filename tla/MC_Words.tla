------------------------------ MODULE MC_Words ------------------------------
(* Every text of up to five characters, and every command of up to two      *)
(* lines whose arguments have up to two.                                    *)
EXTENDS Words
=============================================================================
