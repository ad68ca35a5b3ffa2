----------------------------- MODULE MCFrontEnd -----------------------------
(* A program for FrontEnd: plain instructions, some that crack in two, and *)
(* a word nothing matches.                                                 *)
EXTENDS FrontEnd

Program == <<1, 2, 0, 1, 2, 1, 1, 2>>
MCCrackLen == [w \in Words |-> Program[w + 1]]
=============================================================================
