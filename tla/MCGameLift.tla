------------------------------ MODULE MCGameLift ------------------------------
(***************************************************************************)
(* Model-checking instance of GameLift: callbacks of one kind are          *)
(* interchangeable.                                                        *)
(***************************************************************************)
EXTENDS GameLift, TLC

Symmetry ==
    Permutations(StartCalls) \union Permutations(TermCalls) \union Permutations(UpdateCalls)
=============================================================================
