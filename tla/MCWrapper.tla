------------------------------ MODULE MCWrapper -------------------------------
(***************************************************************************)
(* Model-checking instance of Wrapper: callbacks of one kind are           *)
(* interchangeable.                                                        *)
(***************************************************************************)
EXTENDS Wrapper, TLC

Symmetry ==
    Permutations(StartCalls) \union Permutations(TermCalls) \union Permutations(UpdateCalls)
=============================================================================
