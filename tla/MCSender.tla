------------------------------- MODULE MCSender -------------------------------
(***************************************************************************)
(* Model-checking instance of Sender: calls of one kind are                *)
(* interchangeable.                                                        *)
(***************************************************************************)
EXTENDS Sender, TLC

Symmetry ==
    Permutations(StartCalls) \union Permutations(TermCalls) \union Permutations(UpdateCalls)
=============================================================================
