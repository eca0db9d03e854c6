------------------------------ MODULE MCHarness -------------------------------
(***************************************************************************)
(* Model-checking instance of Harness: callers of the same callback are    *)
(* interchangeable.                                                        *)
(***************************************************************************)
EXTENDS Harness, TLC

Symmetry == Permutations(StartCalls) \union Permutations(TermCalls)
=============================================================================
