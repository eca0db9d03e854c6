---------------------------- MODULE MCMultiplexGame ---------------------------
(***************************************************************************)
(* Model-checking instance of MultiplexGame.                               *)
(***************************************************************************)
EXTENDS MultiplexGame, TLC

Symmetry == Permutations(Stoppers)
=============================================================================
