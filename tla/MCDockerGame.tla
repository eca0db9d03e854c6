---------------------------- MODULE MCDockerGame ----------------------------
(***************************************************************************)
(* Model-checking instance of DockerGame: the callers of Stop are          *)
(* interchangeable, so safety runs may use their symmetry.                 *)
(***************************************************************************)
EXTENDS DockerGame, TLC

Symmetry == Permutations(Stoppers)
=============================================================================
