-------------------------------- MODULE MCLaunch ------------------------------
(***************************************************************************)
(* Model-checking instance of Launch: the wrapper's own directory, one     *)
(* below it, one beside it and the root.                                   *)
(***************************************************************************)
EXTENDS Launch

MCHome == <<"home">>
MCDirectories == {<<>>, MCHome, <<"home", "bin">>, <<"opt">>}
=============================================================================
