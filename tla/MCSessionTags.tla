---------------------------- MODULE MCSessionTags -----------------------------
(***************************************************************************)
(* Model-checking instance of SessionTags: the sessions and the tags are   *)
(* interchangeable.                                                        *)
(***************************************************************************)
EXTENDS SessionTags, TLC

Symmetry == Permutations(Session) \union Permutations(Tag)
=============================================================================
