-------------------------- MODULE MCSingleUseToken --------------------------
(***************************************************************************)
(* SingleUseToken on small sets.                                           *)
(***************************************************************************)
EXTENDS SingleUseToken, TLC

Symmetry == Permutations(Tokens) \union Permutations(Calls)
=============================================================================
