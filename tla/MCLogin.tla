------------------------------ MODULE MCLogin ------------------------------
(***************************************************************************)
(* Login on small sets.                                                    *)
(***************************************************************************)
EXTENDS Login, TLC

Symmetry ==
  Permutations(Requests) \union Permutations(BackupCodeSet) \union Permutations(SmsCodes)
=============================================================================
