---------------------------- MODULE MCMembership ----------------------------
(***************************************************************************)
(* Membership on small sets.                                               *)
(***************************************************************************)
EXTENDS Membership, TLC

Symmetry ==
  Permutations(Users) \union Permutations(MemberIds) \union Permutations(Invitations)
    \union Permutations(Calls)
=============================================================================
