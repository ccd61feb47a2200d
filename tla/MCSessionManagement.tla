------------------------ MODULE MCSessionManagement ------------------------
(***************************************************************************)
(* SessionManagement on small sets.                                        *)
(***************************************************************************)
EXTENDS SessionManagement, TLC

\* Every organization has a limit of one session.
OneEach == [o \in Orgs |-> 1]

Symmetry ==
  Permutations(Users) \union Permutations(SessionIds) \union Permutations(Tokens)
  \union Permutations(Calls)
=============================================================================
