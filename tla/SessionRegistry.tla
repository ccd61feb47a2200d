-------------------------- MODULE SessionRegistry --------------------------
(***************************************************************************)
(* The operators of concurrent-session-limit.ts on its Map of registered   *)
(* sessions.  The Map is a sequence of [sid, user, org], oldest first: a   *)
(* Map iterates in insertion order and the code sorts by createdAt, which  *)
(* a steady clock keeps in that order.                                     *)
(***************************************************************************)
EXTENDS Naturals, Sequences, FiniteSets, Lists

CONSTANTS
  UserLimit,  \* limits.user
  OrgLimit,   \* organization -> limits.org, or NoLimit when undefined
  NoLimit,
  NoOrg       \* orgId = null

ASSUME LimitAssumption ==
  /\ UserLimit \in Nat
  /\ OrgLimit \in [DOMAIN OrgLimit -> Nat \union {NoLimit}]
  /\ NoLimit \notin Nat

Registered(reg) == {reg[i].sid : i \in DOMAIN reg}

\* The places of a user's, and of an organization's, sessions in the registry.
OfUser(reg, user) == {i \in DOMAIN reg : reg[i].user = user}
OfOrg(reg, org)   == {i \in DOMAIN reg : reg[i].org = org}

\* A plausible bug: the slice is taken from the young end.
OverflowNewest(places, limit) ==
  {i \in places : Cardinality({j \in places : j <= i}) >= limit}

\* The oldest that must go so that one more fits under the limit: those that
\* fill the limit together with the younger ones.
Overflow(places, limit) ==
  {i \in places : Cardinality({j \in places : j >= i}) >= limit}

OrgLimited(org) == org # NoOrg /\ OrgLimit[org] # NoLimit

Allowed(org) == UserLimit >= 1 /\ (OrgLimited(org) => OrgLimit[org] >= 1)

\* A plausible bug: the organization's limit evicts nothing.
EvictIgnoresOrg(reg, user, org) ==
  LET due == Overflow(OfUser(reg, user), UserLimit)
  IN  Keep([i \in DOMAIN reg |-> reg[i].sid], due)

\* checkCanCreateSession(...).evictSessionIds, oldest first.
EvictSessionIds(reg, user, org) ==
  LET due == Overflow(OfUser(reg, user), UserLimit)
             \union (IF OrgLimited(org) THEN Overflow(OfOrg(reg, org), OrgLimit[org]) ELSE {})
  IN  Keep([i \in DOMAIN reg |-> reg[i].sid], due)

RemoveSessions(reg, sids) == Keep(reg, {i \in DOMAIN reg : reg[i].sid \notin sids})

\* A plausible bug: the arguments change places.
RegisterSwapped(reg, sid, user, org) ==
  Append(RemoveSessions(reg, {sid}), [sid |-> sid, user |-> org, org |-> user])

\* Registering a known id would give it a new createdAt: it moves to the end.
RegisterSession(reg, sid, user, org) ==
  Append(RemoveSessions(reg, {sid}), [sid |-> sid, user |-> user, org |-> org])
=============================================================================
