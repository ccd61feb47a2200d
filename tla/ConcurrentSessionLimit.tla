----------------------- MODULE ConcurrentSessionLimit -----------------------
(***************************************************************************)
(* concurrent-session-limit.ts on its own: the synchronous entry points    *)
(* that check, evict and register in one run of the event loop, with       *)
(* regenerateSessionId of session-fixation.ts.                             *)
(***************************************************************************)
EXTENDS SessionRegistry, FiniteSets

CONSTANTS
  Users, Orgs,
  SessionIds   \* bound: ids that generateSecureToken may draw

ASSUME OrgsAssumption == DOMAIN OrgLimit = Orgs /\ NoOrg \notin Orgs

VARIABLES
  registry,    \* sessions: Map<string, SessionRecord>
  step         \* the last entry point called, with what it evicted

limiterVars == <<registry, step>>

LimiterInit ==
  /\ registry = <<>>
  /\ step = [op |-> "none"]

\* A fresh id is none that the limiter knows.
FreshSessionIds == SessionIds \ Registered(registry)

\* A plausible bug: a sign-in that finds nothing to evict is never checked
\* against the organization.
EnforceUserOnly(sid, user, org) ==
  /\ Allowed(org)
  /\ LET evicted == {registry[i].sid : i \in Overflow(OfUser(registry, user), UserLimit)}
     IN  /\ registry' = RegisterSession(RemoveSessions(registry, evicted), sid, user, org)
         /\ step' = [op |-> "enforce", user |-> user, org |-> org, sid |-> sid,
                     evicted |-> evicted]

EnforceConcurrentLimitAndRegister(sid, user, org) ==
  /\ Allowed(org)
  /\ LET evict == EvictSessionIds(registry, user, org)
         evicted == {evict[i] : i \in DOMAIN evict}
     IN  /\ registry' = RegisterSession(RemoveSessions(registry, evicted), sid, user, org)
         /\ step' = [op |-> "enforce", user |-> user, org |-> org, sid |-> sid,
                     evicted |-> evicted]

\* A plausible bug: the pre-login session keeps its place.
RegenerateKeepsOld(old, new, user, org) ==
  /\ Allowed(org)
  /\ LET evict == EvictSessionIds(registry, user, org)
         evicted == {evict[i] : i \in DOMAIN evict}
     IN  /\ registry' = RegisterSession(RemoveSessions(registry, evicted), new, user, org)
         /\ step' = [op |-> "regenerate", user |-> user, org |-> org, old |-> old,
                     sid |-> new, evicted |-> evicted]

\* The limit is enforced with the old session still counted, then it goes.
RegenerateSessionIdAndEnforceLimit(old, new, user, org) ==
  /\ Allowed(org)
  /\ LET evict == EvictSessionIds(registry, user, org)
         evicted == {evict[i] : i \in DOMAIN evict}
     IN  /\ registry' =
              RegisterSession(RemoveSessions(registry, evicted \union {old}), new, user, org)
         /\ step' = [op |-> "regenerate", user |-> user, org |-> org, old |-> old,
                     sid |-> new, evicted |-> evicted]

\* A plausible bug: a refused login leaves everything as it was.
RefusedKeepsOld(old, org) ==
  /\ ~Allowed(org)
  /\ step' = [op |-> "refused", old |-> old, org |-> org]
  /\ UNCHANGED registry

\* With a limit of zero nothing may be registered, and the old session goes.
RegenerateRefused(old, org) ==
  /\ ~Allowed(org)
  /\ registry' = RemoveSessions(registry, {old})
  /\ step' = [op |-> "refused", old |-> old, org |-> org]

RemoveSession(sid) ==
  /\ registry' = RemoveSessions(registry, {sid})
  /\ step' = [op |-> "remove", sid |-> sid]

InvalidateAllSessionsForUser(user) ==
  /\ registry' = Keep(registry, DOMAIN registry \ OfUser(registry, user))
  /\ step' = [op |-> "invalidate", user |-> user]

ClearAllSessions ==
  /\ registry' = <<>>
  /\ step' = [op |-> "clear"]

LimiterNext ==
  \/ \E user \in Users, org \in Orgs \union {NoOrg} :
       \/ \E sid \in FreshSessionIds : EnforceConcurrentLimitAndRegister(sid, user, org)
       \/ \E old \in SessionIds, new \in FreshSessionIds :
            /\ old # new
            /\ RegenerateSessionIdAndEnforceLimit(old, new, user, org)
       \/ \E old \in SessionIds : RegenerateRefused(old, org)
       \/ InvalidateAllSessionsForUser(user)
  \/ \E sid \in SessionIds : RemoveSession(sid)
  \/ ClearAllSessions

LimiterSpec == LimiterInit /\ [][LimiterNext]_limiterVars

-----------------------------------------------------------------------------
(* Correctness *)

\* The registry lists distinct sessions of known users.
LimiterTypes ==
  /\ registry \in Seq([sid : SessionIds, user : Users, org : Orgs \union {NoOrg}])
  /\ Cardinality(Registered(registry)) = Len(registry)

\* However sign-ins, re-logins, removals and remote logouts follow each other,
\* no user and no organization exceeds its limit.
WithinLimits ==
  /\ \A user \in Users : Cardinality(OfUser(registry, user)) <= UserLimit
  /\ \A org \in Orgs : OrgLimited(org) => Cardinality(OfOrg(registry, org)) <= OrgLimit[org]

\* Entry i is among the first n entries of its user, or of its organization.
OldestOf(reg, i, user, org, survivors) ==
  \/ reg[i].user = user
     /\ \A j \in 1 .. i - 1 : reg[j].user = user => reg[j].sid \notin survivors
  \/ reg[i].org = org
     /\ \A j \in 1 .. i - 1 : reg[j].org = org => reg[j].sid \notin survivors

\* An evicted session is one of the signing-in user's or organization's, and no
\* older one of the same survives it; and nobody is evicted for room that is not
\* used: a sign-in that evicts leaves the user or the organization at its limit.
EvictsOldestWhenFull ==
  [][/\ step'.op \in {"enforce", "regenerate"} =>
          \A i \in DOMAIN registry : registry[i].sid \in step'.evicted =>
            OldestOf(registry, i, step'.user, step'.org, Registered(registry'))
     /\ step'.op = "enforce" /\ step'.evicted # {} =>
          \/ Cardinality(OfUser(registry', step'.user)) = UserLimit
          \/ /\ OrgLimited(step'.org)
             /\ Cardinality(OfOrg(registry', step'.org)) = OrgLimit[step'.org]]_limiterVars

\* Session fixation: after a login the id the browser came with is no longer
\* registered, whether or not a new one could be.
OldIdDies ==
  [][step'.op \in {"regenerate", "refused"} => step'.old \notin Registered(registry')]_limiterVars
=============================================================================
