---------------------------- MODULE LimitsProofs ----------------------------
(***************************************************************************)
(* Theorems about the limiters that count: concurrent sessions, attempts   *)
(* in a window and confirmation mails.                                     *)
(***************************************************************************)
EXTENDS ConcurrentSessionLimit, AttemptWindows, SensitiveOperations, RegistryProofs

-----------------------------------------------------------------------------
(* Concurrent sessions *)

Session == [sid : SessionIds, user : Users, org : Orgs \union {NoOrg}]

LimiterInv == registry \in Seq(Session) /\ Distinct(registry) /\ WithinLimits

\* The sessions of a user, or of an organization, in a set of entries.
SidsOfUser(entries, user) == {e.sid : e \in {d \in entries : d.user = user}}
SidsOfOrg(entries, org) == {e.sid : e \in {d \in entries : d.org = org}}

LEMMA PlusOne ==
  ASSUME NEW S, IsFiniteSet(S), NEW x, x \notin S
  PROVE  Cardinality(S \union {x}) = Cardinality(S) + 1
BY FS_AddElement

\* Counting places is counting sessions.
LEMMA Counts ==
  ASSUME NEW reg \in Seq(Session), Distinct(reg), NEW g
  PROVE  /\ IsFiniteSet(SidsOfUser(Entered(reg), g))
         /\ Cardinality(OfUser(reg, g)) \in Nat
         /\ Cardinality(SidsOfUser(Entered(reg), g)) = Cardinality(OfUser(reg, g))
         /\ IsFiniteSet(SidsOfOrg(Entered(reg), g))
         /\ Cardinality(OfOrg(reg, g)) \in Nat
         /\ Cardinality(SidsOfOrg(Entered(reg), g)) = Cardinality(OfOrg(reg, g))
<1>1. SidsOfUser(Entered(reg), g) = {reg[i].sid : i \in OfUser(reg, g)}
  BY DEF SidsOfUser, Entered, OfUser
<1>2. SidsOfOrg(Entered(reg), g) = {reg[i].sid : i \in OfOrg(reg, g)}
  BY DEF SidsOfOrg, Entered, OfOrg
<1>3. OfUser(reg, g) \in SUBSET DOMAIN reg /\ OfOrg(reg, g) \in SUBSET DOMAIN reg
  BY DEF OfUser, OfOrg
<1> DEFINE U == OfUser(reg, g)
           O == OfOrg(reg, g)
<1> HIDE DEF U, O
<1>4. /\ IsFiniteSet({reg[i].sid : i \in U}) /\ Cardinality(U) \in Nat
      /\ Cardinality({reg[i].sid : i \in U}) = Cardinality(U)
  BY <1>3, SessionsAtPlaces DEF U
<1>5. /\ IsFiniteSet({reg[i].sid : i \in O}) /\ Cardinality(O) \in Nat
      /\ Cardinality({reg[i].sid : i \in O}) = Cardinality(O)
  BY <1>3, SessionsAtPlaces DEF O
<1> QED
  BY <1>1, <1>2, <1>4, <1>5 DEF U, O

LEMMA TypesFollow == LimiterInv => LimiterTypes
<1> SUFFICES ASSUME LimiterInv PROVE Cardinality(Registered(registry)) = Len(registry)
  BY DEF LimiterInv, LimiterTypes, Session
<1>1. DOMAIN registry = 1 .. Len(registry) /\ Len(registry) \in Nat
  BY DEF LimiterInv
<1>2. Cardinality(Registered(registry)) = Cardinality(DOMAIN registry)
  BY SessionsAtPlaces DEF LimiterInv, Registered
<1>3. \A n \in Nat : Cardinality(1 .. n) = n
  BY FS_Interval
<1> QED
  BY <1>1, <1>2, <1>3

\* Removing sessions never breaks a limit.
LEMMA ShrinkStep ==
  ASSUME LimiterInv, registry' \in Seq(Session), Distinct(registry'),
         Entered(registry') \subseteq Entered(registry)
  PROVE  LimiterInv'
<1>1. ASSUME NEW g
      PROVE  /\ Cardinality(OfUser(registry', g)) <= Cardinality(OfUser(registry, g))
             /\ Cardinality(OfOrg(registry', g)) <= Cardinality(OfOrg(registry, g))
  <2>1. /\ SidsOfUser(Entered(registry'), g) \in SUBSET SidsOfUser(Entered(registry), g)
        /\ SidsOfOrg(Entered(registry'), g) \in SUBSET SidsOfOrg(Entered(registry), g)
    BY DEF SidsOfUser, SidsOfOrg
  <2> QED
    BY <2>1, Counts, FS_Subset DEF LimiterInv
<1>2. \A g : /\ Cardinality(OfUser(registry', g)) \in Nat /\ Cardinality(OfUser(registry, g)) \in Nat
             /\ Cardinality(OfOrg(registry', g)) \in Nat /\ Cardinality(OfOrg(registry, g)) \in Nat
  BY Counts DEF LimiterInv
<1>3. UserLimit \in Nat /\ \A o \in Orgs : OrgLimited(o) => OrgLimit[o] \in Nat
  BY LimitAssumption, OrgsAssumption DEF OrgLimited
<1>4. WithinLimits'
  BY <1>1, <1>2, <1>3 DEF WithinLimits, LimiterInv
<1> QED
  BY <1>4 DEF LimiterInv

LEMMA RemovalStep ==
  ASSUME LimiterInv, NEW sids, registry' = RemoveSessions(registry, sids)
  PROVE  LimiterInv'
<1>1. /\ registry' \in Seq(Session) /\ Distinct(registry')
      /\ Entered(registry') \subseteq Entered(registry)
  BY Removing DEF LimiterInv, Without
<1> QED
  BY <1>1, ShrinkStep

\* A sign-in: what the check evicts goes, and perhaps the id the browser came
\* with, before the new id is registered.
SignIn(gone, sid, user, org) ==
  /\ Allowed(org)
  /\ Evicted(registry, user, org) \subseteq gone
  /\ registry' = RegisterSession(RemoveSessions(registry, gone), sid, user, org)

LEMMA SignInEntries ==
  ASSUME LimiterInv, NEW gone, NEW sid \in FreshSessionIds, NEW user \in Users,
         NEW org \in Orgs \union {NoOrg}, SignIn(gone, sid, user, org)
  PROVE  /\ registry' \in Seq(Session) /\ Distinct(registry')
         /\ Entered(registry') = Without(Entered(registry), gone)
                                   \union {[sid |-> sid, user |-> user, org |-> org]}
         /\ Registered(registry') = (Registered(registry) \ gone) \union {sid}
<1> DEFINE old == RemoveSessions(registry, gone)
<1>1. /\ old \in Seq(Session) /\ Distinct(old)
      /\ Entered(old) = Without(Entered(registry), gone)
      /\ Registered(old) = Registered(registry) \ gone
  BY Removing DEF LimiterInv
<1>2. [sid |-> sid, user |-> user, org |-> org] \in Session
  BY DEF Session, FreshSessionIds
<1>3. \A e \in Entered(old) : e.sid # sid
  BY <1>1 DEF FreshSessionIds, Registered, Entered, Without
<1> HIDE DEF old
<1>4. registry' = RegisterSession(old, sid, user, org)
  BY DEF SignIn, old
<1>5. /\ registry' \in Seq(Session) /\ Distinct(registry')
      /\ Entered(registry') = {e \in Entered(old) : e.sid # sid}
                                \union {[sid |-> sid, user |-> user, org |-> org]}
      /\ Registered(registry') = Registered(old) \union {sid}
  BY <1>1, <1>2, <1>4, Registering
<1> QED
  BY <1>1, <1>3, <1>5

\* Who stays of the user and of the organization.
Spared(user, org) == Without(Entered(registry), Evicted(registry, user, org))

LEMMA Survivors ==
  ASSUME LimiterInv, NEW user, NEW org
  PROVE  /\ Cardinality(SidsOfUser(Spared(user, org), user)) =
              Cardinality(OfUser(registry, user) \ Due(registry, user, org))
         /\ Cardinality(SidsOfOrg(Spared(user, org), org)) =
              Cardinality(OfOrg(registry, org) \ Due(registry, user, org))
         /\ IsFiniteSet(SidsOfUser(Spared(user, org), user))
         /\ IsFiniteSet(SidsOfOrg(Spared(user, org), org))
         /\ Cardinality(SidsOfUser(Spared(user, org), user)) \in Nat
         /\ Cardinality(SidsOfOrg(Spared(user, org), org)) \in Nat
<1> DEFINE due == Due(registry, user, org)
           kept == Spared(user, org)
           U == OfUser(registry, user) \ due
           O == OfOrg(registry, org) \ due
<1>1. \A i \in DOMAIN registry : registry[i].sid \in Evicted(registry, user, org) <=> i \in due
  BY Evicting DEF LimiterInv
<1>2. U \in SUBSET DOMAIN registry /\ O \in SUBSET DOMAIN registry
  BY DEF OfUser, OfOrg
<1>3. SidsOfUser(kept, user) = {registry[i].sid : i \in U}
  BY <1>1 DEF SidsOfUser, Entered, OfUser, Spared, Without
<1>4. SidsOfOrg(kept, org) = {registry[i].sid : i \in O}
  BY <1>1 DEF SidsOfOrg, Entered, OfOrg, Spared, Without
<1> HIDE DEF U, O
<1>5. /\ IsFiniteSet({registry[i].sid : i \in U}) /\ Cardinality(U) \in Nat
      /\ Cardinality({registry[i].sid : i \in U}) = Cardinality(U)
  BY <1>2, SessionsAtPlaces, ZenonT(60) DEF LimiterInv
<1>6. /\ IsFiniteSet({registry[i].sid : i \in O}) /\ Cardinality(O) \in Nat
      /\ Cardinality({registry[i].sid : i \in O}) = Cardinality(O)
  BY <1>2, SessionsAtPlaces, ZenonT(60) DEF LimiterInv
<1>7. Cardinality(SidsOfUser(kept, user)) = Cardinality(U) /\ IsFiniteSet(SidsOfUser(kept, user))
  BY <1>3, <1>5
<1>8. Cardinality(SidsOfOrg(kept, org)) = Cardinality(O) /\ IsFiniteSet(SidsOfOrg(kept, org))
  BY <1>4, <1>6
<1> QED
  BY <1>5, <1>6, <1>7, <1>8 DEF U, O

LEMMA SignInStep ==
  ASSUME LimiterInv, NEW gone, NEW sid \in FreshSessionIds, NEW user \in Users,
         NEW org \in Orgs \union {NoOrg}, SignIn(gone, sid, user, org)
  PROVE  LimiterInv'
<1> DEFINE kept == Spared(user, org)
           new == [sid |-> sid, user |-> user, org |-> org]
<1>1. /\ registry' \in Seq(Session) /\ Distinct(registry')
      /\ Entered(registry') \subseteq kept \union {new}
  BY SignInEntries DEF SignIn, Spared, Without
<1>2. /\ Cardinality(SidsOfUser(kept, user)) < UserLimit
      /\ IsFiniteSet(SidsOfUser(kept, user)) /\ Cardinality(SidsOfUser(kept, user)) \in Nat
      /\ OrgLimited(org) => Cardinality(SidsOfOrg(kept, org)) < OrgLimit[org]
      /\ IsFiniteSet(SidsOfOrg(kept, org)) /\ Cardinality(SidsOfOrg(kept, org)) \in Nat
  <2>1. /\ Cardinality(OfUser(registry, user) \ Due(registry, user, org)) < UserLimit
        /\ OrgLimited(org) =>
             Cardinality(OfOrg(registry, org) \ Due(registry, user, org)) < OrgLimit[org]
    BY EvictionMakesRoom, OrgsAssumption DEF LimiterInv, SignIn
  <2> QED
    BY <2>1, Survivors
<1>3. UserLimit \in Nat /\ \A o \in Orgs : OrgLimited(o) => OrgLimit[o] \in Nat
  BY LimitAssumption, OrgsAssumption DEF OrgLimited
<1>4. \A g : /\ Cardinality(OfUser(registry', g)) \in Nat
             /\ Cardinality(OfUser(registry, g)) \in Nat
             /\ Cardinality(OfOrg(registry', g)) \in Nat
             /\ Cardinality(OfOrg(registry, g)) \in Nat
             /\ Cardinality(OfUser(registry', g)) = Cardinality(SidsOfUser(Entered(registry'), g))
             /\ Cardinality(OfOrg(registry', g)) = Cardinality(SidsOfOrg(Entered(registry'), g))
             /\ Cardinality(OfUser(registry, g)) = Cardinality(SidsOfUser(Entered(registry), g))
             /\ Cardinality(OfOrg(registry, g)) = Cardinality(SidsOfOrg(Entered(registry), g))
             /\ IsFiniteSet(SidsOfUser(Entered(registry), g))
             /\ IsFiniteSet(SidsOfOrg(Entered(registry), g))
  BY <1>1, Counts DEF LimiterInv
<1>5. kept \subseteq Entered(registry) /\ new.user = user /\ new.org = org /\ new.sid = sid
  BY DEF Spared, Without
<1> HIDE DEF kept, new
<1>6. ASSUME NEW g \in Users PROVE Cardinality(OfUser(registry', g)) <= UserLimit
  <2>1. CASE g = user
    <3>1. SidsOfUser(Entered(registry'), g) \in SUBSET (SidsOfUser(kept, user) \union {sid})
      BY <1>1, <1>5, <2>1 DEF SidsOfUser
    <3>2. Cardinality(SidsOfUser(Entered(registry'), g)) <= Cardinality(SidsOfUser(kept, user)) + 1
      BY <1>2, <3>1, OneMore
    <3> QED
      BY <1>2, <1>3, <1>4, <3>2
  <2>2. CASE g # user
    <3>1. SidsOfUser(Entered(registry'), g) \in SUBSET SidsOfUser(Entered(registry), g)
      BY <1>1, <1>5, <2>2 DEF SidsOfUser
    <3>2. Cardinality(OfUser(registry', g)) <= Cardinality(OfUser(registry, g))
      BY <1>4, <3>1, FS_Subset
    <3>3. Cardinality(OfUser(registry, g)) <= UserLimit
      BY DEF LimiterInv, WithinLimits
    <3> QED
      BY <1>3, <1>4, <3>2, <3>3
  <2> QED
    BY <2>1, <2>2
<1>7. ASSUME NEW g \in Orgs, OrgLimited(g) PROVE Cardinality(OfOrg(registry', g)) <= OrgLimit[g]
  <2>1. CASE g = org
    <3>1. SidsOfOrg(Entered(registry'), g) \in SUBSET (SidsOfOrg(kept, org) \union {sid})
      BY <1>1, <1>5, <2>1 DEF SidsOfOrg
    <3>2. Cardinality(SidsOfOrg(Entered(registry'), g)) <= Cardinality(SidsOfOrg(kept, org)) + 1
      BY <1>2, <3>1, OneMore
    <3>3. OrgLimit[g] \in Nat /\ Cardinality(SidsOfOrg(kept, org)) < OrgLimit[g]
      BY <1>2, <1>3, <1>7, <2>1
    <3> QED
      BY <1>2, <1>4, <3>2, <3>3
  <2>2. CASE g # org
    <3>1. SidsOfOrg(Entered(registry'), g) \in SUBSET SidsOfOrg(Entered(registry), g)
      BY <1>1, <1>5, <2>2 DEF SidsOfOrg
    <3>2. Cardinality(OfOrg(registry', g)) <= Cardinality(OfOrg(registry, g))
      BY <1>4, <3>1, FS_Subset
    <3>3. OrgLimit[g] \in Nat /\ Cardinality(OfOrg(registry, g)) <= OrgLimit[g]
      BY <1>3, <1>7 DEF LimiterInv, WithinLimits
    <3> QED
      BY <1>4, <3>2, <3>3
  <2> QED
    BY <2>1, <2>2
<1>8. WithinLimits'
  BY <1>6, <1>7 DEF WithinLimits
<1> QED
  BY <1>1, <1>8 DEF LimiterInv

\* The two entry points are sign-ins.
LEMMA EnforceIsSignIn ==
  ASSUME LimiterInv, NEW sid \in FreshSessionIds, NEW user \in Users,
         NEW org \in Orgs \union {NoOrg}, EnforceConcurrentLimitAndRegister(sid, user, org)
  PROVE  /\ SignIn(Evicted(registry, user, org), sid, user, org)
         /\ step' = [op |-> "enforce", user |-> user, org |-> org, sid |-> sid,
                     evicted |-> Evicted(registry, user, org)]
<1>1. Members(EvictSessionIds(registry, user, org)) = Evicted(registry, user, org)
  BY Evicting DEF LimiterInv
<1> QED
  BY <1>1 DEF Members, EnforceConcurrentLimitAndRegister, SignIn

LEMMA RegenerateIsSignIn ==
  ASSUME LimiterInv, NEW old, NEW new \in FreshSessionIds, NEW user \in Users,
         NEW org \in Orgs \union {NoOrg}, RegenerateSessionIdAndEnforceLimit(old, new, user, org)
  PROVE  /\ SignIn(Evicted(registry, user, org) \union {old}, new, user, org)
         /\ step' = [op |-> "regenerate", user |-> user, org |-> org, old |-> old, sid |-> new,
                     evicted |-> Evicted(registry, user, org)]
<1>1. Members(EvictSessionIds(registry, user, org)) = Evicted(registry, user, org)
  BY Evicting DEF LimiterInv
<1> QED
  BY <1>1 DEF Members, RegenerateSessionIdAndEnforceLimit, SignIn

LEMMA InitLimiterInv == LimiterInit => LimiterInv
<1> SUFFICES ASSUME LimiterInit PROVE LimiterInv
  OBVIOUS
<1>1. registry = <<>> /\ DOMAIN registry = {}
  BY DEF LimiterInit
<1>2. \A g : OfUser(registry, g) = {} /\ OfOrg(registry, g) = {}
  BY <1>1 DEF OfUser, OfOrg
<1>3. UserLimit \in Nat /\ \A o \in Orgs : OrgLimited(o) => OrgLimit[o] \in Nat
  BY LimitAssumption, OrgsAssumption DEF OrgLimited
<1>4. WithinLimits
  BY <1>2, <1>3, FS_EmptySet DEF WithinLimits
<1> QED
  BY <1>1, <1>4 DEF LimiterInv, Distinct

LEMMA InvalidateStep ==
  ASSUME LimiterInv, NEW user, InvalidateAllSessionsForUser(user)
  PROVE  LimiterInv'
<1> DEFINE P == DOMAIN registry \ OfUser(registry, user)
<1>1. registry' = Keep(registry, P) /\ P \in SUBSET DOMAIN registry /\ registry \in Seq(Session)
  BY DEF InvalidateAllSessionsForUser, LimiterInv
<1> HIDE DEF P
<1>2. /\ registry' \in Seq(Session) /\ DOMAIN registry' = 1 .. Cardinality(P)
      /\ \A k \in DOMAIN registry' : Nth(P, k) \in P /\ registry'[k] = registry[Nth(P, k)]
      /\ \A k, l \in DOMAIN registry' : k < l => Nth(P, k) < Nth(P, l)
      /\ Cardinality(P) \in Nat
  BY <1>1, Kept
<1>3. Entered(registry') \subseteq Entered(registry)
  BY <1>1, <1>2 DEF Entered
<1>4. ASSUME NEW k \in DOMAIN registry', NEW l \in DOMAIN registry',
             registry'[k].sid = registry'[l].sid
      PROVE  k = l
  <2>1. k \in Int /\ l \in Int
    BY <1>2
  <2>2. Nth(P, k) = Nth(P, l) /\ Nth(P, k) \in Int
    BY <1>1, <1>2, <1>4 DEF Distinct, LimiterInv
  <2>3. ~(k < l) /\ ~(l < k)
    BY <1>2, <2>2
  <2> QED
    BY <2>1, <2>3
<1> QED
  BY <1>2, <1>3, <1>4, ShrinkStep DEF Distinct

LEMMA NextKeepsLimiterInv == LimiterInv /\ [LimiterNext]_limiterVars => LimiterInv'
<1> SUFFICES ASSUME LimiterInv, [LimiterNext]_limiterVars PROVE LimiterInv'
  OBVIOUS
<1>1. ASSUME NEW user \in Users, NEW org \in Orgs \union {NoOrg}, NEW sid \in FreshSessionIds,
             EnforceConcurrentLimitAndRegister(sid, user, org)
      PROVE  LimiterInv'
  BY <1>1, EnforceIsSignIn, SignInStep
<1>2. ASSUME NEW user \in Users, NEW org \in Orgs \union {NoOrg}, NEW new \in FreshSessionIds,
             NEW old, RegenerateSessionIdAndEnforceLimit(old, new, user, org)
      PROVE  LimiterInv'
  <2>1. SignIn(Evicted(registry, user, org) \union {old}, new, user, org)
    BY <1>2, RegenerateIsSignIn
  <2> QED
    BY <2>1, SignInStep
<1>3. ASSUME NEW old, NEW org, RegenerateRefused(old, org)
      PROVE  LimiterInv'
  BY <1>3, RemovalStep DEF RegenerateRefused
<1>4. ASSUME NEW sid, RemoveSession(sid)
      PROVE  LimiterInv'
  BY <1>4, RemovalStep DEF RemoveSession
<1>5. CASE ClearAllSessions
  <2>1. registry' = <<>> /\ DOMAIN registry' = {}
    BY <1>5 DEF ClearAllSessions
  <2> QED
    BY <2>1, ShrinkStep DEF Distinct, Entered
<1>6. CASE UNCHANGED limiterVars
  BY <1>6 DEF limiterVars, LimiterInv, WithinLimits
<1> QED
  BY <1>1, <1>2, <1>3, <1>4, <1>5, <1>6, InvalidateStep DEF LimiterNext

LEMMA LimiterInvariance == LimiterSpec => []LimiterInv
<1> QED
  BY InitLimiterInv, NextKeepsLimiterInv, PTL DEF LimiterSpec

\* The registry stays a list of distinct sessions, however long it grows.
THEOREM LimiterTyped == LimiterSpec => []LimiterTypes
BY LimiterInvariance, TypesFollow, PTL

\* No sequence of sign-ins, re-logins, removals and remote logouts brings a
\* user or an organization over its limit, whatever the limits are.
THEOREM LimitsHold == LimiterSpec => []WithinLimits
<1>1. LimiterInv => WithinLimits
  BY DEF LimiterInv
<1> QED
  BY <1>1, LimiterInvariance, PTL

EvictsOldest ==
  /\ step'.op \in {"enforce", "regenerate"} =>
       \A i \in DOMAIN registry : registry[i].sid \in step'.evicted =>
         OldestOf(registry, i, step'.user, step'.org, Registered(registry'))
  /\ step'.op = "enforce" /\ step'.evicted # {} =>
       \/ Cardinality(OfUser(registry', step'.user)) = UserLimit
       \/ /\ OrgLimited(step'.org)
          /\ Cardinality(OfOrg(registry', step'.org)) = OrgLimit[step'.org]

\* What a sign-in evicts is older than what it leaves of the same group.
LEMMA SignInEvictsOldest ==
  ASSUME LimiterInv, NEW gone, NEW sid \in FreshSessionIds, NEW user \in Users,
         NEW org \in Orgs \union {NoOrg}, SignIn(gone, sid, user, org),
         NEW i \in DOMAIN registry,
         registry[i].sid \in Evicted(registry, user, org)
  PROVE  OldestOf(registry, i, user, org, Registered(registry'))
<1> DEFINE due == Due(registry, user, org)
<1>1. i \in due /\ due \subseteq DOMAIN registry
  BY Evicting DEF LimiterInv
<1>2. Registered(registry') = (Registered(registry) \ gone) \union {sid}
  BY SignInEntries
<1>3. \A j \in due : registry[j].sid \notin Registered(registry')
  <2>1. \A j \in due : registry[j].sid \in Registered(registry) /\ registry[j].sid \in gone
    BY <1>1 DEF SignIn, Registered, Evicted
  <2>2. sid \notin Registered(registry)
    BY DEF FreshSessionIds
  <2> QED
    BY <1>2, <2>1, <2>2
<1>4. \/ registry[i].user = user /\ \A j \in OfUser(registry, user) : j <= i => j \in due
      \/ registry[i].org = org /\ \A j \in OfOrg(registry, org) : j <= i => j \in due
  BY <1>1, EvictionMakesRoom, OrgsAssumption DEF LimiterInv, SignIn
<1>5. DOMAIN registry = 1 .. Len(registry) /\ Len(registry) \in Nat
  BY DEF LimiterInv
<1>6. \A j \in 1 .. i - 1 : j \in DOMAIN registry /\ j <= i
  BY <1>5
<1> QED
  BY <1>3, <1>4, <1>6 DEF OldestOf, OfUser, OfOrg

\* A sign-in that evicts fills the room it made, on one of the two sides.
LEMMA EnforceFills ==
  ASSUME LimiterInv, NEW sid \in FreshSessionIds, NEW user \in Users,
         NEW org \in Orgs \union {NoOrg}, Evicted(registry, user, org) # {},
         SignIn(Evicted(registry, user, org), sid, user, org)
  PROVE  \/ Cardinality(OfUser(registry', user)) = UserLimit
         \/ OrgLimited(org) /\ Cardinality(OfOrg(registry', org)) = OrgLimit[org]
<1> DEFINE kept == Spared(user, org)
           new == [sid |-> sid, user |-> user, org |-> org]
<1>1. /\ registry' \in Seq(Session) /\ Distinct(registry')
      /\ Entered(registry') = kept \union {new}
  <2>1. PICK gone : gone = Evicted(registry, user, org)
    OBVIOUS
  <2>2. SignIn(gone, sid, user, org)
    BY <2>1
  <2>3. /\ registry' \in Seq(Session) /\ Distinct(registry')
        /\ Entered(registry') = Without(Entered(registry), gone) \union {new}
    BY <2>2, SignInEntries
  <2> QED
    BY <2>1, <2>3 DEF Spared
<1>2. /\ Cardinality(SidsOfUser(kept, user)) =
           Cardinality(OfUser(registry, user) \ Due(registry, user, org))
      /\ Cardinality(SidsOfOrg(kept, org)) =
           Cardinality(OfOrg(registry, org) \ Due(registry, user, org))
      /\ IsFiniteSet(SidsOfUser(kept, user)) /\ IsFiniteSet(SidsOfOrg(kept, org))
      /\ Cardinality(SidsOfUser(kept, user)) \in Nat
      /\ Cardinality(SidsOfOrg(kept, org)) \in Nat
  BY Survivors
<1>3. \/ Cardinality(OfUser(registry, user) \ Due(registry, user, org)) = UserLimit - 1
      \/ /\ OrgLimited(org)
         /\ Cardinality(OfOrg(registry, org) \ Due(registry, user, org)) = OrgLimit[org] - 1
  <2>1. Due(registry, user, org) # {}
    BY DEF Evicted
  <2>2. Allowed(org) /\ (org = NoOrg \/ org \in DOMAIN OrgLimit) /\ registry \in Seq(Session)
    BY OrgsAssumption DEF SignIn, LimiterInv
  <2> QED
    BY <2>1, <2>2, EvictionMakesRoom
<1>4. \A e \in kept : e.sid # sid
  BY DEF FreshSessionIds, Registered, Entered, Spared, Without
<1>5. new.sid = sid /\ new.user = user /\ new.org = org
  OBVIOUS
<1>6. UserLimit \in Nat /\ (OrgLimited(org) => OrgLimit[org] \in Nat)
  BY LimitAssumption, OrgsAssumption DEF OrgLimited
<1> HIDE DEF kept, new
<1>7. /\ SidsOfUser(Entered(registry'), user) = SidsOfUser(kept, user) \union {sid}
      /\ sid \notin SidsOfUser(kept, user)
  BY <1>1, <1>4, <1>5 DEF SidsOfUser
<1>8. /\ SidsOfOrg(Entered(registry'), org) = SidsOfOrg(kept, org) \union {sid}
      /\ sid \notin SidsOfOrg(kept, org)
  BY <1>1, <1>4, <1>5 DEF SidsOfOrg
<1>9. /\ Cardinality(OfUser(registry', user)) = Cardinality(SidsOfUser(Entered(registry'), user))
      /\ Cardinality(OfOrg(registry', org)) = Cardinality(SidsOfOrg(Entered(registry'), org))
  BY <1>1, Counts
<1>10. Cardinality(OfUser(registry', user)) = Cardinality(SidsOfUser(kept, user)) + 1
  BY <1>2, <1>7, <1>9, PlusOne
<1>11. Cardinality(OfOrg(registry', org)) = Cardinality(SidsOfOrg(kept, org)) + 1
  BY <1>2, <1>8, <1>9, PlusOne
<1> QED
  BY <1>2, <1>3, <1>6, <1>10, <1>11

LEMMA StepEvictsOldest == LimiterInv /\ [LimiterNext]_limiterVars => [EvictsOldest]_limiterVars
<1> SUFFICES ASSUME LimiterInv, LimiterNext PROVE EvictsOldest
  OBVIOUS
<1>1. ASSUME NEW user \in Users, NEW org \in Orgs \union {NoOrg}, NEW sid \in FreshSessionIds,
             EnforceConcurrentLimitAndRegister(sid, user, org)
      PROVE  EvictsOldest
  <2> DEFINE out == Evicted(registry, user, org)
  <2>1. SignIn(out, sid, user, org)
    BY <1>1, EnforceIsSignIn
  <2>2. step' = [op |-> "enforce", user |-> user, org |-> org, sid |-> sid, evicted |-> out]
    BY <1>1, EnforceIsSignIn
  <2>3. \A i \in DOMAIN registry : registry[i].sid \in out =>
          OldestOf(registry, i, user, org, Registered(registry'))
    BY <2>1, SignInEvictsOldest
  <2>4. out # {} => \/ Cardinality(OfUser(registry', user)) = UserLimit
                    \/ OrgLimited(org) /\ Cardinality(OfOrg(registry', org)) = OrgLimit[org]
    BY <2>1, EnforceFills
  <2> HIDE DEF out
  <2> QED
    BY <2>2, <2>3, <2>4 DEF EvictsOldest
<1>2. ASSUME NEW user \in Users, NEW org \in Orgs \union {NoOrg}, NEW new \in FreshSessionIds,
             NEW old, RegenerateSessionIdAndEnforceLimit(old, new, user, org)
      PROVE  EvictsOldest
  <2> DEFINE out == Evicted(registry, user, org)
  <2>1. SignIn(out \union {old}, new, user, org)
    BY <1>2, RegenerateIsSignIn
  <2>2. step' = [op |-> "regenerate", user |-> user, org |-> org, old |-> old, sid |-> new,
                 evicted |-> out]
    BY <1>2, RegenerateIsSignIn
  <2>3. \A i \in DOMAIN registry : registry[i].sid \in out =>
          OldestOf(registry, i, user, org, Registered(registry'))
    BY <2>1, SignInEvictsOldest
  <2> HIDE DEF out
  <2> QED
    BY <2>2, <2>3 DEF EvictsOldest
<1>3. ASSUME step'.op \in {"refused", "remove", "invalidate", "clear"}
      PROVE  EvictsOldest
  BY <1>3 DEF EvictsOldest
<1>4. ASSUME NEW old, NEW org, RegenerateRefused(old, org)
      PROVE  EvictsOldest
  BY <1>3, <1>4 DEF RegenerateRefused
<1>5. ASSUME NEW user, InvalidateAllSessionsForUser(user)
      PROVE  EvictsOldest
  BY <1>3, <1>5 DEF InvalidateAllSessionsForUser
<1>6. ASSUME NEW sid, RemoveSession(sid)
      PROVE  EvictsOldest
  BY <1>3, <1>6 DEF RemoveSession
<1>7. CASE ClearAllSessions
  BY <1>3, <1>7 DEF ClearAllSessions
<1> QED
  BY <1>1, <1>2, <1>4, <1>5, <1>6, <1>7 DEF LimiterNext

\* A sign-in evicts the oldest of its own user or organization and nobody for
\* room it does not use, whatever the limits and however they overlap.
THEOREM OldestGoFirst == LimiterSpec => EvictsOldestWhenFull
<1>1. LimiterSpec => [][EvictsOldest]_limiterVars
  BY LimiterInvariance, StepEvictsOldest, PTL DEF LimiterSpec
<1> QED
  BY <1>1 DEF EvictsOldestWhenFull, EvictsOldest

OldGoes == step'.op \in {"regenerate", "refused"} => step'.old \notin Registered(registry')

LEMMA StepEndsOld == LimiterInv /\ [LimiterNext]_limiterVars => [OldGoes]_limiterVars
<1> SUFFICES ASSUME LimiterInv, LimiterNext PROVE OldGoes
  OBVIOUS
<1>1. ASSUME NEW user \in Users, NEW org \in Orgs \union {NoOrg}, NEW sid \in FreshSessionIds,
             EnforceConcurrentLimitAndRegister(sid, user, org)
      PROVE  OldGoes
  BY <1>1 DEF EnforceConcurrentLimitAndRegister, OldGoes
<1>2. ASSUME NEW user \in Users, NEW org \in Orgs \union {NoOrg}, NEW new \in FreshSessionIds,
             NEW old, old # new, RegenerateSessionIdAndEnforceLimit(old, new, user, org)
      PROVE  OldGoes
  <2> DEFINE gone == Evicted(registry, user, org) \union {old}
  <2>1. SignIn(gone, new, user, org)
    BY <1>2, RegenerateIsSignIn
  <2>4. step'.old = old
    BY <1>2 DEF RegenerateSessionIdAndEnforceLimit
  <2>2. old \in gone
    OBVIOUS
  <2> HIDE DEF gone
  <2>3. Registered(registry') = (Registered(registry) \ gone) \union {new}
    BY <2>1, SignInEntries
  <2> QED
    BY <1>2, <2>2, <2>3, <2>4 DEF OldGoes
<1>3. ASSUME NEW old, NEW org, RegenerateRefused(old, org)
      PROVE  OldGoes
  <2>1. registry' = RemoveSessions(registry, {old}) /\ step'.old = old
    BY <1>3 DEF RegenerateRefused
  <2>2. Registered(registry') = Registered(registry) \ {old}
    BY <2>1, Removing DEF LimiterInv
  <2> QED
    BY <2>1, <2>2 DEF OldGoes
<1>4. ASSUME NEW user, InvalidateAllSessionsForUser(user)
      PROVE  OldGoes
  BY <1>4 DEF InvalidateAllSessionsForUser, OldGoes
<1>5. ASSUME NEW sid, RemoveSession(sid)
      PROVE  OldGoes
  BY <1>5 DEF RemoveSession, OldGoes
<1>6. CASE ClearAllSessions
  BY <1>6 DEF ClearAllSessions, OldGoes
<1> QED
  BY <1>1, <1>2, <1>3, <1>4, <1>5, <1>6 DEF LimiterNext

\* The id a browser brought to its login does not outlive the login, refused or not
\* (regenerateSessionIdAndEnforceLimit).
THEOREM LoginEndsOldId == LimiterSpec => OldIdDies
<1>1. LimiterSpec => [][OldGoes]_limiterVars
  BY LimiterInvariance, StepEndsOld, PTL DEF LimiterSpec
<1> QED
  BY <1>1 DEF OldIdDies, OldGoes

-----------------------------------------------------------------------------
(* Powers of two, and rounding up *)

\* A power of two counts the subsets of a set.
LEMMA Powers ==
  ASSUME NEW m \in Nat, NEW n \in Nat, m <= n
  PROVE  2 ^ m \in Nat /\ 2 ^ n \in Nat /\ 1 <= 2 ^ m /\ 2 ^ m <= 2 ^ n
<1>1. ASSUME NEW k \in Nat
      PROVE  IsFiniteSet(SUBSET (1 .. k)) /\ Cardinality(SUBSET (1 .. k)) = 2 ^ k /\ 2 ^ k \in Nat
  <2>1. IsFiniteSet(1 .. k) /\ Cardinality(1 .. k) = k
    BY FS_Interval
  <2> QED
    BY <2>1, FS_SUBSET, FS_CardinalityType
<1>2. Cardinality(SUBSET (1 .. m)) # 0
  <2>1. SUBSET (1 .. m) # {}
    OBVIOUS
  <2> QED
    BY <1>1, <2>1, FS_EmptySet
<1>3. SUBSET (1 .. m) \in SUBSET (SUBSET (1 .. n))
  OBVIOUS
<1>4. Cardinality(SUBSET (1 .. m)) <= Cardinality(SUBSET (1 .. n))
  BY <1>1, <1>3, FS_Subset
<1>5. Cardinality(SUBSET (1 .. m)) = 2 ^ m /\ 2 ^ m \in Nat
  BY <1>1
<1>6. Cardinality(SUBSET (1 .. n)) = 2 ^ n /\ 2 ^ n \in Nat
  BY <1>1
<1>7. 2 ^ m # 0
  BY <1>2, <1>5
<1>8. 2 ^ m <= 2 ^ n
  BY <1>4, <1>5, <1>6
<1>9. \A p \in Nat : p # 0 => 1 <= p
  OBVIOUS
<1> QED
  BY <1>5, <1>6, <1>7, <1>8, <1>9

\* b * 2 ^ (count - 1), cut off at a maximum.
LEMMA Doubling ==
  ASSUME NEW base \in Nat, NEW m \in Nat \ {0}, NEW n \in Nat \ {0}, m <= n
  PROVE  /\ base * 2 ^ (m - 1) \in Nat /\ base * 2 ^ (n - 1) \in Nat
         /\ base <= base * 2 ^ (m - 1)
         /\ base * 2 ^ (m - 1) <= base * 2 ^ (n - 1)
<1>1. /\ 2 ^ (m - 1) \in Nat /\ 2 ^ (n - 1) \in Nat
      /\ 1 <= 2 ^ (m - 1) /\ 2 ^ (m - 1) <= 2 ^ (n - 1)
  BY Powers
<1>2. \A p, q \in Nat : 1 <= p /\ p <= q =>
        base * p \in Nat /\ base * q \in Nat /\ base <= base * p /\ base * p <= base * q
  <2> SUFFICES ASSUME NEW p \in Nat, NEW q \in Nat, 1 <= p, p <= q
               PROVE  /\ base * p \in Nat /\ base * q \in Nat
                      /\ base <= base * p /\ base * p <= base * q
    OBVIOUS
  <2>1. base * p \in Nat /\ base * q \in Nat
    OBVIOUS
  <2>2. base * (p - 1) >= 0 /\ base * (p - 1) = base * p - base
    OBVIOUS
  <2>3. base * (q - p) >= 0 /\ base * (q - p) = base * q - base * p
    OBVIOUS
  <2> QED
    BY <2>1, <2>2, <2>3
<1> QED
  BY <1>1, <1>2

\* Seconds rounded up are not short.
LEMMA RoundedUp ==
  ASSUME NEW a \in Int
  PROVE  /\ (a + Second - 1) \div Second \in Int
         /\ a <= ((a + Second - 1) \div Second) * Second
<1>1. Second \in Int /\ Second > 0
  BY RuntimeAssumption
<1>2. \A b \in Int : b \div Second \in Int /\ b < (b \div Second) * Second + Second
  BY <1>1, Z3
<1>3. a + Second - 1 \in Int
  BY <1>1
<1>4. \A p \in Int : p * Second \in Int
  BY <1>1
<1> DEFINE p == (a + Second - 1) \div Second
<1>5. p \in Int /\ p * Second \in Int /\ a + Second - 1 < p * Second + Second
  BY <1>2, <1>3, <1>4
<1> HIDE DEF p
<1>6. a <= p * Second
  BY <1>1, <1>5
<1> QED
  BY <1>5, <1>6 DEF p
-----------------------------------------------------------------------------
(* Attempts in a window *)

Times == Seq(0 .. MaxTime)

\* What the middleware keeps is the end of what it let through, and the rest of
\* that has left the window.
EndOf(list, all, at) ==
  LET gone == Len(all) - Len(list)
  IN  /\ 0 <= gone
      /\ \A k \in 1 .. Len(list) : list[k] = all[gone + k]
      /\ \A i \in 1 .. gone : all[i] <= at - Window

\* When the promised time has come, too few attempts are left in the window, or
\* the last one's delay is over.
PromiseKept(list, promise) ==
  promise # NULL =>
    IF counter = "bruteForce"
    THEN list # <<>> => list[Len(list)] + Delay(Len(list)) <= promise
    ELSE Len(list) >= MaxInWindow => list[Len(list) - MaxInWindow + 1] <= promise - Window

WindowInv ==
  /\ now \in 0 .. MaxTime
  /\ counter \in {"middleware", "window", "bruteForce"}
  /\ attempts \in Times /\ Len(attempts) <= MaxCounted
  /\ Sorted(attempts) /\ \A i \in DOMAIN attempts : attempts[i] <= now
  /\ passes \in Times /\ Len(passes) <= MaxCounted
  /\ promised \in Nat \union {NULL}
  /\ counter # "middleware" => passes = <<>>
  /\ counter = "middleware" => EndOf(attempts, passes, now) /\ Len(attempts) <= MaxInWindow
  /\ WindowHolds
  /\ PromiseKept(attempts, promised)

LEMMA Elements ==
  ASSUME NEW S, NEW list \in Seq(S)
  PROVE  /\ Len(list) \in Nat /\ DOMAIN list = 1 .. Len(list)
         /\ \A i \in 1 .. Len(list) : list[i] \in S
OBVIOUS

LEMMA TimesAreNumbers ==
  ASSUME NEW list \in Times
  PROVE  list \in Seq(Int) /\ Len(list) \in Nat /\ \A i \in DOMAIN list : list[i] \in 0 .. MaxTime
<1>1. /\ Len(list) \in Nat /\ DOMAIN list = 1 .. Len(list)
      /\ \A i \in 1 .. Len(list) : list[i] \in 0 .. MaxTime
  BY Elements DEF Times
<1>2. list \in [1 .. Len(list) -> Int]
  <2>1. list = [i \in 1 .. Len(list) |-> list[i]]
    BY <1>1 DEF Times
  <2> QED
    BY <1>1, <2>1
<1> QED
  BY <1>1, <1>2

\* Pruning a sorted list leaves its end.
LEMMA Pruning ==
  ASSUME NEW list \in Times, Sorted(list), NEW at \in Nat
  PROVE  /\ Pruned(list, at) \in Times /\ Sorted(Pruned(list, at))
         /\ Len(Pruned(list, at)) \in Nat /\ Len(Pruned(list, at)) <= Len(list)
         /\ EndOf(Pruned(list, at), list, at)
         /\ \A k \in 1 .. Len(Pruned(list, at)) : Pruned(list, at)[k] > at - Window
<1> DEFINE P == {i \in DOMAIN list : list[i] > at - Window}
<1>1. Window \in Int /\ at - Window \in Int
  BY WindowAssumption
<1>2. P \in SUBSET DOMAIN list /\ Pruned(list, at) = Keep(list, P)
  BY DEF Pruned
<1>3. list \in Seq(0 .. MaxTime) /\ list \in Seq(Int)
  BY TimesAreNumbers DEF Times
<1>4. /\ Cardinality(P) \in Nat /\ Cardinality(P) <= Len(list)
      /\ \A k \in 1 .. Cardinality(P) : Keep(list, P)[k] = list[Len(list) - Cardinality(P) + k]
      /\ \A i \in 1 .. Len(list) - Cardinality(P) : list[i] <= at - Window
  BY <1>1, <1>3, KeptEnd
<1>5. \A i \in P : list[i] > at - Window
  OBVIOUS
<1> HIDE DEF P
<1>6. /\ Keep(list, P) \in Seq(0 .. MaxTime) /\ Len(Keep(list, P)) = Cardinality(P)
      /\ \A k \in 1 .. Cardinality(P) : Nth(P, k) \in P /\ Keep(list, P)[k] = list[Nth(P, k)]
  BY <1>2, <1>3, Kept
<1>7. Sorted(Keep(list, P))
  BY <1>2, <1>3, KeptSorted
<1>8. EndOf(Keep(list, P), list, at)
  BY <1>3, <1>4, <1>6 DEF EndOf
<1>9. \A k \in 1 .. Cardinality(P) : Keep(list, P)[k] > at - Window
  BY <1>5, <1>6
<1> QED
  BY <1>2, <1>4, <1>6, <1>7, <1>8, <1>9 DEF Times

\* The end of the end is the end, later on.
LEMMA EndOfEnd ==
  ASSUME NEW a \in Times, NEW b \in Times, NEW c \in Times, NEW at \in Nat,
         EndOf(a, b, at), EndOf(b, c, at)
  PROVE  EndOf(a, c, at)
<1>1. Len(a) \in Nat /\ Len(b) \in Nat /\ Len(c) \in Nat
  BY DEF Times
<1>2. 0 <= Len(c) - Len(a)
  BY <1>1 DEF EndOf
<1>3. ASSUME NEW k \in 1 .. Len(a) PROVE a[k] = c[Len(c) - Len(a) + k]
  <2>1. a[k] = b[Len(b) - Len(a) + k]
    BY DEF EndOf
  <2>2. Len(b) - Len(a) + k \in 1 .. Len(b)
    BY <1>1 DEF EndOf
  <2>3. b[Len(b) - Len(a) + k] = c[Len(c) - Len(b) + (Len(b) - Len(a) + k)]
    BY <2>2 DEF EndOf
  <2>4. Len(c) - Len(b) + (Len(b) - Len(a) + k) = Len(c) - Len(a) + k
    BY <1>1
  <2> QED
    BY <2>1, <2>3, <2>4
<1>4. ASSUME NEW i \in 1 .. Len(c) - Len(a) PROVE c[i] <= at - Window
  <2>1. CASE i <= Len(c) - Len(b)
    BY <1>1, <2>1 DEF EndOf
  <2>2. CASE i > Len(c) - Len(b)
    <3> DEFINE j == i - (Len(c) - Len(b))
    <3>1. j \in 1 .. Len(b) - Len(a) /\ j \in 1 .. Len(b) /\ Len(c) - Len(b) + j = i
      BY <1>1, <2>2
    <3> HIDE DEF j
    <3>2. b[j] <= at - Window /\ b[j] = c[Len(c) - Len(b) + j]
      BY <3>1 DEF EndOf
    <3> QED
      BY <3>1, <3>2
  <2> QED
    BY <1>1, <2>1, <2>2
<1> QED
  BY <1>2, <1>3, <1>4 DEF EndOf

LEMMA Delays ==
  ASSUME NEW m \in Nat \ {0}, NEW n \in Nat \ {0}, m <= n
  PROVE  Delay(m) \in Nat /\ Delay(n) \in Nat /\ Delay(m) <= Delay(n)
<1>1. /\ BaseDelay * 2 ^ (m - 1) \in Nat /\ BaseDelay * 2 ^ (n - 1) \in Nat /\ MaxDelay \in Nat
      /\ BaseDelay * 2 ^ (m - 1) <= BaseDelay * 2 ^ (n - 1)
  BY Doubling, WindowAssumption
<1> QED
  BY <1>1 DEF Delay

\* What is pruned now is still bound by the promise.
LEMMA PromiseSurvives ==
  ASSUME WindowInv, NEW kept, kept = Pruned(attempts, now)
  PROVE  PromiseKept(kept, promised)
<1>1. /\ attempts \in Times /\ Sorted(attempts) /\ now \in Nat /\ PromiseKept(attempts, promised)
      /\ MaxInWindow \in Nat \ {0} /\ promised \in Nat \union {NULL} /\ NULL \notin Nat
  BY WindowAssumption, RuntimeAssumption DEF WindowInv
<1>2. /\ kept \in Times /\ Len(kept) \in Nat /\ Len(kept) <= Len(attempts)
      /\ EndOf(kept, attempts, now)
  BY <1>1, Pruning
<1>3. /\ Len(attempts) \in Nat /\ \A i \in 1 .. Len(attempts) : attempts[i] \in 0 .. MaxTime
      /\ kept # <<>> => Len(kept) # 0
  BY <1>1, <1>2, TimesAreNumbers DEF Times
<1>4. ASSUME NEW k \in 1 .. Len(kept)
      PROVE  kept[k] = attempts[Len(attempts) - Len(kept) + k]
  BY <1>2 DEF EndOf
<1>5. CASE counter = "bruteForce"
  <2> SUFFICES ASSUME promised # NULL, kept # <<>>
               PROVE  kept[Len(kept)] + Delay(Len(kept)) <= promised
    BY <1>5 DEF PromiseKept
  <2>1. Len(kept) \in 1 .. Len(kept) /\ Len(attempts) \in 1 .. Len(attempts)
    BY <1>2, <1>3
  <2>2. Len(attempts) - Len(kept) + Len(kept) = Len(attempts) /\ attempts # <<>>
    BY <1>2, <1>3, <2>1
  <2>3. kept[Len(kept)] = attempts[Len(attempts)]
    BY <1>4, <2>1, <2>2
  <2>4. attempts[Len(attempts)] + Delay(Len(attempts)) <= promised
    BY <1>1, <1>5, <2>2 DEF PromiseKept
  <2>5. /\ Delay(Len(kept)) \in Nat /\ Delay(Len(attempts)) \in Nat
        /\ Delay(Len(kept)) <= Delay(Len(attempts))
    BY <1>2, <1>3, <2>1, Delays
  <2>6. attempts[Len(attempts)] \in Int /\ promised \in Int
    BY <1>1, <1>3, <2>1
  <2> QED
    BY <2>3, <2>4, <2>5, <2>6
<1>6. CASE counter # "bruteForce"
  <2> SUFFICES ASSUME promised # NULL, Len(kept) >= MaxInWindow
               PROVE  kept[Len(kept) - MaxInWindow + 1] <= promised - Window
    BY <1>6 DEF PromiseKept
  <2>1. Len(kept) - MaxInWindow + 1 \in 1 .. Len(kept) /\ Len(attempts) >= MaxInWindow
    BY <1>1, <1>2, <1>3
  <2>2. Len(attempts) - Len(kept) + (Len(kept) - MaxInWindow + 1) = Len(attempts) - MaxInWindow + 1
    BY <1>1, <1>2, <1>3
  <2>3. kept[Len(kept) - MaxInWindow + 1] = attempts[Len(attempts) - MaxInWindow + 1]
    BY <1>4, <2>1, <2>2
  <2>4. attempts[Len(attempts) - MaxInWindow + 1] <= promised - Window
    BY <1>1, <1>6, <2>1 DEF PromiseKept
  <2> QED
    BY <2>3, <2>4
<1> QED
  BY <1>5, <1>6

\* What a refusal announces is late enough.
LEMMA Announced ==
  ASSUME WindowInv, NEW kept, kept = Pruned(attempts, now), ~Allows(kept)
  PROVE  /\ AllowedFrom(kept) \in Int
         /\ now + RetryAfter(kept) * Second \in Nat
         /\ AllowedFrom(kept) <= now + RetryAfter(kept) * Second
<1>1. /\ attempts \in Times /\ Sorted(attempts) /\ now \in Nat /\ now \in Int
      /\ MaxInWindow \in Nat \ {0} /\ Window \in Nat
  BY WindowAssumption, RuntimeAssumption DEF WindowInv
<1>2. kept \in Times /\ Len(kept) \in Nat
  BY <1>1, Pruning
<1>3. \A i \in 1 .. Len(kept) : kept[i] \in 0 .. MaxTime
  BY <1>2, TimesAreNumbers DEF Times
<1>4. AllowedFrom(kept) \in Int
  <2>1. CASE counter = "bruteForce" /\ kept # <<>>
    <3>1. Len(kept) \in 1 .. Len(kept)
      BY <1>2, <2>1 DEF Times
    <3>2. Delay(Len(kept)) \in Int /\ kept[Len(kept)] \in Int
      BY <1>3, <3>1, Delays
    <3> QED
      BY <2>1, <3>2 DEF AllowedFrom
  <2>2. CASE counter # "bruteForce" /\ Len(kept) >= MaxInWindow
    <3>1. Head(kept) \in Int
      BY <1>1, <1>2, <1>3, <2>2 DEF Times
    <3> QED
      BY <1>1, <2>2, <3>1 DEF AllowedFrom
  <2> QED
    BY <1>1, <2>1, <2>2 DEF AllowedFrom
<1>5. now < AllowedFrom(kept)
  BY <1>1, <1>4 DEF Allows
<1> DEFINE a == AllowedFrom(kept)
<1> HIDE DEF a
<1>6. a - now \in Int /\ a - now > 0
  BY <1>1, <1>4, <1>5 DEF a
<1>7. /\ (a - now + Second - 1) \div Second \in Int
      /\ a - now <= ((a - now + Second - 1) \div Second) * Second
  BY <1>6, RoundedUp
<1>8. RetryAfter(kept) = (a - now + Second - 1) \div Second
  BY DEF RetryAfter, a
<1>9. RetryAfter(kept) * Second \in Int
  BY <1>7, <1>8, RuntimeAssumption
<1>10. a - now <= RetryAfter(kept) * Second
  BY <1>7, <1>8
<1> DEFINE w == RetryAfter(kept) * Second
<1> HIDE DEF w
<1>11. now + w \in Nat /\ a <= now + w
  BY <1>1, <1>4, <1>6, <1>9, <1>10 DEF w, a
<1> QED
  BY <1>4, <1>11 DEF w, a

\* A refusal makes a promise that is kept, or none.
LEMMA RefusalStep ==
  ASSUME WindowInv, NEW kept, kept = Pruned(attempts, now), ~Allows(kept), Refused(kept),
         counter' = counter
  PROVE  promised' \in Nat \union {NULL} /\ PromiseKept(kept, promised')
<1>1. /\ attempts \in Times /\ Sorted(attempts) /\ now \in Nat
      /\ MaxInWindow \in Nat \ {0} /\ Window \in Nat
      /\ promised \in Nat \union {NULL} /\ Len(attempts) \in Nat
      /\ counter = "middleware" => Len(attempts) <= MaxInWindow
  BY WindowAssumption, RuntimeAssumption, TimesAreNumbers DEF WindowInv
<1>2. kept \in Times /\ Len(kept) \in Nat /\ Len(kept) <= Len(attempts)
  BY <1>1, Pruning
<1>3. \A i \in 1 .. Len(kept) : kept[i] \in 0 .. MaxTime
  BY <1>2, TimesAreNumbers DEF Times
<1>4. PromiseKept(kept, promised)
  BY PromiseSurvives
<1>5. CASE promised' = promised
  BY <1>1, <1>4, <1>5 DEF PromiseKept
<1>6. CASE promised' = now + RetryAfter(kept) * Second /\ ~(counter = "window" /\ Len(kept) > MaxInWindow)
  <2>1. promised' \in Nat /\ AllowedFrom(kept) <= promised'
    BY <1>6, Announced
  <2>2. ASSUME counter = "bruteForce", kept # <<>>
        PROVE  kept[Len(kept)] + Delay(Len(kept)) <= promised'
    BY <2>1, <2>2 DEF AllowedFrom
  <2>3. ASSUME counter # "bruteForce", Len(kept) >= MaxInWindow
        PROVE  kept[Len(kept) - MaxInWindow + 1] <= promised' - Window
    <3>1. counter \in {"middleware", "window"}
      BY <2>3 DEF WindowInv
    <3>2. Len(kept) = MaxInWindow
      BY <1>1, <1>2, <1>6, <2>3, <3>1
    <3>3. Len(kept) - MaxInWindow + 1 = 1 /\ 1 \in 1 .. Len(kept)
      BY <1>1, <3>2
    <3>4. AllowedFrom(kept) = kept[1] + Window
      BY <1>2, <2>3, <3>3 DEF AllowedFrom, Times
    <3>5. kept[1] \in Int /\ kept[1] + Window <= promised'
      BY <1>3, <2>1, <3>3, <3>4
    <3>6. kept[1] <= promised' - Window
      BY <1>1, <2>1, <3>5
    <3> QED
      BY <3>3, <3>6
  <2> QED
    BY <2>1, <2>2, <2>3 DEF PromiseKept
<1> QED
  BY <1>5, <1>6 DEF Refused

LEMMA InitWindowInv == now = 0 /\ WindowInit => WindowInv
<1> SUFFICES ASSUME now = 0, WindowInit PROVE WindowInv
  OBVIOUS
<1>1. /\ MaxTime \in Nat /\ MaxCounted \in Nat /\ MaxInWindow \in Nat
  BY WindowAssumption, RuntimeAssumption
<1>2. attempts = <<>> /\ passes = <<>> /\ promised = NULL /\ counter \in {"middleware", "window", "bruteForce"}
  BY DEF WindowInit
<1>3. <<>> \in Times /\ Len(<<>>) = 0 /\ Sorted(<<>>) /\ DOMAIN <<>> = {}
  BY DEF Times, Sorted
<1>4. EndOf(attempts, passes, now) /\ WindowHolds /\ PromiseKept(attempts, promised)
  BY <1>2, <1>3 DEF EndOf, WindowHolds, PromiseKept
<1> QED
  BY <1>1, <1>2, <1>3, <1>4 DEF WindowInv

\* One more time, no earlier than the others, keeps a list sorted.
LEMMA Later ==
  ASSUME NEW list \in Times, Sorted(list), NEW at \in 0 .. MaxTime,
         \A i \in DOMAIN list : list[i] <= at
  PROVE  /\ Append(list, at) \in Times /\ Sorted(Append(list, at))
         /\ Len(Append(list, at)) = Len(list) + 1
         /\ \A i \in DOMAIN Append(list, at) : Append(list, at)[i] <= at
<1>1. /\ Len(list) \in Nat /\ DOMAIN list = 1 .. Len(list)
      /\ \A i \in 1 .. Len(list) : list[i] \in 0 .. MaxTime /\ list[i] \in Int
  BY TimesAreNumbers DEF Times
<1>2. /\ Append(list, at) \in Times /\ Len(Append(list, at)) = Len(list) + 1
      /\ DOMAIN Append(list, at) = 1 .. Len(list) + 1
      /\ \A i \in 1 .. Len(list) : Append(list, at)[i] = list[i]
      /\ Append(list, at)[Len(list) + 1] = at
  BY <1>1 DEF Times
<1>3. \A i \in 1 .. Len(list) + 1 : i \in 1 .. Len(list) \/ i = Len(list) + 1
  BY <1>1
<1>4. \A i \in 1 .. Len(list) + 1 : Append(list, at)[i] <= at
  BY <1>1, <1>2, <1>3
<1>5. \A i, j \in 1 .. Len(list) + 1 : i <= j =>
        j = Len(list) + 1 \/ (i \in 1 .. Len(list) /\ j \in 1 .. Len(list))
  BY <1>1
<1> QED
  BY <1>1, <1>2, <1>4, <1>5 DEF Sorted

\* What is left of a list of times up to now is a list of times up to now.
LEMMA PrunedUpTo ==
  ASSUME NEW list \in Times, Sorted(list), NEW at \in Nat, \A i \in DOMAIN list : list[i] <= at
  PROVE  \A i \in DOMAIN Pruned(list, at) : Pruned(list, at)[i] <= at
<1>1. /\ Pruned(list, at) \in Times /\ Len(Pruned(list, at)) \in Nat
      /\ EndOf(Pruned(list, at), list, at) /\ Len(Pruned(list, at)) <= Len(list)
  BY Pruning
<1>2. DOMAIN Pruned(list, at) = 1 .. Len(Pruned(list, at)) /\ DOMAIN list = 1 .. Len(list) /\ Len(list) \in Nat
  BY <1>1 DEF Times
<1>3. ASSUME NEW k \in 1 .. Len(Pruned(list, at))
      PROVE  /\ Len(list) - Len(Pruned(list, at)) + k \in 1 .. Len(list)
             /\ Pruned(list, at)[k] = list[Len(list) - Len(Pruned(list, at)) + k]
  BY <1>1, <1>2 DEF EndOf
<1> QED
  BY <1>2, <1>3

LEMMA CheckStep == ASSUME WindowInv, Check PROVE WindowInv'
<1> DEFINE kept == Pruned(attempts, now)
<1>1. /\ attempts \in Times /\ Sorted(attempts) /\ now \in Nat /\ Len(attempts) \in Nat
      /\ \A i \in DOMAIN attempts : attempts[i] <= now
  BY RuntimeAssumption, TimesAreNumbers DEF WindowInv
<1>2. /\ kept \in Times /\ Sorted(kept) /\ Len(kept) \in Nat /\ Len(kept) <= Len(attempts)
      /\ \A i \in DOMAIN kept : kept[i] <= now
  BY <1>1, Pruning, PrunedUpTo
<1>3. /\ attempts' = kept /\ counter # "middleware"
      /\ UNCHANGED <<now, counter, passes>>
      /\ IF Allows(kept) THEN promised' = promised ELSE Refused(kept)
  BY DEF Check
<1>4. promised' \in Nat \union {NULL} /\ PromiseKept(attempts, promised)'
  <2>1. CASE Allows(kept)
    <3>1. PromiseKept(kept, promised) /\ promised' = promised
      BY <1>3, <2>1, PromiseSurvives
    <3> QED
      BY <1>3, <3>1 DEF PromiseKept, WindowInv
  <2>2. CASE ~Allows(kept)
    <3>1. promised' \in Nat \union {NULL} /\ PromiseKept(kept, promised')
      BY <1>3, <2>2, RefusalStep
    <3> QED
      BY <1>3, <3>1 DEF PromiseKept
  <2> QED
    BY <2>1, <2>2
<1> HIDE DEF kept
<1>5. Len(kept) <= MaxCounted
  BY <1>1, <1>2, WindowAssumption DEF WindowInv
<1> QED
  BY <1>2, <1>3, <1>4, <1>5 DEF WindowInv, WindowHolds

LEMMA RecordStep == ASSUME WindowInv, RecordAttempt PROVE WindowInv'
<1> DEFINE list == Append(attempts, now)
           kept == Pruned(list, now)
<1>1. /\ attempts \in Times /\ Sorted(attempts) /\ now \in 0 .. MaxTime /\ now \in Nat
      /\ Len(attempts) \in Nat /\ \A i \in DOMAIN attempts : attempts[i] <= now
  BY RuntimeAssumption, TimesAreNumbers DEF WindowInv
<1>2. /\ list \in Times /\ Sorted(list) /\ Len(list) = Len(attempts) + 1
      /\ \A i \in DOMAIN list : list[i] <= now
  BY <1>1, Later
<1> HIDE DEF list
<1>3. /\ kept \in Times /\ Sorted(kept) /\ Len(kept) \in Nat /\ Len(kept) <= Len(list)
      /\ \A i \in DOMAIN kept : kept[i] <= now
  BY <1>1, <1>2, Pruning, PrunedUpTo
<1>4. /\ attempts' = kept /\ counter # "middleware" /\ promised' = NULL
      /\ UNCHANGED <<now, counter, passes>> /\ Len(attempts) < MaxCounted
  BY DEF RecordAttempt, list
<1> HIDE DEF kept
<1>5. Len(kept) <= MaxCounted
  BY <1>1, <1>2, <1>3, <1>4, WindowAssumption
<1> QED
  BY <1>3, <1>4, <1>5 DEF WindowInv, WindowHolds, PromiseKept

\* The middleware refuses only while the window is full.
LEMMA FullRefuses ==
  ASSUME WindowInv, NEW kept, kept = Pruned(attempts, now), counter = "middleware",
         Len(kept) >= MaxInWindow
  PROVE  ~Allows(kept)
<1>1. /\ attempts \in Times /\ Sorted(attempts) /\ now \in Nat
      /\ MaxInWindow \in Nat \ {0} /\ Window \in Nat
  BY WindowAssumption, RuntimeAssumption DEF WindowInv
<1>2. /\ kept \in Times /\ Len(kept) \in Nat
      /\ \A k \in 1 .. Len(kept) : kept[k] > now - Window
  BY <1>1, Pruning
<1>3. 1 \in 1 .. Len(kept) /\ kept[1] \in 0 .. MaxTime
  BY <1>1, <1>2, TimesAreNumbers DEF Times
<1>4. AllowedFrom(kept) = kept[1] + Window
  BY <1>2, <1>3 DEF AllowedFrom, Times
<1>5. kept[1] > now - Window
  BY <1>2, <1>3
<1>6. now < kept[1] + Window
  BY <1>1, <1>3, <1>5
<1> QED
  BY <1>1, <1>3, <1>4, <1>6 DEF Allows

LEMMA MiddlewareStep == ASSUME WindowInv, Middleware PROVE WindowInv'
<1> DEFINE kept == Pruned(attempts, now)
<1>1. /\ attempts \in Times /\ Sorted(attempts) /\ now \in 0 .. MaxTime /\ now \in Nat
      /\ Len(attempts) \in Nat /\ Len(attempts) <= MaxInWindow /\ Len(attempts) <= MaxCounted
      /\ \A i \in DOMAIN attempts : attempts[i] <= now
      /\ passes \in Times /\ EndOf(attempts, passes, now) /\ Len(passes) \in Nat
      /\ Len(passes) <= MaxCounted /\ WindowHolds
      /\ MaxInWindow \in Nat /\ MaxCounted \in Nat /\ Window \in Nat
  BY WindowAssumption, RuntimeAssumption, TimesAreNumbers DEF WindowInv, Middleware
<1>2. /\ kept \in Times /\ Sorted(kept) /\ Len(kept) \in Nat /\ Len(kept) <= Len(attempts)
      /\ EndOf(kept, attempts, now) /\ \A i \in DOMAIN kept : kept[i] <= now
  BY <1>1, Pruning, PrunedUpTo
<1>3. EndOf(kept, passes, now)
  BY <1>1, <1>2, EndOfEnd
<1>4. counter = "middleware" /\ UNCHANGED <<now, counter>>
  BY DEF Middleware
<1>5. CASE Len(kept) >= MaxInWindow
  <2>1. attempts' = kept /\ passes' = passes /\ Refused(kept)
    BY <1>5 DEF Middleware
  <2>2. ~Allows(kept)
    BY <1>4, <1>5, FullRefuses
  <2>3. promised' \in Nat \union {NULL} /\ PromiseKept(kept, promised')
    BY <1>4, <2>1, <2>2, RefusalStep
  <2> HIDE DEF kept
  <2>4. PromiseKept(attempts, promised)'
    BY <1>4, <2>1, <2>3 DEF PromiseKept
  <2>5. WindowHolds'
    BY <1>1, <2>1 DEF WindowHolds
  <2>6. EndOf(attempts, passes, now)'
    BY <1>3, <1>4, <2>1 DEF EndOf
  <2>7. Len(kept) <= MaxInWindow /\ Len(kept) <= MaxCounted
    BY <1>1, <1>2
  <2> QED
    BY <1>1, <1>2, <1>4, <2>1, <2>3, <2>4, <2>5, <2>6, <2>7 DEF WindowInv
<1>6. CASE ~(Len(kept) >= MaxInWindow)
  <2>1. /\ attempts' = Append(kept, now) /\ passes' = Append(passes, now)
        /\ promised' = NULL /\ Len(passes) < MaxCounted
    BY <1>6 DEF Middleware
  <2> HIDE DEF kept
  <2>2. /\ attempts' \in Times /\ Sorted(attempts)' /\ Len(attempts') = Len(kept) + 1
        /\ \A i \in DOMAIN attempts' : attempts'[i] <= now
    <3>1. Sorted(Append(kept, now))
      BY <1>1, <1>2, Later
    <3>2. Sorted(attempts)'
      BY <2>1, <3>1 DEF Sorted
    <3> QED
      BY <1>1, <1>2, <2>1, <3>2, Later
  <2>3. /\ passes' \in Times /\ Len(passes') = Len(passes) + 1
        /\ DOMAIN passes = 1 .. Len(passes) /\ DOMAIN passes' = 1 .. Len(passes) + 1
        /\ \A i \in 1 .. Len(passes) : passes'[i] = passes[i]
        /\ passes'[Len(passes) + 1] = now
    BY <1>1, <2>1 DEF Times
  <2>4. /\ \A k \in 1 .. Len(kept) : attempts'[k] = kept[k]
        /\ attempts'[Len(kept) + 1] = now
    BY <1>1, <1>2, <2>1 DEF Times
  <2> DEFINE gone == Len(passes) - Len(kept)
  <2>5. /\ gone \in Nat /\ gone <= Len(passes)
        /\ \A k \in 1 .. Len(kept) : kept[k] = passes[gone + k]
        /\ \A i \in 1 .. gone : passes[i] <= now - Window
    BY <1>1, <1>2, <1>3 DEF EndOf
  <2>6. Len(passes') - Len(attempts') = gone
    BY <1>1, <1>2, <2>2, <2>3
  <2>7. ASSUME NEW k \in 1 .. Len(attempts') PROVE attempts'[k] = passes'[gone + k]
    <3>1. CASE k \in 1 .. Len(kept)
      <4>1. gone + k \in 1 .. Len(passes)
        BY <1>1, <1>2, <2>5, <3>1
      <4> QED
        BY <2>3, <2>4, <2>5, <3>1, <4>1
    <3>2. CASE k = Len(kept) + 1
      <4>1. gone + k = Len(passes) + 1
        BY <1>1, <1>2, <3>2
      <4> QED
        BY <2>3, <2>4, <3>2, <4>1
    <3> QED
      BY <1>2, <2>2, <3>1, <3>2
  <2> HIDE DEF gone
  <2>8. \A i \in 1 .. gone : passes'[i] <= now' - Window
    BY <1>1, <1>4, <2>3, <2>5
  <2>9. EndOf(attempts, passes, now)'
    <3>1. \A k \in 1 .. Len(attempts') : attempts'[k] = passes'[Len(passes') - Len(attempts') + k]
      BY <2>6, <2>7
    <3>2. 0 <= Len(passes') - Len(attempts')
      BY <2>5, <2>6
    <3>3. \A i \in 1 .. Len(passes') - Len(attempts') : passes'[i] <= now' - Window
      BY <2>6, <2>8
    <3> QED
      BY <3>1, <3>2, <3>3 DEF EndOf
  <2>10. WindowHolds'
    <3> SUFFICES ASSUME NEW i \in 1 .. Len(passes) + 1, NEW j \in 1 .. Len(passes) + 1,
                        i <= j, passes'[j] - passes'[i] < Window
                 PROVE  j - i < MaxInWindow
      BY <2>3 DEF WindowHolds
    <3>1. CASE j \in 1 .. Len(passes)
      <4>1. i \in 1 .. Len(passes)
        BY <1>1, <3>1
      <4> QED
        BY <1>1, <2>3, <3>1, <4>1 DEF WindowHolds
    <3>2. CASE j = Len(passes) + 1 /\ i \in 1 .. Len(passes)
      <4>1. now - passes[i] < Window /\ passes[i] \in 0 .. MaxTime
        BY <1>1, <2>3, <3>2, TimesAreNumbers
      <4>2. ~(i \in 1 .. gone)
        <5>1. ~(passes[i] <= now - Window)
          BY <1>1, <4>1
        <5> QED
          BY <2>5, <5>1
      <4>3. i > gone
        BY <1>1, <2>5, <3>2, <4>2
      <4> QED
        BY <1>1, <1>2, <1>6, <3>2, <4>3 DEF gone
    <3>3. CASE i = Len(passes) + 1
      BY <1>1, <1>2, <1>6, <3>3
    <3> QED
      BY <1>1, <3>1, <3>2, <3>3
  <2>11. /\ Len(attempts') <= MaxInWindow /\ Len(passes') <= MaxCounted
         /\ Len(attempts') <= MaxCounted
    BY <1>1, <1>2, <1>6, <2>1, <2>2, <2>3, <2>5 DEF gone
  <2> QED
    BY <1>1, <1>4, <2>1, <2>2, <2>3, <2>9, <2>10, <2>11 DEF WindowInv, PromiseKept
<1> QED
  BY <1>5, <1>6

LEMMA ClearStep == ASSUME WindowInv, ClearAttempts PROVE WindowInv'
<1>1. <<>> \in Times /\ Len(<<>>) = 0 /\ Sorted(<<>>) /\ DOMAIN <<>> = {}
  BY DEF Times, Sorted
<1> QED
  BY <1>1, WindowAssumption DEF WindowInv, ClearAttempts, WindowHolds, PromiseKept

LEMMA WindowTickStep == ASSUME WindowInv, Tick, UNCHANGED windowVars PROVE WindowInv'
<1>1. /\ now' \in 0 .. MaxTime /\ now <= now' /\ now \in Int /\ now' \in Int
      /\ UNCHANGED <<counter, attempts, passes, promised>> /\ Window \in Int
  BY RuntimeAssumption, WindowAssumption DEF WindowInv, Tick, windowVars
<1>2. \A i \in DOMAIN attempts : attempts[i] <= now'
  BY <1>1, TimesAreNumbers DEF WindowInv
<1>3. ASSUME counter = "middleware" PROVE EndOf(attempts, passes, now')
  <2>1. EndOf(attempts, passes, now)
    BY <1>3 DEF WindowInv
  <2>2. /\ Len(passes) \in Nat /\ Len(attempts) \in Nat
        /\ \A i \in 1 .. Len(passes) : passes[i] \in 0 .. MaxTime
    BY TimesAreNumbers DEF WindowInv, Times
  <2>3. \A i \in 1 .. Len(passes) - Len(attempts) : passes[i] <= now' - Window
    <3> SUFFICES ASSUME NEW i \in 1 .. Len(passes) - Len(attempts)
                 PROVE  passes[i] <= now' - Window
      OBVIOUS
    <3>1. passes[i] <= now - Window /\ passes[i] \in Int
      BY <2>1, <2>2 DEF EndOf
    <3> QED
      BY <1>1, <3>1
  <2> QED
    BY <2>1, <2>3 DEF EndOf
<1> QED
  BY <1>1, <1>2, <1>3 DEF WindowInv, WindowHolds, PromiseKept

LEMMA NextKeepsWindowInv == WindowInv /\ [WindowNext]_<<now, windowVars>> => WindowInv'
<1> SUFFICES ASSUME WindowInv, [WindowNext]_<<now, windowVars>> PROVE WindowInv'
  OBVIOUS
<1>1. CASE Check
  BY <1>1, CheckStep
<1>2. CASE RecordAttempt
  BY <1>2, RecordStep
<1>3. CASE ClearAttempts
  BY <1>3, ClearStep
<1>4. CASE Middleware
  BY <1>4, MiddlewareStep
<1>5. CASE Tick /\ UNCHANGED windowVars
  BY <1>5, WindowTickStep
<1>6. CASE UNCHANGED <<now, windowVars>>
  BY <1>6 DEF windowVars, WindowInv, WindowHolds, PromiseKept
<1> QED
  BY <1>1, <1>2, <1>3, <1>4, <1>5, <1>6 DEF WindowNext

LEMMA WindowInvariance == WindowSpec => []WindowInv
BY InitWindowInv, NextKeepsWindowInv, PTL DEF WindowSpec

\* The lists of times keep their types, and never hold more than was counted.
THEOREM WindowTyped == WindowSpec => []WindowTypes
<1>1. WindowInv => WindowTypes
  BY DEF WindowInv, WindowTypes, Times
<1> QED
  BY <1>1, WindowInvariance, PTL

\* Wherever a window is laid over the requests, the middleware let through no more than
\* its limit (rateLimitMiddleware).
THEOREM WindowNeverOverrun == WindowSpec => []WindowHolds
<1>1. WindowInv => WindowHolds
  BY DEF WindowInv
<1> QED
  BY <1>1, WindowInvariance, PTL

\* Who is refused at the limit and comes back after the seconds announced is not
\* refused again (check of rate-limit, ip-rate-limit and brute-force).
THEOREM RetryAfterEnough == WindowSpec => []RetryAfterSuffices
<1>1. WindowInv => RetryAfterSuffices
  <2> DEFINE kept == Pruned(attempts, now)
  <2> SUFFICES ASSUME WindowInv, promised # NULL, now >= promised PROVE Allows(kept)
    BY DEF RetryAfterSuffices
  <2>1. /\ attempts \in Times /\ Sorted(attempts) /\ now \in Nat /\ promised \in Nat
        /\ MaxInWindow \in Nat \ {0} /\ Window \in Nat
    BY WindowAssumption, RuntimeAssumption DEF WindowInv
  <2>2. /\ kept \in Times /\ Len(kept) \in Nat
        /\ \A k \in 1 .. Len(kept) : kept[k] > now - Window
    BY <2>1, Pruning
  <2>3. PromiseKept(kept, promised)
    BY PromiseSurvives
  <2> HIDE DEF kept
  <2>4. \A i \in 1 .. Len(kept) : kept[i] \in 0 .. MaxTime
    BY <2>2, TimesAreNumbers DEF Times
  <2>5. CASE counter = "bruteForce" /\ kept # <<>>
    <3>1. kept[Len(kept)] + Delay(Len(kept)) <= promised
      BY <2>3, <2>5 DEF PromiseKept
    <3>2. Len(kept) \in 1 .. Len(kept)
      BY <2>2, <2>5 DEF Times
    <3>3. kept[Len(kept)] \in Int /\ Delay(Len(kept)) \in Int
      BY <2>4, <3>2, Delays
    <3> QED
      BY <2>1, <2>5, <3>1, <3>3 DEF Allows, AllowedFrom
  <2>6. CASE counter # "bruteForce"
    <3>1. ~(Len(kept) >= MaxInWindow)
      <4> SUFFICES ASSUME Len(kept) >= MaxInWindow PROVE FALSE
        OBVIOUS
      <4>1. Len(kept) - MaxInWindow + 1 \in 1 .. Len(kept)
        BY <2>1, <2>2
      <4>2. kept[Len(kept) - MaxInWindow + 1] > now - Window
        BY <2>2, <4>1
      <4>3. kept[Len(kept) - MaxInWindow + 1] <= promised - Window
        BY <2>3, <2>6 DEF PromiseKept
      <4>4. kept[Len(kept) - MaxInWindow + 1] \in Int
        BY <2>4, <4>1
      <4> QED
        BY <2>1, <4>2, <4>3, <4>4
    <3> QED
      BY <2>1, <2>6, <3>1 DEF Allows, AllowedFrom
  <2>7. CASE counter = "bruteForce" /\ kept = <<>>
    BY <2>1, <2>7 DEF Allows, AllowedFrom
  <2> QED
    BY <2>5, <2>6, <2>7
<1> QED
  BY <1>1, WindowInvariance, PTL

-----------------------------------------------------------------------------
(* Confirmation mails *)

Mailing(pc, o) == [pc |-> pc, operation |-> o]

\* The requests that have sent a mail of an operation and not recorded it yet.
Recording(o) == {r \in Requests : request[r] = Mailing("record", o)}

Recorded(o) == IF o \in DOMAIN resends THEN resends[o].count ELSE 0

\* Who sent each mail: what a request sent before is recorded unless it is about
\* to, and long enough ago when it sends again.
SentBy(o, sender) ==
  /\ sender \in [1 .. Len(mails[o]) -> Requests]
  /\ \A i, j \in 1 .. Len(mails[o]) :
       i < j /\ sender[i] = sender[j] => mails[o][j] - mails[o][i] >= ResendBase
  /\ \A i \in 1 .. Len(mails[o]) :
       \/ request[sender[i]] = Mailing("record", o)
       \/ o \in DOMAIN resends /\ mails[o][i] <= resends[o].lastSentAt
  /\ \A i \in 1 .. Len(mails[o]) :
       request[sender[i]] = Mailing("send", o) => now >= mails[o][i] + ResendBase

\* What is known of one operation's mails.
MailsOf(o) ==
  /\ mails[o] \in Times /\ Sorted(mails[o]) /\ Len(mails[o]) <= MaxMails
  /\ \A i \in 1 .. Len(mails[o]) : mails[o][i] <= now
  /\ Recorded(o) + Cardinality(Recording(o)) <= Len(mails[o])
  /\ \E sender : SentBy(o, sender)

MailRequests == {NoMail} \union [pc : {"send", "record"}, operation : Operations]

ResendInv ==
  /\ now \in 0 .. MaxTime
  /\ DOMAIN resends \subseteq Operations
  /\ \A o \in DOMAIN resends :
       /\ resends[o] \in [lastSentAt : 0 .. MaxTime, count : Nat \ {0}]
       /\ resends[o].lastSentAt <= now
  /\ DOMAIN mails = Operations /\ mails = [o \in Operations |-> mails[o]]
  /\ request \in [Requests -> MailRequests]
  /\ \A o \in Operations : MailsOf(o)

\* The delay is never shorter than that of the first mail.
LEMMA ResendDelays ==
  ASSUME NEW count \in Nat \ {0}
  PROVE  ResendDelay(count) \in Nat /\ ResendBase <= ResendDelay(count)
<1>1. /\ ResendBase * 2 ^ (count - 1) \in Nat /\ ResendBase <= ResendBase * 2 ^ (count - 1)
      /\ ResendMax \in Nat /\ ResendBase <= ResendMax /\ ResendBase \in Nat
  BY Doubling, ResendAssumption
<1> QED
  BY <1>1 DEF ResendDelay

\* Mails as close as that come from as many requests.
LEMMA OverlapFollows == ResendInv => MailsWithinOverlap
<1> SUFFICES ASSUME ResendInv, NEW o \in Operations,
                    NEW i \in DOMAIN mails[o], NEW j \in DOMAIN mails[o],
                    i <= j, mails[o][j] - mails[o][i] < ResendBase
             PROVE  j - i < Cardinality(Requests)
  BY DEF MailsWithinOverlap
<1> DEFINE list == mails[o]
<1>1. /\ list \in Times /\ Sorted(list) /\ ResendBase \in Nat /\ IsFiniteSet(Requests)
  BY ResendAssumption DEF ResendInv, MailsOf
<1>2. PICK sender : SentBy(o, sender)
  BY DEF ResendInv, MailsOf
<1>3. /\ sender \in [1 .. Len(list) -> Requests]
      /\ \A k, l \in 1 .. Len(list) :
           k < l /\ sender[k] = sender[l] => list[l] - list[k] >= ResendBase
  BY <1>2 DEF SentBy
<1> HIDE DEF list
<1>4. /\ Len(list) \in Nat /\ DOMAIN list = 1 .. Len(list)
      /\ \A k \in 1 .. Len(list) : list[k] \in 0 .. MaxTime /\ list[k] \in Int
  BY <1>1, TimesAreNumbers, Elements DEF Times
<1>5. i \in 1 .. Len(list) /\ j \in 1 .. Len(list) /\ list[j] - list[i] < ResendBase
  BY <1>4 DEF list
<1>6. ASSUME NEW k \in i .. j, NEW l \in i .. j, k < l PROVE sender[k] # sender[l]
  <2>1. k \in 1 .. Len(list) /\ l \in 1 .. Len(list) /\ i <= k /\ l <= j
    BY <1>4, <1>5
  <2>2. list[i] <= list[k] /\ list[l] <= list[j]
    BY <1>1, <1>4, <1>5, <2>1 DEF Sorted
  <2>3. ~(list[l] - list[k] >= ResendBase)
    BY <1>1, <1>4, <1>5, <2>1, <2>2
  <2> QED
    BY <1>3, <1>6, <2>1, <2>3
<1> DEFINE f == [k \in i .. j |-> sender[k]]
<1>7. f \in Injection(i .. j, Requests)
  <2>1. \A k \in i .. j : sender[k] \in Requests
    BY <1>3, <1>4, <1>5
  <2>2. ASSUME NEW k \in i .. j, NEW l \in i .. j, sender[k] = sender[l] PROVE k = l
    <3>1. k \in Int /\ l \in Int /\ ~(k < l) /\ ~(l < k)
      BY <1>5, <1>6, <2>2
    <3> QED
      BY <3>1
  <2> QED
    BY <2>1, <2>2 DEF Injection, IsInjective
<1> HIDE DEF f
<1>8. Cardinality(i .. j) <= Cardinality(Requests)
  BY <1>1, <1>7, FS_Injection
<1>9. Cardinality(i .. j) = j - i + 1
  BY <1>5, FS_Interval
<1>10. Cardinality(Requests) \in Nat
  BY <1>1, FS_CardinalityType
<1> QED
  BY <1>5, <1>8, <1>9, <1>10

LEMMA ResendTypesFollow == ResendInv => ResendTypes
<1> SUFFICES ASSUME ResendInv PROVE ResendTypes
  OBVIOUS
<1>1. ASSUME NEW o \in DOMAIN resends
      PROVE  resends[o] \in [lastSentAt : 0 .. MaxTime, count : 1 .. MaxMails]
  <2>1. MailsOf(o) /\ o \in Operations
    BY DEF ResendInv
  <2>2. /\ resends[o] \in [lastSentAt : 0 .. MaxTime, count : Nat \ {0}]
        /\ Recorded(o) = resends[o].count
    BY DEF ResendInv, Recorded
  <2>3. IsFiniteSet(Recording(o)) /\ Cardinality(Recording(o)) \in Nat
    BY FS_Subset, FS_CardinalityType, ResendAssumption DEF Recording
  <2>4. Len(mails[o]) \in Nat /\ MaxMails \in Nat
    BY <2>1, TimesAreNumbers, ResendAssumption DEF MailsOf
  <2>5. resends[o].count \in 1 .. MaxMails
    BY <2>1, <2>2, <2>3, <2>4 DEF MailsOf
  <2> QED
    BY <2>2, <2>5
<1>2. mails \in [Operations -> Seq(0 .. MaxTime)]
  BY DEF ResendInv, MailsOf, Times
<1> QED
  BY <1>1, <1>2 DEF ResendInv, ResendTypes, MailRequests

LEMMA InitResendInv == now = 0 /\ ResendInit => ResendInv
<1> SUFFICES ASSUME now = 0, ResendInit PROVE ResendInv
  OBVIOUS
<1>1. /\ DOMAIN resends = {} /\ mails = [o \in Operations |-> <<>>]
      /\ request = [r \in Requests |-> NoMail]
      /\ MaxTime \in Nat /\ MaxMails \in Nat
  BY RuntimeAssumption, ResendAssumption DEF ResendInit, EmptyMap
<1>2. ASSUME NEW o \in Operations PROVE MailsOf(o)
  <2>1. mails[o] = <<>> /\ Len(<<>>) = 0 /\ <<>> \in Times /\ Sorted(<<>>)
    BY <1>1 DEF Times, Sorted
  <2>2. Recording(o) = {} /\ Recorded(o) = 0
    BY <1>1 DEF Recording, Recorded, Mailing, NoMail
  <2>3. Cardinality({}) = 0
    BY FS_EmptySet
  <2>4. SentBy(o, [i \in {} |-> i])
    BY <2>1 DEF SentBy
  <2> QED
    BY <1>1, <2>1, <2>2, <2>3, <2>4 DEF MailsOf
<1>3. request \in [Requests -> MailRequests]
  BY <1>1 DEF MailRequests
<1> QED
  BY <1>1, <1>2, <1>3 DEF ResendInv

LEMMA CountsOfRequests ==
  ASSUME NEW o
  PROVE  /\ IsFiniteSet(Recording(o)) /\ Cardinality(Recording(o)) \in Nat
         /\ \A r \in Requests \ Recording(o) :
              Cardinality(Recording(o) \union {r}) = Cardinality(Recording(o)) + 1
         /\ \A r \in Recording(o) :
              Cardinality(Recording(o) \ {r}) = Cardinality(Recording(o)) - 1
<1>1. IsFiniteSet(Recording(o)) /\ Cardinality(Recording(o)) \in Nat
  BY FS_Subset, FS_CardinalityType, ResendAssumption DEF Recording
<1> QED
  BY <1>1, FS_AddElement, FS_RemoveElement

\* A request that neither sends nor records leaves the mails as they were.
LEMMA AskStep ==
  ASSUME ResendInv, NEW r \in Requests, NEW o \in Operations, RequestConfirmation(r, o)
  PROVE  ResendInv'
<1>1. /\ request[r] = NoMail /\ CheckResend(o)
      /\ request' = [request EXCEPT ![r] = Mailing("send", o)]
      /\ now' = now /\ resends' = resends /\ mails' = mails
      /\ request \in [Requests -> MailRequests]
      /\ now \in Int
  BY RuntimeAssumption DEF RequestConfirmation, Mailing, ResendInv
<1>2. request' \in [Requests -> MailRequests]
  BY <1>1 DEF MailRequests, Mailing
<1>3. ASSUME NEW p \in Operations PROVE MailsOf(p)'
  <2>1. MailsOf(p)
    BY DEF ResendInv
  <2>2. Recording(p)' = Recording(p)
    BY <1>1 DEF Recording, Mailing, NoMail
  <2>3. PICK sender : SentBy(p, sender)
    BY <2>1 DEF MailsOf
  <2>4. /\ \A i \in 1 .. Len(mails[p]) : sender[i] \in Requests
        /\ \A i \in 1 .. Len(mails[p]) : mails[p][i] \in 0 .. MaxTime
    BY <2>1, <2>3, TimesAreNumbers, Elements DEF MailsOf, SentBy, Times
  <2>5. ASSUME NEW i \in 1 .. Len(mails[p])
        PROVE  \/ request'[sender[i]] = Mailing("record", p)
               \/ p \in DOMAIN resends /\ mails[p][i] <= resends[p].lastSentAt
    <3>1. CASE sender[i] = r
      BY <1>1, <2>3, <3>1 DEF SentBy, Mailing, NoMail
    <3>2. CASE sender[i] # r
      BY <1>1, <2>3, <2>4, <3>2 DEF SentBy
    <3> QED
      BY <3>1, <3>2
  <2>6. ASSUME NEW i \in 1 .. Len(mails[p]), request'[sender[i]] = Mailing("send", p)
        PROVE  now >= mails[p][i] + ResendBase
    <3>1. CASE sender[i] = r
      <4>1. p = o
        BY <1>1, <2>6, <3>1 DEF Mailing
      <4>2. o \in DOMAIN resends /\ mails[o][i] <= resends[o].lastSentAt
        BY <1>1, <2>3, <3>1, <4>1 DEF SentBy, Mailing, NoMail
      <4>3. /\ resends[o].lastSentAt \in Int /\ resends[o].count \in Nat \ {0}
            /\ mails[o][i] \in Int
        BY <2>4, <4>1, <4>2 DEF ResendInv
      <4>4. now >= resends[o].lastSentAt + ResendDelay(resends[o].count)
        BY <1>1, <4>2 DEF CheckResend
      <4>5. /\ ResendDelay(resends[o].count) \in Int /\ ResendBase \in Int
            /\ ResendBase <= ResendDelay(resends[o].count)
        BY <4>3, ResendDelays, ResendAssumption
      <4> QED
        BY <1>1, <4>1, <4>2, <4>3, <4>4, <4>5
    <3>2. CASE sender[i] # r
      BY <1>1, <2>3, <2>4, <2>6, <3>2 DEF SentBy
    <3> QED
      BY <3>1, <3>2
  <2>7. SentBy(p, sender)'
    BY <1>1, <2>3, <2>5, <2>6 DEF SentBy
  <2>8. Recorded(p)' = Recorded(p)
    BY <1>1 DEF Recorded
  <2> QED
    BY <1>1, <2>1, <2>2, <2>7, <2>8 DEF MailsOf
<1> QED
  BY <1>1, <1>2, <1>3 DEF ResendInv

\* What a request is about to send or to record.
LEMMA AboutTo ==
  ASSUME ResendInv, NEW r \in Requests, NEW pc \in {"send", "record"}, request[r].pc = pc
  PROVE  request[r].operation \in Operations /\ request[r] = Mailing(pc, request[r].operation)
<1>1. request[r] \in MailRequests
  BY DEF ResendInv
<1>2. request[r] \in [pc : {"send", "record"}, operation : Operations]
  BY <1>1 DEF MailRequests, NoMail
<1> QED
  BY <1>2 DEF Mailing

LEMMA FailStep ==
  ASSUME ResendInv, NEW r \in Requests, SendFails(r)
  PROVE  ResendInv'
<1>1. /\ request[r] = Mailing("send", request[r].operation)
      /\ request' = [request EXCEPT ![r] = NoMail]
      /\ now' = now /\ resends' = resends /\ mails' = mails
      /\ request \in [Requests -> MailRequests]
  BY AboutTo DEF SendFails, ResendInv
<1>2. request' \in [Requests -> MailRequests]
  BY <1>1 DEF MailRequests
<1>3. ASSUME NEW p \in Operations PROVE MailsOf(p)'
  <2>1. MailsOf(p)
    BY DEF ResendInv
  <2>2. Recording(p)' = Recording(p)
    BY <1>1 DEF Recording, Mailing, NoMail
  <2>3. PICK sender : SentBy(p, sender)
    BY <2>1 DEF MailsOf
  <2>4. \A i \in 1 .. Len(mails[p]) : sender[i] \in Requests
    BY <2>3 DEF SentBy
  <2>5. \A q \in Requests : request'[q] = Mailing("send", p) => request[q] = Mailing("send", p)
    BY <1>1 DEF Mailing, NoMail
  <2>6. \A q \in Requests : request[q] = Mailing("record", p) => request'[q] = Mailing("record", p)
    BY <1>1 DEF Mailing, NoMail
  <2>7. SentBy(p, sender)'
    BY <1>1, <2>3, <2>4, <2>5, <2>6 DEF SentBy
  <2>8. Recorded(p)' = Recorded(p)
    BY <1>1 DEF Recorded
  <2> QED
    BY <1>1, <2>1, <2>2, <2>7, <2>8 DEF MailsOf
<1> QED
  BY <1>1, <1>2, <1>3 DEF ResendInv

\* A request whose mail is recorded has sent no later one.
LEMMA RecordResendStep ==
  ASSUME ResendInv, NEW r \in Requests, RecordResend(r)
  PROVE  ResendInv'
<1> DEFINE o == request[r].operation
           count == IF o \in DOMAIN resends THEN resends[o].count + 1 ELSE 1
<1>1. /\ o \in Operations /\ request[r] = Mailing("record", o)
      /\ request' = [request EXCEPT ![r] = NoMail]
      /\ resends' = MapSet(resends, o, [lastSentAt |-> now, count |-> count])
      /\ now' = now /\ mails' = mails
      /\ request \in [Requests -> MailRequests]
      /\ now \in 0 .. MaxTime /\ now \in Int
  BY AboutTo, RuntimeAssumption DEF RecordResend, ResendInv
<1>2. request' \in [Requests -> MailRequests]
  BY <1>1 DEF MailRequests
<1>3. count = Recorded(o) + 1 /\ count \in Nat \ {0} /\ Recorded(o) \in Nat
  BY DEF Recorded, ResendInv
<1> HIDE DEF o, count
<1>4. /\ DOMAIN resends' = DOMAIN resends \union {o}
      /\ resends'[o] = [lastSentAt |-> now, count |-> count]
      /\ \A p \in DOMAIN resends \ {o} : resends'[p] = resends[p]
  BY <1>1 DEF MapSet
<1>5. ASSUME NEW p \in DOMAIN resends'
      PROVE  /\ p \in Operations
             /\ resends'[p] \in [lastSentAt : 0 .. MaxTime, count : Nat \ {0}]
             /\ resends'[p].lastSentAt <= now
  <2>1. CASE p = o
    BY <1>1, <1>3, <1>4, <2>1
  <2>2. CASE p # o
    BY <1>4, <2>2 DEF ResendInv
  <2> QED
    BY <2>1, <2>2
<1>6. ASSUME NEW p \in Operations PROVE MailsOf(p)'
  <2>1. MailsOf(p)
    BY DEF ResendInv
  <2>2. PICK sender : SentBy(p, sender)
    BY <2>1 DEF MailsOf
  <2>3. /\ \A i \in 1 .. Len(mails[p]) : sender[i] \in Requests
        /\ \A i \in 1 .. Len(mails[p]) : mails[p][i] <= now
    BY <2>1, <2>2 DEF SentBy, MailsOf
  <2>4. \A q \in Requests : request'[q] = Mailing("send", p) => request[q] = Mailing("send", p)
    BY <1>1 DEF Mailing, NoMail
  <2>5. ASSUME NEW i \in 1 .. Len(mails[p])
        PROVE  \/ request'[sender[i]] = Mailing("record", p)
               \/ p \in DOMAIN resends' /\ mails[p][i] <= resends'[p].lastSentAt
    <3>1. CASE p = o
      BY <1>4, <2>3, <3>1
    <3>2. CASE p # o
      <4>1. request[sender[i]] = Mailing("record", p) => request'[sender[i]] = Mailing("record", p)
        BY <1>1, <2>3, <3>2 DEF Mailing
      <4> QED
        BY <1>4, <2>2, <3>2, <4>1 DEF SentBy
    <3> QED
      BY <3>1, <3>2
  <2>6. SentBy(p, sender)'
    BY <1>1, <2>2, <2>3, <2>4, <2>5 DEF SentBy
  <2>7. Recorded(p)' + Cardinality(Recording(p)') <= Len(mails[p])
    <3>1. CASE p = o
      <4>1. Recording(p)' = Recording(p) \ {r} /\ r \in Recording(p)
        BY <1>1, <3>1 DEF Recording, Mailing, NoMail
      <4>2. /\ Cardinality(Recording(p)') = Cardinality(Recording(p)) - 1
            /\ Cardinality(Recording(p)) \in Nat
        BY <4>1, CountsOfRequests
      <4>3. Recorded(p)' = Recorded(p) + 1
        BY <1>3, <1>4, <3>1 DEF Recorded
      <4>4. Recorded(p) + Cardinality(Recording(p)) <= Len(mails[p]) /\ Len(mails[p]) \in Nat
        BY <2>1, TimesAreNumbers DEF MailsOf
      <4> QED
        BY <1>3, <3>1, <4>2, <4>3, <4>4
    <3>2. CASE p # o
      <4>1. Recording(p)' = Recording(p)
        BY <1>1, <3>2 DEF Recording, Mailing, NoMail
      <4>2. Recorded(p)' = Recorded(p)
        BY <1>4, <3>2 DEF Recorded
      <4> QED
        BY <2>1, <4>1, <4>2 DEF MailsOf
    <3> QED
      BY <3>1, <3>2
  <2> QED
    BY <1>1, <2>1, <2>6, <2>7 DEF MailsOf
<1> QED
  BY <1>1, <1>2, <1>5, <1>6 DEF ResendInv

\* A mail is sent by a request whose earlier ones are old enough.
LEMMA SendStep ==
  ASSUME ResendInv, NEW r \in Requests, SendMail(r)
  PROVE  ResendInv'
<1> DEFINE o == request[r].operation
<1>1. /\ o \in Operations /\ request[r] = Mailing("send", o)
      /\ request' = [request EXCEPT ![r] = Mailing("record", o)]
      /\ mails' = [mails EXCEPT ![o] = Append(mails[o], now)] /\ Len(mails[o]) < MaxMails
      /\ now' = now /\ resends' = resends
      /\ request \in [Requests -> MailRequests]
      /\ now \in 0 .. MaxTime /\ now \in Int
  <2>1. /\ o \in Operations /\ request[r] = Mailing("send", o)
        /\ request' = [request EXCEPT ![r].pc = "record"]
        /\ mails' = [mails EXCEPT ![o] = Append(mails[o], now)] /\ Len(mails[o]) < MaxMails
        /\ now' = now /\ resends' = resends
        /\ request \in [Requests -> MailRequests]
        /\ now \in 0 .. MaxTime /\ now \in Int
    BY AboutTo, RuntimeAssumption DEF SendMail, ResendInv
  <2>2. [request[r] EXCEPT !.pc = "record"] = Mailing("record", o)
    BY <2>1 DEF Mailing
  <2> HIDE DEF o
  <2> QED
    BY <2>1, <2>2
<1> HIDE DEF o
<1>2. request' \in [Requests -> MailRequests]
  BY <1>1 DEF MailRequests, Mailing
<1>3. /\ DOMAIN mails' = Operations /\ mails' = [p \in Operations |-> mails'[p]]
      /\ mails'[o] = Append(mails[o], now)
      /\ \A p \in Operations \ {o} : mails'[p] = mails[p]
  BY <1>1 DEF ResendInv
<1>4. ASSUME NEW p \in Operations PROVE MailsOf(p)'
  <2>1. MailsOf(p)
    BY DEF ResendInv
  <2>2. PICK sender : SentBy(p, sender)
    BY <2>1 DEF MailsOf
  <2>3. /\ \A i \in 1 .. Len(mails[p]) : sender[i] \in Requests
        /\ \A i \in 1 .. Len(mails[p]) : mails[p][i] \in 0 .. MaxTime /\ mails[p][i] <= now
        /\ Len(mails[p]) \in Nat /\ DOMAIN mails[p] = 1 .. Len(mails[p])
    BY <2>1, <2>2, TimesAreNumbers, Elements DEF SentBy, MailsOf, Times
  <2>4. \A q \in Requests : request'[q] = Mailing("send", p) =>
          request[q] = Mailing("send", p) /\ q # r
    BY <1>1 DEF Mailing
  <2>5. \A q \in Requests : request[q] = Mailing("record", p) => request'[q] = Mailing("record", p)
    BY <1>1 DEF Mailing
  <2>6. Recorded(p)' = Recorded(p)
    BY <1>1 DEF Recorded
  <2>7. Cardinality(Recording(p)) \in Nat /\ Recorded(p) \in Nat
    BY CountsOfRequests DEF Recorded, ResendInv
  <2>8. CASE p # o
    <3>1. mails'[p] = mails[p]
      BY <1>3, <2>8
    <3>2. Recording(p)' = Recording(p)
      BY <1>1, <2>8 DEF Recording, Mailing
    <3>3. SentBy(p, sender)'
      BY <1>1, <2>2, <2>3, <2>4, <2>5, <3>1 DEF SentBy
    <3> QED
      BY <1>1, <2>1, <2>6, <3>1, <3>2, <3>3 DEF MailsOf
  <2>9. CASE p = o
    <3> DEFINE n == Len(mails[p])
    <3>0. PICK more : more = [i \in 1 .. n + 1 |-> IF i = n + 1 THEN r ELSE sender[i]]
      OBVIOUS
    <3>1. /\ mails'[p] \in Times /\ Sorted(mails'[p]) /\ Len(mails'[p]) = n + 1
          /\ \A i \in DOMAIN mails'[p] : mails'[p][i] <= now
      BY <1>1, <1>3, <2>1, <2>3, <2>9, Later DEF MailsOf
    <3>2. /\ \A i \in 1 .. n : mails'[p][i] = mails[p][i]
          /\ mails'[p][n + 1] = now
          /\ DOMAIN mails'[p] = 1 .. n + 1
      BY <1>1, <1>3, <2>1, <2>3, <2>9 DEF MailsOf, Times
    <3>3. n \in Nat /\ \A i \in 1 .. n + 1 : i \in 1 .. n \/ i = n + 1
      BY <2>3
    <3>4. \A i \in 1 .. n : request[sender[i]] = Mailing("send", p) => now >= mails[p][i] + ResendBase
      BY <2>2 DEF SentBy
    <3>5. \A i, j \in 1 .. n : i < j /\ sender[i] = sender[j] => mails[p][j] - mails[p][i] >= ResendBase
      BY <2>2 DEF SentBy
    <3>6. \A i \in 1 .. n : \/ request[sender[i]] = Mailing("record", p)
                            \/ p \in DOMAIN resends /\ mails[p][i] <= resends[p].lastSentAt
      BY <2>2 DEF SentBy
    <3> HIDE DEF n
    <3>7. /\ more \in [1 .. n + 1 -> Requests] /\ more[n + 1] = r
          /\ \A i \in 1 .. n : more[i] = sender[i]
      BY <2>3, <3>0, <3>3 DEF n
    <3>8. ASSUME NEW i \in 1 .. n + 1, NEW j \in 1 .. n + 1, i < j, more[i] = more[j]
          PROVE  mails'[p][j] - mails'[p][i] >= ResendBase
      <4>1. i \in 1 .. n
        BY <3>3, <3>8
      <4>2. CASE j \in 1 .. n
        BY <3>2, <3>5, <3>7, <3>8, <4>1, <4>2
      <4>3. CASE j = n + 1
        <5>1. sender[i] = r
          BY <3>7, <3>8, <4>1, <4>3
        <5>2. now >= mails[p][i] + ResendBase
          BY <1>1, <2>9, <3>4, <4>1, <5>1
        <5>3. mails[p][i] \in Int /\ ResendBase \in Int
          BY <2>3, <4>1, ResendAssumption DEF n
        <5>4. mails'[p][j] = now /\ mails'[p][i] = mails[p][i]
          BY <3>2, <4>1, <4>3
        <5>5. now - mails[p][i] >= ResendBase
          BY <1>1, <5>2, <5>3
        <5> QED
          BY <5>4, <5>5
      <4> QED
        BY <3>3, <4>2, <4>3
    <3>9. ASSUME NEW i \in 1 .. n + 1
          PROVE  \/ request'[more[i]] = Mailing("record", p)
                 \/ p \in DOMAIN resends' /\ mails'[p][i] <= resends'[p].lastSentAt
      <4>1. CASE i \in 1 .. n
        <5>1. sender[i] \in Requests /\ more[i] = sender[i] /\ mails'[p][i] = mails[p][i]
          BY <2>3, <3>2, <3>7, <4>1 DEF n
        <5> QED
          BY <1>1, <2>5, <3>6, <4>1, <5>1
      <4>2. CASE i = n + 1
        BY <1>1, <2>9, <3>7, <4>2
      <4> QED
        BY <3>3, <4>1, <4>2
    <3>10. ASSUME NEW i \in 1 .. n + 1, request'[more[i]] = Mailing("send", p)
           PROVE  now' >= mails'[p][i] + ResendBase
      <4>1. more[i] \in Requests /\ more[i] # r /\ request[more[i]] = Mailing("send", p)
        BY <2>4, <3>7, <3>10
      <4>2. i \in 1 .. n
        BY <3>3, <3>7, <4>1
      <4> QED
        BY <1>1, <3>2, <3>4, <3>7, <4>1, <4>2
    <3>11. SentBy(p, more)'
      <4>1. more \in [1 .. Len(mails'[p]) -> Requests]
        BY <3>1, <3>7
      <4>2. \A i, j \in 1 .. Len(mails'[p]) :
              i < j /\ more[i] = more[j] => mails'[p][j] - mails'[p][i] >= ResendBase
        BY <3>1, <3>8
      <4>3. \A i \in 1 .. Len(mails'[p]) :
              \/ request'[more[i]] = Mailing("record", p)
              \/ p \in DOMAIN resends' /\ mails'[p][i] <= resends'[p].lastSentAt
        BY <3>1, <3>9
      <4>4. \A i \in 1 .. Len(mails'[p]) :
              request'[more[i]] = Mailing("send", p) => now' >= mails'[p][i] + ResendBase
        BY <3>1, <3>10
      <4> QED
        BY <4>1, <4>2, <4>3, <4>4 DEF SentBy, Mailing
    <3>12. Recording(p)' = Recording(p) \union {r} /\ r \in Requests \ Recording(p)
      BY <1>1, <2>9 DEF Recording, Mailing
    <3>13. Cardinality(Recording(p)') = Cardinality(Recording(p)) + 1
      BY <3>12, CountsOfRequests
    <3>14. Recorded(p) + Cardinality(Recording(p)) <= n /\ n < MaxMails /\ MaxMails \in Nat
      BY <1>1, <2>1, <2>9, ResendAssumption DEF MailsOf, n
    <3>15. (Recorded(p) + Cardinality(Recording(p)) <= Len(mails[p]))'
      BY <2>6, <2>7, <3>1, <3>3, <3>13, <3>14
    <3>16. Len(mails'[p]) <= MaxMails
      BY <3>1, <3>3, <3>14
    <3>17. \A i \in 1 .. Len(mails'[p]) : mails'[p][i] <= now'
      BY <1>1, <3>1, <3>2
    <3>18. Sorted(mails[p])'
      BY <3>1 DEF Sorted
    <3> QED
      BY <3>1, <3>11, <3>15, <3>16, <3>17, <3>18 DEF MailsOf
  <2> QED
    BY <2>8, <2>9
<1> QED
  BY <1>1, <1>2, <1>3, <1>4 DEF ResendInv

LEMMA ResendTickStep ==
  ASSUME ResendInv, Tick, UNCHANGED resendVars
  PROVE  ResendInv'
<1>1. /\ now' \in 0 .. MaxTime /\ now <= now' /\ now \in Int /\ now' \in Int
      /\ resends' = resends /\ mails' = mails /\ request' = request
  BY RuntimeAssumption DEF ResendInv, Tick, resendVars
<1>2. \A o \in DOMAIN resends : resends[o].lastSentAt <= now'
  BY <1>1 DEF ResendInv
<1>3. ASSUME NEW p \in Operations PROVE MailsOf(p)'
  <2>1. MailsOf(p)
    BY DEF ResendInv
  <2>2. PICK sender : SentBy(p, sender)
    BY <2>1 DEF MailsOf
  <2>3. \A i \in 1 .. Len(mails[p]) : mails[p][i] \in Int
    BY <2>1, TimesAreNumbers, Elements DEF MailsOf, Times
  <2>4. ResendBase \in Int
    BY ResendAssumption
  <2>5. \A i \in 1 .. Len(mails[p]) : mails[p][i] <= now'
    BY <1>1, <2>1, <2>3 DEF MailsOf
  <2>6. \A i \in 1 .. Len(mails[p]) :
          request[sender[i]] = Mailing("send", p) => now' >= mails[p][i] + ResendBase
    <3> SUFFICES ASSUME NEW i \in 1 .. Len(mails[p]), request[sender[i]] = Mailing("send", p)
                 PROVE  now' >= mails[p][i] + ResendBase
      OBVIOUS
    <3>1. now >= mails[p][i] + ResendBase
      BY <2>2 DEF SentBy
    <3> QED
      BY <1>1, <2>3, <2>4, <3>1
  <2>7. SentBy(p, sender)'
    BY <1>1, <2>2, <2>6 DEF SentBy
  <2>8. Recording(p)' = Recording(p) /\ Recorded(p)' = Recorded(p)
    BY <1>1 DEF Recording, Recorded
  <2> QED
    BY <1>1, <2>1, <2>5, <2>7, <2>8 DEF MailsOf
<1> QED
  BY <1>1, <1>2, <1>3 DEF ResendInv

LEMMA NextKeepsResendInv == ResendInv /\ [ResendNext]_<<now, resendVars>> => ResendInv'
<1> SUFFICES ASSUME ResendInv, [ResendNext]_<<now, resendVars>> PROVE ResendInv'
  OBVIOUS
<1>1. ASSUME NEW r \in Requests, NEW o \in Operations, RequestConfirmation(r, o) PROVE ResendInv'
  BY <1>1, AskStep
<1>2. ASSUME NEW r \in Requests, SendMail(r) PROVE ResendInv'
  BY <1>2, SendStep
<1>3. ASSUME NEW r \in Requests, SendFails(r) PROVE ResendInv'
  BY <1>3, FailStep
<1>4. ASSUME NEW r \in Requests, RecordResend(r) PROVE ResendInv'
  BY <1>4, RecordResendStep
<1>5. CASE Tick /\ UNCHANGED resendVars
  BY <1>5, ResendTickStep
<1>6. CASE UNCHANGED <<now, resendVars>>
  <2>1. now' = now /\ resends' = resends /\ mails' = mails /\ request' = request
    BY <1>6 DEF resendVars
  <2>2. ASSUME NEW o \in Operations PROVE MailsOf(o)'
    <3>1. MailsOf(o)
      BY DEF ResendInv
    <3>2. PICK sender : SentBy(o, sender)
      BY <3>1 DEF MailsOf
    <3>3. SentBy(o, sender)'
      BY <2>1, <3>2 DEF SentBy
    <3>4. Recording(o)' = Recording(o) /\ Recorded(o)' = Recorded(o)
      BY <2>1 DEF Recording, Recorded
    <3> QED
      BY <2>1, <3>1, <3>3, <3>4 DEF MailsOf
  <2> QED
    BY <2>1, <2>2 DEF ResendInv
<1> QED
  BY <1>1, <1>2, <1>3, <1>4, <1>5, <1>6 DEF ResendNext

LEMMA ResendInvariance == ResendSpec => []ResendInv
BY InitResendInv, NextKeepsResendInv, PTL DEF ResendSpec

\* What the policy records, the mails sent and the locals of the requests keep their
\* types: it never counts more mails than were sent.
THEOREM ResendTyped == ResendSpec => []ResendTypes
BY ResendInvariance, ResendTypesFollow, PTL

\* However requests overlap, an operation gets no more mails within the base delay
\* than requests were in flight at once (the resend policy, asked before the mail is
\* sent and told after).
THEOREM OneMailEach == ResendSpec => []MailsWithinOverlap
BY ResendInvariance, OverlapFollows, PTL
=============================================================================
