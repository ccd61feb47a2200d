-------------------------- MODULE SessionManagement --------------------------
(***************************************************************************)
(* session-management.ts over its store and the in-process registry of     *)
(* concurrent-session-limit.ts: createSession, refreshSession,             *)
(* revokeSession, revokeAllSessionsForUser, and remote-logout.ts.          *)
(*                                                                         *)
(* A request is a slot c \in Calls.  Each "await store.x()" is a step of   *)
(* its own, so requests interleave exactly where the code awaits.  The     *)
(* synchronous code after an await runs with that step when it touches     *)
(* nothing shared, and is a step of its own when it touches the registry.  *)
(*                                                                         *)
(* owner, delivered and spends record the past for the properties only.    *)
(***************************************************************************)
EXTENDS SessionStore, SessionRegistry, FiniteSets

CONSTANTS
  Users, Orgs, Devices,
  SessionIds, Tokens,   \* bounds: what randomBytes may still draw
  Calls,                \* request slots, a bound on the requests in flight
  NULL,
  RefreshTtl,           \* refreshTokenTtlSec
  MaxTime,              \* bound on the clock
  Features              \* which of the optional environments below are on

ASSUME FeatureAssumption ==
  Features \subseteq {"abort", "logout", "bare_revoke", "revoke_user", "skip_binding"}
ASSUME NullAssumption ==
  NULL \notin SessionIds \union Tokens \union Users \union Orgs \union Devices
ASSUME CallsAssumption == IsFiniteSet(Calls) /\ Calls # {}
ASSUME OrgsAssumption == DOMAIN OrgLimit = Orgs /\ NoOrg \notin Orgs
ASSUME TimeAssumption == RefreshTtl \in Nat /\ MaxTime \in Nat

VARIABLES
  registry,   \* concurrent-session-limit.ts: sessions
  call,       \* the local variables of every request
  evict,      \* createSession's evictSessionIds, what is left of them
  now,        \* Date.now()
  owner,      \* token -> session it entered the store for
  delivered,  \* token a client holds -> the expiry it was told
  spends      \* token -> how many rotations it has paid for

history == <<owner, delivered, spends>>
vars == <<storeVars, registry, call, evict, now, history>>

Idle ==
  [pc |-> "idle", user |-> NULL, org |-> NULL, tok |-> NULL, sid |-> NULL,
   new |-> NULL, liveAtStart |-> {}]

\* Fresh random values: never stored, and drawn by no request in flight.
FreshTokens == Tokens \ (DOMAIN owner \union {call[c].new : c \in Calls})
FreshSessionIds == SessionIds \ (DOMAIN sessions \union {call[c].sid : c \in Calls})

SpendsOf(tok) == MapGet(spends, tok, 0)

Init ==
  /\ StoreInit
  /\ registry = <<>>
  /\ call = [c \in Calls |-> Idle]
  /\ evict = [c \in Calls |-> <<>>]
  /\ now = 0
  /\ owner = EmptyMap
  /\ delivered = EmptyMap
  /\ spends = EmptyMap

At(c, pc) == call[c].pc = pc
Goto(c, pc) == call' = [call EXCEPT ![c].pc = pc] /\ UNCHANGED evict
Finish(c) == call' = [call EXCEPT ![c] = Idle] /\ evict' = [evict EXCEPT ![c] = <<>>]

-----------------------------------------------------------------------------
(* createSession *)

\* The limit check reads the registry once; a refusal throws and changes nothing.
CreateCheck(c, user, org) ==
  /\ At(c, "idle")
  /\ Allowed(org)
  /\ evict' = [evict EXCEPT ![c] = EvictSessionIds(registry, user, org)]
  /\ \E sid \in FreshSessionIds, new \in FreshTokens :
       call' = [call EXCEPT ![c] =
                  [Idle EXCEPT !.pc = IF evict'[c] = <<>> THEN "insert" ELSE "evict",
                               !.user = user, !.org = org, !.sid = sid, !.new = new]]
  /\ UNCHANGED <<storeVars, registry, now, history>>

\* A plausible bug: the evicted session is only unregistered.
EvictWithoutRevoke(c) ==
  /\ At(c, "evict")
  /\ Goto(c, "unregister")
  /\ UNCHANGED <<storeVars, registry, now, history>>

CreateEvictRevoke(c) ==
  /\ At(c, "evict")
  /\ StoreRevoke({Head(evict[c])})
  /\ Goto(c, "unregister")
  /\ UNCHANGED <<registry, now, history>>

CreateEvictRemove(c) ==
  /\ At(c, "unregister")
  /\ registry' = RemoveSessions(registry, {Head(evict[c])})
  /\ evict' = [evict EXCEPT ![c] = Tail(@)]
  /\ call' = [call EXCEPT ![c].pc = IF Len(evict[c]) > 1 THEN "evict" ELSE "insert"]
  /\ UNCHANGED <<storeVars, now, history>>

CreateInsert(c) ==
  /\ At(c, "insert")
  /\ \E dev \in Devices \union {NULL} :
       StoreCreateSession(call[c].sid,
         [user |-> call[c].user, org |-> call[c].org, family |-> call[c].sid,
          refreshHash |-> call[c].new, expiresAt |-> now + RefreshTtl,
          revoked |-> FALSE, device |-> dev])
  /\ owner' = MapSet(owner, call[c].new, call[c].sid)
  /\ Goto(c, "register")
  /\ UNCHANGED <<registry, now, delivered, spends>>

CreateRegister(c) ==
  /\ At(c, "register")
  /\ registry' = RegisterSession(registry, call[c].sid, call[c].user, call[c].org)
  /\ delivered' = MapSet(delivered, call[c].new, now + RefreshTtl)
  /\ Finish(c)
  /\ UNCHANGED <<storeVars, now, owner, spends>>

-----------------------------------------------------------------------------
(* refreshSession *)

RefreshBegin(c, tok) ==
  /\ At(c, "idle")
  /\ \E new \in FreshTokens :
       call' = [call EXCEPT ![c] =
                  [Idle EXCEPT !.pc = "presented", !.tok = tok, !.new = new,
                               !.liveAtStart = {s \in DOMAIN sessions : Active(s)}]]
  /\ UNCHANGED <<storeVars, evict, registry, now, history>>

RefreshReplay(c) ==
  /\ At(c, "presented")
  /\ call[c].tok \in DOMAIN usedHashes
  /\ call' = [call EXCEPT ![c].pc = "replay", ![c].sid = usedHashes[call[c].tok]]
  /\ UNCHANGED <<storeVars, evict, registry, now, history>>

\* A plausible bug: a replay is reported, and nothing is revoked.
ReplayOnlyReported(c) ==
  /\ At(c, "replay")
  /\ Finish(c)
  /\ UNCHANGED <<storeVars, registry, now, history>>

RefreshRevokeFamily(c) ==
  /\ At(c, "replay")
  /\ StoreRevokeAllSessionsInFamily(call[c].sid)
  /\ Finish(c)
  /\ UNCHANGED <<registry, now, history>>

RefreshNotUsed(c) ==
  /\ At(c, "presented")
  /\ call[c].tok \notin DOMAIN usedHashes
  /\ Goto(c, "lookup")
  /\ UNCHANGED <<storeVars, registry, now, history>>

BindingHolds(stored, presented) ==
  "skip_binding" \in Features \/ stored = NULL \/ stored = presented

\* A plausible bug: a hash found in the index is taken for a live session's.
AcceptableThoughRevoked(tok, presented) ==
  /\ tok \in DOMAIN byRefreshHash
  /\ LET rec == sessions[byRefreshHash[tok]]
     IN  rec.expiresAt >= now /\ BindingHolds(rec.device, presented)

\* The checks on the record that getSessionByRefreshHash returned.
Acceptable(tok, presented) ==
  /\ tok \in DOMAIN byRefreshHash
  /\ LET rec == sessions[byRefreshHash[tok]]
     IN  /\ ~rec.revoked
         /\ rec.expiresAt >= now
         /\ BindingHolds(rec.device, presented)

RefreshLookup(c, presented) ==
  /\ At(c, "lookup")
  /\ IF Acceptable(call[c].tok, presented)
     THEN /\ call' = [call EXCEPT ![c].pc = "accepted", ![c].sid = byRefreshHash[call[c].tok]]
          /\ UNCHANGED evict
     ELSE Finish(c)
  /\ UNCHANGED <<storeVars, registry, now, history>>

\* A plausible bug: the spent hash is not remembered.
RotateWithoutMark(c) ==
  /\ At(c, "accepted")
  /\ Goto(c, "marked")
  /\ UNCHANGED <<storeVars, registry, now, history>>

RefreshMarkUsed(c) ==
  /\ At(c, "accepted")
  /\ StoreAddUsedRefreshHash(sessions[call[c].sid].family, call[c].tok)
  /\ Goto(c, "marked")
  /\ UNCHANGED <<registry, now, history>>

RefreshRotate(c) ==
  /\ At(c, "marked")
  /\ StoreRotateRefreshToken(call[c].sid, call[c].new)
  /\ owner' = MapSet(owner, call[c].new, call[c].sid)
  /\ spends' = MapSet(spends, call[c].tok, SpendsOf(call[c].tok) + 1)
  /\ Goto(c, "rotated")
  /\ UNCHANGED <<registry, now, delivered>>

RefreshReturn(c) ==
  /\ At(c, "rotated")
  /\ delivered' = MapSet(delivered, call[c].new, now + RefreshTtl)
  /\ Finish(c)
  /\ UNCHANGED <<storeVars, registry, now, owner, spends>>

-----------------------------------------------------------------------------
(* revokeSession, revokeAllSessionsForUser, remoteLogout *)

\* onRevoke, when given, is the registry's removeSession; it runs first.
RevokeBegin(c, sid, hooked) ==
  /\ At(c, "idle")
  /\ hooked \/ "bare_revoke" \in Features
  /\ registry' = IF hooked THEN RemoveSessions(registry, {sid}) ELSE registry
  /\ call' = [call EXCEPT ![c] = [Idle EXCEPT !.pc = "revoke", !.sid = sid]]
  /\ UNCHANGED <<storeVars, evict, now, history>>

RevokeStore(c) ==
  /\ At(c, "revoke")
  /\ StoreRevoke({call[c].sid})
  /\ Finish(c)
  /\ UNCHANGED <<registry, now, history>>

RevokeAllSessionsForUser(user) ==
  /\ "revoke_user" \in Features
  /\ StoreRevokeAllForUser(user)
  /\ UNCHANGED <<registry, call, evict, now, history>>

\* The default remote-logout store empties the registry only.
RemoteLogout(user) ==
  /\ "logout" \in Features
  /\ registry' = RemoveSessions(registry, {registry[i].sid : i \in OfUser(registry, user)})
  /\ UNCHANGED <<storeVars, call, evict, now, history>>

-----------------------------------------------------------------------------
(* The environment *)

\* A store operation rejects, the response is lost, or the request dies.
Abort(c) ==
  /\ "abort" \in Features
  /\ ~At(c, "idle")
  /\ Finish(c)
  /\ UNCHANGED <<storeVars, registry, now, history>>

Tick ==
  /\ now < MaxTime
  /\ now' = now + 1
  /\ UNCHANGED <<storeVars, registry, call, evict, history>>

Serve(c) ==
  \/ CreateEvictRevoke(c) \/ CreateEvictRemove(c) \/ CreateInsert(c) \/ CreateRegister(c)
  \/ RefreshReplay(c) \/ RefreshRevokeFamily(c) \/ RefreshNotUsed(c)
  \/ \E presented \in Devices \union {NULL} : RefreshLookup(c, presented)
  \/ RefreshMarkUsed(c) \/ RefreshRotate(c) \/ RefreshReturn(c)
  \/ RevokeStore(c)

Request(c) ==
  \/ \E user \in Users, org \in Orgs \union {NoOrg} : CreateCheck(c, user, org)
  \/ \E tok \in DOMAIN delivered : RefreshBegin(c, tok)
  \/ \E sid \in DOMAIN sessions, hooked \in BOOLEAN : RevokeBegin(c, sid, hooked)

Next ==
  \/ \E c \in Calls : Serve(c) \/ Request(c) \/ Abort(c)
  \/ \E user \in Users : RevokeAllSessionsForUser(user) \/ RemoteLogout(user)
  \/ Tick

Spec == Init /\ [][Next]_vars

\* A request the event loop has begun runs on: every promise it awaits settles.
FairSpec == Spec /\ \A c \in Calls : WF_vars(Serve(c))

-----------------------------------------------------------------------------
(* Correctness *)

\* The clock, the maps and every request's locals stay within their types.
TypeOK ==
  /\ now \in 0 .. MaxTime
  /\ DOMAIN sessions \subseteq SessionIds
  /\ \A s \in DOMAIN sessions :
       sessions[s] \in [user : Users, org : Orgs \union {NoOrg}, family : SessionIds,
                        refreshHash : Tokens, expiresAt : Nat, revoked : BOOLEAN,
                        device : Devices \union {NULL}]
  /\ byRefreshHash \in [DOMAIN byRefreshHash -> DOMAIN sessions]
  /\ DOMAIN byRefreshHash \subseteq Tokens
  /\ usedHashes \in [DOMAIN usedHashes -> SessionIds]
  /\ DOMAIN usedHashes \subseteq Tokens
  /\ \A c \in Calls :
       /\ call[c].tok \in Tokens \union {NULL}
       /\ call[c].new \in Tokens \union {NULL}
       /\ call[c].sid \in SessionIds \union {NULL}

\* The hash index never points at a session that has moved on to another
\* hash: a session answers to at most one refresh token, whatever renewals,
\* revocations and evictions interleave (rotateRefreshToken, revokeSession).
IndexMatchesRecord ==
  \A tok \in DOMAIN byRefreshHash : sessions[byRefreshHash[tok]].refreshHash = tok

\* A spent token is still in the index only while the renewal that spent it
\* is between addUsedRefreshHash and rotateRefreshToken.
SpentTokenNotLive ==
  \A tok \in DOMAIN usedHashes \intersect DOMAIN byRefreshHash :
    \E c \in Calls : At(c, "marked") /\ call[c].tok = tok

\* A refresh that begins after its session was revoked never renews it, even
\* when an older renewal has put a new hash for that session in the index.
LateRequestNeverRenews ==
  \A c \in Calls : call[c].pc \in {"accepted", "marked", "rotated"} =>
    call[c].sid \in call[c].liveAtStart

\* A token in a client's hands works, or was spent, or belongs to a revoked
\* session; the one exception is a session one of whose tokens paid for two
\* renewals, of which the earlier one's result is silently dead.
LostOnlyByDoubleSpend ==
  \A tok \in DOMAIN delivered :
    \/ tok \in DOMAIN byRefreshHash \union DOMAIN usedHashes
    \/ sessions[owner[tok]].revoked
    \/ \E other \in DOMAIN spends : owner[other] = owner[tok] /\ spends[other] > 1

\* A session that can still be renewed is one the limiter counts, but for
\* the request that is creating or revoking it right now.
SessionsAccountedFor ==
  \A s \in DOMAIN sessions : Active(s) =>
    \/ s \in Registered(registry)
    \/ \E c \in Calls : call[c].pc \in {"register", "revoke"} /\ call[c].sid = s

ActiveOf(user) == {s \in DOMAIN sessions : Active(s) /\ sessions[s].user = user}
ActiveIn(org) == {s \in DOMAIN sessions : Active(s) /\ sessions[s].org = org}

\* Check-then-register lets k overlapping sign-ins exceed a limit by k - 1
\* sessions and never by more: the excess does not build up over time.
ActiveWithinSlack ==
  LET slack == Cardinality(Calls) - 1
  IN  /\ \A user \in Users : Cardinality(ActiveOf(user)) <= UserLimit + slack
      /\ \A org \in Orgs : OrgLimited(org) => 
           Cardinality(ActiveIn(org)) <= OrgLimit[org] + slack

\* Presenting a spent token ends every session of its family.
ReplayEndsFamily ==
  \A c \in Calls, s \in SessionIds :
    (/\ At(c, "presented")
     /\ call[c].tok \in DOMAIN usedHashes
     /\ usedHashes[call[c].tok] = s) ~> (s \in DOMAIN sessions /\ sessions[s].revoked)

\* The store implements the session life cycle of SessionLifecycle: no request
\* interleaving, revocation or abort reopens a session, gives it a second live
\* credential, or puts a credential in service twice.
status == [s \in SessionIds |->
             CASE s \notin DOMAIN sessions -> "absent"
               [] Active(s) -> "active"
               [] OTHER -> "closed"]
live == [s \in SessionIds |-> IF Active(s) THEN sessions[s].refreshHash ELSE NULL]

Lifecycle == INSTANCE SessionLifecycle WITH issued <- DOMAIN owner
LifecycleSpec == Lifecycle!Spec

-----------------------------------------------------------------------------
(* What the documentation says, and the code does not do *)

\* "Strict rotation (new token issued, old invalidated)": one token pays for
\* one renewal.
SpendOnce == \A tok \in DOMAIN spends : spends[tok] = 1
=============================================================================
