---------------------------- MODULE SessionStore ----------------------------
(***************************************************************************)
(* The store of sessions and refresh-token hashes behind                   *)
(* session-management.ts (createMemorySessionStore).  Each operation is    *)
(* one linearizable step, as each method body of the memory store is one   *)
(* synchronous run.                                                        *)
(*                                                                         *)
(* A refresh token stands for its SHA-256 hash.  revokedAt is kept as a    *)
(* flag: the code only ever compares it with null.                         *)
(***************************************************************************)
EXTENDS Maps

VARIABLES
  sessions,       \* session id -> record
  byRefreshHash,  \* live refresh hash -> session id
  usedHashes      \* spent refresh hash -> family id

storeVars == <<sessions, byRefreshHash, usedHashes>>

StoreInit ==
  /\ sessions = EmptyMap
  /\ byRefreshHash = EmptyMap
  /\ usedHashes = EmptyMap

Active(sid) == sid \in DOMAIN sessions /\ ~sessions[sid].revoked

StoreCreateSession(sid, rec) ==
  /\ sessions' = MapSet(sessions, sid, rec)
  /\ byRefreshHash' = MapSet(byRefreshHash, rec.refreshHash, sid)
  /\ UNCHANGED usedHashes

\* Plausible bugs of the rotation: it leaves the old hash in the index, or it
\* writes the whole record back as new.
RotateKeepsOldHash(sid, newHash) ==
  /\ byRefreshHash' = MapSet(byRefreshHash, newHash, sid)
  /\ sessions' = [sessions EXCEPT ![sid].refreshHash = newHash]
  /\ UNCHANGED usedHashes
RotateUnrevokes(sid, newHash) ==
  /\ byRefreshHash' =
       MapSet(MapDelete(byRefreshHash, {sessions[sid].refreshHash}), newHash, sid)
  /\ sessions' = [sessions EXCEPT ![sid].refreshHash = newHash, ![sid].revoked = FALSE]
  /\ UNCHANGED usedHashes

StoreRotateRefreshToken(sid, newHash) ==
  /\ IF sid \in DOMAIN sessions
     THEN /\ byRefreshHash' =
               MapSet(MapDelete(byRefreshHash, {sessions[sid].refreshHash}), newHash, sid)
          /\ sessions' = [sessions EXCEPT ![sid].refreshHash = newHash]
     ELSE UNCHANGED <<byRefreshHash, sessions>>
  /\ UNCHANGED usedHashes

StoreAddUsedRefreshHash(family, hash) ==
  /\ usedHashes' = MapSet(usedHashes, hash, family)
  /\ UNCHANGED <<sessions, byRefreshHash>>

\* Marks the given sessions revoked and forgets the hash each holds now.
StoreRevoke(sids) ==
  /\ sessions' = [s \in DOMAIN sessions |->
                    IF s \in sids THEN [sessions[s] EXCEPT !.revoked = TRUE] ELSE sessions[s]]
  /\ byRefreshHash' =
       MapDelete(byRefreshHash, {sessions[s].refreshHash : s \in sids \intersect DOMAIN sessions})
  /\ UNCHANGED usedHashes

StoreRevokeAllSessionsInFamily(family) ==
  StoreRevoke({s \in DOMAIN sessions : sessions[s].family = family})

StoreRevokeAllForUser(user) ==
  StoreRevoke({s \in DOMAIN sessions : sessions[s].user = user})
=============================================================================
