----------------------- MODULE SessionManagementProofs -----------------------
(***************************************************************************)
(* Theorems about SessionManagement for any number of users, sessions,     *)
(* tokens and overlapping requests.                                        *)
(***************************************************************************)
EXTENDS SessionManagement, RegistryProofs

CreatePending == {"evict", "unregister", "insert"}
RenewPending == {"presented", "lookup", "accepted", "marked"}

SessionRecords ==
  [user : Users, org : Orgs \union {NoOrg}, family : SessionIds, refreshHash : Tokens,
   expiresAt : Nat, revoked : BOOLEAN, device : Devices \union {NULL}]

CallRecords ==
  [pc : CreatePending \union RenewPending
        \union {"idle", "register", "replay", "rotated", "revoke"},
   user : Users \union {NULL}, org : Orgs \union {NoOrg, NULL},
   tok : Tokens \union {NULL}, sid : SessionIds \union {NULL}, new : Tokens \union {NULL},
   liveAtStart : SUBSET SessionIds]

\* The types of the state.
StoreTypes ==
  /\ DOMAIN sessions \subseteq SessionIds
  /\ sessions \in [DOMAIN sessions -> SessionRecords]
  /\ byRefreshHash \in [DOMAIN byRefreshHash -> DOMAIN sessions]
  /\ DOMAIN byRefreshHash \subseteq DOMAIN owner
  /\ usedHashes \in [DOMAIN usedHashes -> SessionIds]
  /\ DOMAIN usedHashes \subseteq DOMAIN owner
  /\ DOMAIN owner \subseteq Tokens
  /\ DOMAIN delivered \subseteq DOMAIN owner

CallTypes == call \in [Calls -> CallRecords]

\* What the locals r of a request hold at each point of its run, where own is
\* the map of tokens ever stored and sids the ids of the sessions created.
LocalsOK(r, own, sids) ==
  /\ r.pc \in CreatePending \union {"register"} =>
       /\ r.user \in Users
       /\ r.org \in Orgs \union {NoOrg}
       /\ r.sid \in SessionIds
       /\ r.new \in Tokens
  /\ r.pc \in CreatePending => r.sid \notin sids
  /\ r.pc \in RenewPending => r.tok \in DOMAIN own /\ r.new \in Tokens
  /\ r.pc \in {"accepted", "marked"} => r.sid \in sids /\ own[r.tok] = r.sid
  /\ r.pc \in CreatePending \union RenewPending => r.new \notin DOMAIN own
  /\ r.pc \in {"register", "rotated"} => r.new \in DOMAIN own

CallsOK == \A c \in Calls : LocalsOK(call[c], owner, DOMAIN sessions)

\* Random values drawn by two requests differ.
DrawnApart ==
  \A c, d \in Calls : c # d =>
    /\ call[c].new = call[d].new => call[c].new = NULL
    /\ call[c].pc \in CreatePending /\ call[d].pc \in CreatePending =>
         call[c].sid # call[d].sid

\* A hash in the index leads to the session it was made for, which holds it.
IndexOwned ==
  \A tok \in DOMAIN byRefreshHash :
    /\ sessions[byRefreshHash[tok]].refreshHash = tok
    /\ byRefreshHash[tok] = owner[tok]

IInv ==
  /\ now \in 0 .. MaxTime
  /\ StoreTypes
  /\ CallTypes
  /\ CallsOK
  /\ DrawnApart
  /\ IndexOwned

-----------------------------------------------------------------------------
(* The initial state *)

THEOREM InitIInv == Init => IInv
<1> SUFFICES ASSUME Init PROVE IInv
  OBVIOUS
<1>1. call \in [Calls -> CallRecords] /\ \A c \in Calls : call[c] = Idle
  BY DEF Init, Idle, CallRecords
<1>2. \A c \in Calls : call[c].pc = "idle" /\ call[c].new = NULL
  BY <1>1 DEF Idle
<1>3. DOMAIN sessions = {} /\ DOMAIN byRefreshHash = {} /\ DOMAIN usedHashes = {}
      /\ DOMAIN owner = {} /\ DOMAIN delivered = {}
  BY DEF Init, StoreInit, EmptyMap
<1>4. now \in 0 .. MaxTime
  BY TimeAssumption DEF Init
<1>5. StoreTypes
  BY <1>3 DEF StoreTypes, Init, StoreInit, EmptyMap
<1>6. CallTypes
  BY <1>1 DEF CallTypes
<1>7. CallsOK /\ DrawnApart
  BY <1>2 DEF CallsOK, DrawnApart, LocalsOK, CreatePending, RenewPending
<1>8. IndexOwned
  BY <1>3 DEF IndexOwned
<1> QED
  BY <1>4, <1>5, <1>6, <1>7, <1>8 DEF IInv

-----------------------------------------------------------------------------
(* The steps *)

\* A step of request c that may store the random values c has drawn, and
\* nobody else's, keeps what is known of every request's locals.
LEMMA RequestStep ==
  ASSUME CallTypes, CallsOK, DrawnApart, NULL \notin DOMAIN owner',
         NEW c \in Calls, NEW r \in CallRecords,
         call' = [call EXCEPT ![c] = r],
         DOMAIN owner \subseteq DOMAIN owner',
         \A t \in DOMAIN owner : owner'[t] = owner[t],
         DOMAIN owner' \subseteq DOMAIN owner \union {call[c].new},
         DOMAIN sessions \subseteq DOMAIN sessions',
         \A s \in DOMAIN sessions' \ DOMAIN sessions :
           s = call[c].sid /\ call[c].pc \in CreatePending,
         LocalsOK(r, owner', DOMAIN sessions'),
         r.new \in {NULL, call[c].new} \union FreshTokens,
         r.pc \in CreatePending =>
           \/ call[c].pc \in CreatePending /\ r.sid = call[c].sid
           \/ r.sid \in FreshSessionIds
  PROVE  CallTypes' /\ CallsOK' /\ DrawnApart'
<1>1. CallTypes'
  BY DEF CallTypes
<1>2. call'[c] = r /\ \A d \in Calls \ {c} : call'[d] = call[d]
  BY DEF CallTypes
<1>3. ASSUME NEW d \in Calls, d # c
      PROVE  LocalsOK(call[d], owner', DOMAIN sessions')
  <2>1. LocalsOK(call[d], owner, DOMAIN sessions)
    BY DEF CallsOK
  <2>2. call[d].pc \in CreatePending \union RenewPending => call[d].new \notin DOMAIN owner'
    BY <2>1, <1>3 DEF DrawnApart, LocalsOK
  <2>3. call[d].pc \in CreatePending => call[d].sid \notin DOMAIN sessions'
    BY <2>1, <1>3 DEF DrawnApart, LocalsOK
  <2> QED
    BY <2>1, <2>2, <2>3 DEF LocalsOK, RenewPending
<1>4. CallsOK'
  BY <1>2, <1>3 DEF CallsOK
<1>5. ASSUME NEW d \in Calls, d # c
      PROVE  /\ r.new = call[d].new => r.new = NULL
             /\ r.pc \in CreatePending /\ call[d].pc \in CreatePending => r.sid # call[d].sid
  BY <1>5 DEF DrawnApart, FreshTokens, FreshSessionIds
<1>6. DrawnApart'
  BY <1>2, <1>5 DEF DrawnApart
<1> QED
  BY <1>1, <1>4, <1>6

\* Steps of the store that keep every hash with its session.
StoreOK == StoreTypes /\ IndexOwned

LEMMA RevokeKeepsStore ==
  ASSUME StoreOK, NEW S, StoreRevoke(S), UNCHANGED <<owner, delivered>>
  PROVE  StoreOK' /\ DOMAIN sessions' = DOMAIN sessions
<1>1. /\ DOMAIN sessions' = DOMAIN sessions
      /\ \A s \in DOMAIN sessions : sessions'[s] \in SessionRecords
      /\ \A s \in DOMAIN sessions : sessions'[s].refreshHash = sessions[s].refreshHash
      /\ sessions' = [s \in DOMAIN sessions' |-> sessions'[s]]
  BY ZenonT(60) DEF StoreRevoke, StoreOK, StoreTypes, SessionRecords
<1>2. /\ DOMAIN byRefreshHash' \subseteq DOMAIN byRefreshHash
      /\ \A t \in DOMAIN byRefreshHash' : byRefreshHash'[t] = byRefreshHash[t]
      /\ byRefreshHash' = [t \in DOMAIN byRefreshHash' |-> byRefreshHash'[t]]
  BY DEF StoreRevoke, MapDelete
<1>3. sessions' \in [DOMAIN sessions' -> SessionRecords]
  BY <1>1
<1>4. byRefreshHash' \in [DOMAIN byRefreshHash' -> DOMAIN sessions']
  BY <1>1, <1>2 DEF StoreOK, StoreTypes
<1>5. StoreTypes'
  BY <1>1, <1>2, <1>3, <1>4 DEF StoreOK, StoreTypes, StoreRevoke
<1>6. IndexOwned'
  BY <1>1, <1>2 DEF StoreOK, StoreTypes, IndexOwned
<1> QED
  BY <1>1, <1>5, <1>6 DEF StoreOK

LEMMA RotateKeepsStore ==
  ASSUME StoreOK, NEW sid \in DOMAIN sessions, NEW new \in Tokens \ DOMAIN owner,
         StoreRotateRefreshToken(sid, new), owner' = MapSet(owner, new, sid),
         UNCHANGED delivered
  PROVE  StoreOK' /\ DOMAIN sessions' = DOMAIN sessions
<1> DEFINE old == sessions[sid].refreshHash
<1>1. /\ DOMAIN sessions' = DOMAIN sessions
      /\ sessions' \in [DOMAIN sessions' -> SessionRecords]
      /\ sessions'[sid].refreshHash = new
      /\ \A s \in DOMAIN sessions \ {sid} : sessions'[s] = sessions[s]
  BY DEF StoreRotateRefreshToken, StoreOK, StoreTypes, SessionRecords
<1>2. /\ DOMAIN byRefreshHash' = (DOMAIN byRefreshHash \ {old}) \union {new}
      /\ byRefreshHash'[new] = sid
      /\ \A t \in DOMAIN byRefreshHash \ {old} : t # new => byRefreshHash'[t] = byRefreshHash[t]
      /\ byRefreshHash' = [t \in DOMAIN byRefreshHash' |-> byRefreshHash'[t]]
  BY DEF StoreRotateRefreshToken, MapSet, MapDelete
<1>3. /\ DOMAIN owner' = DOMAIN owner \union {new}
      /\ owner'[new] = sid
      /\ \A t \in DOMAIN owner : owner'[t] = owner[t]
  BY DEF MapSet
<1>4. ASSUME NEW t \in DOMAIN byRefreshHash', t # new
      PROVE  /\ t \in DOMAIN byRefreshHash
             /\ byRefreshHash'[t] = byRefreshHash[t]
             /\ byRefreshHash[t] \in DOMAIN sessions \ {sid}
  BY <1>2, <1>4 DEF StoreOK, StoreTypes, IndexOwned
<1>5. byRefreshHash' \in [DOMAIN byRefreshHash' -> DOMAIN sessions']
  BY <1>1, <1>2, <1>4
<1>6. StoreTypes'
  BY <1>1, <1>2, <1>3, <1>5 DEF StoreOK, StoreTypes, StoreRotateRefreshToken
<1>7. IndexOwned'
  BY <1>1, <1>2, <1>3, <1>4 DEF StoreOK, StoreTypes, IndexOwned
<1> QED
  BY <1>1, <1>6, <1>7 DEF StoreOK

LEMMA CreateKeepsStore ==
  ASSUME StoreOK, NEW sid \in SessionIds \ DOMAIN sessions, NEW rec \in SessionRecords,
         rec.refreshHash \notin DOMAIN owner,
         StoreCreateSession(sid, rec), owner' = MapSet(owner, rec.refreshHash, sid),
         UNCHANGED delivered
  PROVE  StoreOK' /\ DOMAIN sessions' = DOMAIN sessions \union {sid}
<1> DEFINE new == rec.refreshHash
<1>0. new \in Tokens
  BY DEF SessionRecords
<1>1. /\ DOMAIN sessions' = DOMAIN sessions \union {sid}
      /\ sessions'[sid] = rec
      /\ \A s \in DOMAIN sessions : sessions'[s] = sessions[s]
      /\ sessions' = [s \in DOMAIN sessions' |-> sessions'[s]]
  BY DEF StoreCreateSession, MapSet
<1>2. /\ DOMAIN byRefreshHash' = DOMAIN byRefreshHash \union {new}
      /\ byRefreshHash'[new] = sid
      /\ \A t \in DOMAIN byRefreshHash : t # new => byRefreshHash'[t] = byRefreshHash[t]
      /\ byRefreshHash' = [t \in DOMAIN byRefreshHash' |-> byRefreshHash'[t]]
  BY DEF StoreCreateSession, MapSet
<1>3. /\ DOMAIN owner' = DOMAIN owner \union {new}
      /\ owner'[new] = sid
      /\ \A t \in DOMAIN owner : owner'[t] = owner[t]
  BY DEF MapSet
<1>4. sessions' \in [DOMAIN sessions' -> SessionRecords]
  BY <1>1 DEF StoreOK, StoreTypes
<1>5. byRefreshHash' \in [DOMAIN byRefreshHash' -> DOMAIN sessions']
  BY <1>1, <1>2 DEF StoreOK, StoreTypes
<1>6. StoreTypes'
  BY <1>0, <1>1, <1>2, <1>3, <1>4, <1>5 DEF StoreOK, StoreTypes, StoreCreateSession
<1>7. IndexOwned'
  BY <1>1, <1>2, <1>3 DEF StoreOK, StoreTypes, IndexOwned
<1> QED
  BY <1>1, <1>6, <1>7 DEF StoreOK

\* A step that leaves the store as it is and hands out stored tokens only.
LEMMA IdleStoreStep ==
  ASSUME StoreOK, UNCHANGED <<storeVars, owner>>,
         DOMAIN delivered' \subseteq DOMAIN owner
  PROVE  StoreOK' /\ DOMAIN sessions' = DOMAIN sessions
BY DEF StoreOK, StoreTypes, IndexOwned, storeVars

\* Moving on in the code, and leaving it.
LEMMA GotoRecord ==
  ASSUME CallTypes, NEW c \in Calls, NEW pc, Goto(c, pc),
         pc \in {"unregister", "register", "lookup", "marked", "rotated"}
  PROVE  /\ call' = [call EXCEPT ![c] = [call[c] EXCEPT !.pc = pc]]
         /\ [call[c] EXCEPT !.pc = pc] \in CallRecords
BY DEF CallTypes, CallRecords, Goto, CreatePending, RenewPending

LEMMA IdleRecord ==
  Idle \in CallRecords /\ Idle.pc = "idle" /\ Idle.new = NULL
BY DEF Idle, CallRecords

\* A step of request c: the store stays sound, and c moves to locals r.
LEMMA StepToIInv ==
  ASSUME IInv, NEW c \in Calls, NEW r \in CallRecords,
         call' = [call EXCEPT ![c] = r],
         StoreOK',
         now' = now,
         DOMAIN owner \subseteq DOMAIN owner',
         \A t \in DOMAIN owner : owner'[t] = owner[t],
         DOMAIN owner' \subseteq DOMAIN owner \union {call[c].new},
         DOMAIN sessions \subseteq DOMAIN sessions',
         \A s \in DOMAIN sessions' \ DOMAIN sessions :
           s = call[c].sid /\ call[c].pc \in CreatePending,
         LocalsOK(r, owner', DOMAIN sessions'),
         r.new \in {NULL, call[c].new} \union FreshTokens,
         r.pc \in CreatePending =>
           \/ call[c].pc \in CreatePending /\ r.sid = call[c].sid
           \/ r.sid \in FreshSessionIds
  PROVE  IInv'
<1>1. NULL \notin DOMAIN owner'
  BY NullAssumption DEF StoreOK, StoreTypes
<1>2. CallTypes' /\ CallsOK' /\ DrawnApart'
  BY <1>1, RequestStep DEF IInv
<1> QED
  BY <1>2 DEF IInv, StoreOK

\* A step of request c that stores no new session and no new token.
LEMMA PlainStep ==
  ASSUME IInv, NEW c \in Calls, NEW r \in CallRecords,
         call' = [call EXCEPT ![c] = r],
         StoreOK', DOMAIN sessions' = DOMAIN sessions,
         UNCHANGED <<now, owner>>,
         LocalsOK(r, owner, DOMAIN sessions),
         r.new \in {NULL, call[c].new} \union FreshTokens,
         r.pc \in CreatePending =>
           \/ call[c].pc \in CreatePending /\ r.sid = call[c].sid
           \/ r.sid \in FreshSessionIds
  PROVE  IInv'
BY StepToIInv

\* A request that ends, by an answer, an error or an abort.
LEMMA FinishStep ==
  ASSUME IInv, NEW c \in Calls, Finish(c),
         StoreOK', DOMAIN sessions' = DOMAIN sessions, UNCHANGED <<now, owner>>
  PROVE  IInv'
<1>1. LocalsOK(Idle, owner, DOMAIN sessions)
  BY IdleRecord DEF LocalsOK, CreatePending, RenewPending
<1>2. Idle.pc \notin CreatePending
  BY IdleRecord DEF CreatePending
<1> QED
  BY <1>1, <1>2, IdleRecord, PlainStep DEF Finish

LEMMA CreateSteps ==
  ASSUME IInv, NEW c \in Calls,
         \/ \E user \in Users, org \in Orgs \union {NoOrg} : CreateCheck(c, user, org)
         \/ CreateEvictRevoke(c) \/ CreateEvictRemove(c)
         \/ CreateInsert(c) \/ CreateRegister(c)
  PROVE  IInv'
<1>0. StoreOK /\ CallTypes /\ call[c] \in CallRecords /\ LocalsOK(call[c], owner, DOMAIN sessions)
  BY DEF IInv, StoreOK, CallTypes, CallsOK
<1>1. CASE \E user \in Users, org \in Orgs \union {NoOrg} : CreateCheck(c, user, org)
  <2>1. PICK user \in Users, org \in Orgs \union {NoOrg} : CreateCheck(c, user, org)
    BY <1>1
  <2>2. PICK sid \in FreshSessionIds, new \in FreshTokens :
          call' = [call EXCEPT ![c] =
                     [Idle EXCEPT !.pc = IF evict'[c] = <<>> THEN "insert" ELSE "evict",
                                  !.user = user, !.org = org, !.sid = sid, !.new = new]]
    BY <2>1 DEF CreateCheck
  <2> DEFINE r == [Idle EXCEPT !.pc = IF evict'[c] = <<>> THEN "insert" ELSE "evict",
                               !.user = user, !.org = org, !.sid = sid, !.new = new]
  <2>3. PICK pc \in {"insert", "evict"} :
          pc = IF evict'[c] = <<>> THEN "insert" ELSE "evict"
    OBVIOUS
  <2>4. /\ r \in CallRecords
        /\ r.pc = pc /\ r.user = user /\ r.org = org /\ r.sid = sid /\ r.new = new
    BY <2>3 DEF Idle, CallRecords, FreshSessionIds, FreshTokens, CreatePending, RenewPending
  <2>5. LocalsOK(r, owner, DOMAIN sessions)
    BY <2>3, <2>4 DEF LocalsOK, FreshSessionIds, FreshTokens, CreatePending, RenewPending
  <2>6. UNCHANGED <<storeVars, owner, delivered, now>>
    BY <2>1 DEF CreateCheck, history
  <2>7. StoreOK' /\ DOMAIN sessions' = DOMAIN sessions
    BY <1>0, <2>6, IdleStoreStep DEF StoreOK, StoreTypes
  <2> HIDE DEF r
  <2> QED
    BY <2>2, <2>4, <2>5, <2>6, <2>7, PlainStep DEF r
<1>2. CASE CreateEvictRevoke(c)
  <2>1. StoreOK' /\ DOMAIN sessions' = DOMAIN sessions
    BY <1>0, <1>2, RevokeKeepsStore DEF CreateEvictRevoke, history
  <2>2. Goto(c, "unregister") /\ UNCHANGED <<now, owner>> /\ call[c].pc = "evict"
    BY <1>2 DEF CreateEvictRevoke, history, At
  <2> DEFINE r == [call[c] EXCEPT !.pc = "unregister"]
  <2>3. call' = [call EXCEPT ![c] = r] /\ r \in CallRecords
    BY <1>0, <2>2, GotoRecord
  <2>4. LocalsOK(r, owner, DOMAIN sessions) /\ r.new = call[c].new /\ r.sid = call[c].sid
    BY <1>0, <2>2 DEF LocalsOK, CallRecords, CreatePending, RenewPending
  <2>5. call[c].pc \in CreatePending
    BY <2>2 DEF CreatePending
  <2> HIDE DEF r
  <2> QED
    BY <2>1, <2>2, <2>3, <2>4, <2>5, PlainStep
<1>3. CASE CreateEvictRemove(c)
  <2> DEFINE pc == IF Len(evict[c]) > 1 THEN "evict" ELSE "insert"
             r == [call[c] EXCEPT !.pc = pc]
  <2>1. /\ UNCHANGED <<storeVars, owner, delivered, now>>
        /\ call[c].pc = "unregister"
        /\ call' = [call EXCEPT ![c].pc = pc]
    BY <1>3 DEF CreateEvictRemove, history, At
  <2>2. StoreOK' /\ DOMAIN sessions' = DOMAIN sessions
    BY <1>0, <2>1, IdleStoreStep DEF StoreOK, StoreTypes
  <2>3. pc \in {"evict", "insert"}
    OBVIOUS
  <2> HIDE DEF pc
  <2>4. call' = [call EXCEPT ![c] = r] /\ r \in CallRecords
    BY <1>0, <2>1, <2>3 DEF CallTypes, CallRecords, CreatePending, RenewPending
  <2>5. LocalsOK(r, owner, DOMAIN sessions) /\ r.new = call[c].new /\ r.sid = call[c].sid
    BY <1>0, <2>1, <2>3 DEF LocalsOK, CallRecords, CreatePending, RenewPending
  <2>6. call[c].pc \in CreatePending
    BY <2>1 DEF CreatePending
  <2> HIDE DEF r
  <2> QED
    BY <2>1, <2>2, <2>4, <2>5, <2>6, PlainStep
<1>4. CASE CreateInsert(c)
  <2>1. PICK dev \in Devices \union {NULL} :
          StoreCreateSession(call[c].sid,
            [user |-> call[c].user, org |-> call[c].org, family |-> call[c].sid,
             refreshHash |-> call[c].new, expiresAt |-> now + RefreshTtl,
             revoked |-> FALSE, device |-> dev])
    BY <1>4 DEF CreateInsert
  <2> DEFINE rec == [user |-> call[c].user, org |-> call[c].org, family |-> call[c].sid,
                     refreshHash |-> call[c].new, expiresAt |-> now + RefreshTtl,
                     revoked |-> FALSE, device |-> dev]
             r == [call[c] EXCEPT !.pc = "register"]
  <2>2. /\ call[c].pc = "insert" /\ Goto(c, "register")
        /\ owner' = MapSet(owner, call[c].new, call[c].sid)
        /\ UNCHANGED <<now, delivered>>
    BY <1>4 DEF CreateInsert, At
  <2>3. /\ call[c].sid \in SessionIds \ DOMAIN sessions
        /\ call[c].new \in Tokens \ DOMAIN owner
        /\ call[c].user \in Users /\ call[c].org \in Orgs \union {NoOrg}
        /\ call[c].pc \in CreatePending
    BY <1>0, <2>2 DEF LocalsOK, CreatePending
  <2>4. rec \in SessionRecords /\ rec.refreshHash = call[c].new
    BY <2>3, TimeAssumption DEF SessionRecords, IInv
  <2>5. StoreCreateSession(call[c].sid, rec)
    BY <2>1
  <2> HIDE DEF rec
  <2>6. StoreOK' /\ DOMAIN sessions' = DOMAIN sessions \union {call[c].sid}
    BY <1>0, <2>2, <2>3, <2>4, <2>5, CreateKeepsStore
  <2>7. /\ DOMAIN owner' = DOMAIN owner \union {call[c].new}
        /\ \A t \in DOMAIN owner : owner'[t] = owner[t]
    BY <2>2, <2>3 DEF MapSet
  <2>8. call' = [call EXCEPT ![c] = r] /\ r \in CallRecords
    BY <1>0, <2>2, GotoRecord
  <2>9. r.pc = "register" /\ r.new = call[c].new /\ r.sid = call[c].sid
        /\ r.user = call[c].user /\ r.org = call[c].org
    BY <1>0 DEF CallRecords
  <2>10. LocalsOK(r, owner', DOMAIN sessions')
    BY <2>3, <2>7, <2>9 DEF LocalsOK, CreatePending, RenewPending
  <2>11. r.pc \notin CreatePending
    BY <2>9 DEF CreatePending
  <2> HIDE DEF r
  <2> QED
    BY <2>2, <2>3, <2>6, <2>7, <2>8, <2>9, <2>10, <2>11, StepToIInv
<1>5. CASE CreateRegister(c)
  <2>1. /\ UNCHANGED <<storeVars, owner, now>> /\ Finish(c)
        /\ call[c].pc = "register"
        /\ DOMAIN delivered' = DOMAIN delivered \union {call[c].new}
    BY <1>5 DEF CreateRegister, At, MapSet
  <2>2. DOMAIN delivered' \subseteq DOMAIN owner
    BY <1>0, <2>1 DEF LocalsOK, StoreOK, StoreTypes
  <2>3. StoreOK' /\ DOMAIN sessions' = DOMAIN sessions
    BY <1>0, <2>1, <2>2, IdleStoreStep
  <2> QED
    BY <2>1, <2>3, FinishStep
<1> QED
  BY <1>1, <1>2, <1>3, <1>4, <1>5

LEMMA RefreshSteps ==
  ASSUME IInv, NEW c \in Calls,
         \/ \E tok \in DOMAIN delivered : RefreshBegin(c, tok)
         \/ RefreshReplay(c) \/ RefreshRevokeFamily(c) \/ RefreshNotUsed(c)
         \/ \E presented \in Devices \union {NULL} : RefreshLookup(c, presented)
         \/ RefreshMarkUsed(c) \/ RefreshRotate(c) \/ RefreshReturn(c)
  PROVE  IInv'
<1>0. StoreOK /\ CallTypes /\ call[c] \in CallRecords /\ LocalsOK(call[c], owner, DOMAIN sessions)
  BY DEF IInv, StoreOK, CallTypes, CallsOK
<1>1. ASSUME UNCHANGED <<storeVars, owner, delivered>>
      PROVE  StoreOK' /\ DOMAIN sessions' = DOMAIN sessions
  BY <1>0, <1>1, IdleStoreStep DEF StoreOK, StoreTypes
<1>2. CASE \E tok \in DOMAIN delivered : RefreshBegin(c, tok)
  <2>1. PICK tok \in DOMAIN delivered : RefreshBegin(c, tok)
    BY <1>2
  <2>2. PICK new \in FreshTokens :
          call' = [call EXCEPT ![c] =
                     [Idle EXCEPT !.pc = "presented", !.tok = tok, !.new = new,
                                  !.liveAtStart = {s \in DOMAIN sessions : Active(s)}]]
    BY <2>1 DEF RefreshBegin
  <2> DEFINE r == [Idle EXCEPT !.pc = "presented", !.tok = tok, !.new = new,
                               !.liveAtStart = {s \in DOMAIN sessions : Active(s)}]
  <2>3. tok \in DOMAIN owner /\ tok \in Tokens
    BY <1>0 DEF StoreOK, StoreTypes
  <2>4. {s \in DOMAIN sessions : Active(s)} \subseteq SessionIds
    BY <1>0 DEF StoreOK, StoreTypes
  <2>5. r \in CallRecords /\ r.pc = "presented" /\ r.tok = tok /\ r.new = new
    BY <2>3, <2>4 DEF Idle, CallRecords, FreshTokens, RenewPending
  <2> HIDE DEF r
  <2>6. LocalsOK(r, owner, DOMAIN sessions)
    BY <2>3, <2>5 DEF LocalsOK, FreshTokens, CreatePending, RenewPending
  <2>7. UNCHANGED <<storeVars, owner, delivered, now>>
    BY <2>1 DEF RefreshBegin, history
  <2>8. r.pc \notin CreatePending
    BY <2>5 DEF CreatePending
  <2> QED
    BY <1>1, <2>2, <2>5, <2>6, <2>7, <2>8, PlainStep DEF r
<1>3. CASE RefreshReplay(c)
  <2> DEFINE r == [call[c] EXCEPT !.pc = "replay", !.sid = usedHashes[call[c].tok]]
  <2>1. /\ UNCHANGED <<storeVars, owner, delivered, now>>
        /\ call' = [call EXCEPT ![c].pc = "replay", ![c].sid = usedHashes[call[c].tok]]
        /\ call[c].tok \in DOMAIN usedHashes
    BY <1>3 DEF RefreshReplay, history
  <2>2. usedHashes[call[c].tok] \in SessionIds
    BY <1>0, <2>1 DEF StoreOK, StoreTypes
  <2>3. call' = [call EXCEPT ![c] = r] /\ r \in CallRecords /\ r.pc = "replay" /\ r.new = call[c].new
    BY <1>0, <2>1, <2>2 DEF CallTypes, CallRecords
  <2> HIDE DEF r
  <2>4. LocalsOK(r, owner, DOMAIN sessions) /\ r.pc \notin CreatePending
    BY <2>3 DEF LocalsOK, CreatePending, RenewPending
  <2> QED
    BY <1>1, <2>1, <2>3, <2>4, PlainStep
<1>4. CASE RefreshRevokeFamily(c)
  <2>1. StoreOK' /\ DOMAIN sessions' = DOMAIN sessions
    BY <1>0, <1>4, RevokeKeepsStore
       DEF RefreshRevokeFamily, StoreRevokeAllSessionsInFamily, history
  <2> QED
    BY <1>4, <2>1, FinishStep DEF RefreshRevokeFamily, history
<1>5. CASE RefreshNotUsed(c)
  <2> DEFINE r == [call[c] EXCEPT !.pc = "lookup"]
  <2>1. /\ UNCHANGED <<storeVars, owner, delivered, now>>
        /\ call[c].pc = "presented" /\ Goto(c, "lookup")
    BY <1>5 DEF RefreshNotUsed, history, At
  <2>2. call' = [call EXCEPT ![c] = r] /\ r \in CallRecords
    BY <1>0, <2>1, GotoRecord
  <2>3. LocalsOK(r, owner, DOMAIN sessions) /\ r.new = call[c].new /\ r.pc \notin CreatePending
    BY <1>0, <2>1 DEF LocalsOK, CallRecords, CreatePending, RenewPending
  <2> HIDE DEF r
  <2> QED
    BY <1>1, <2>1, <2>2, <2>3, PlainStep
<1>6. CASE \E presented \in Devices \union {NULL} : RefreshLookup(c, presented)
  <2>1. PICK presented \in Devices \union {NULL} : RefreshLookup(c, presented)
    BY <1>6
  <2>2. UNCHANGED <<storeVars, owner, delivered, now>> /\ call[c].pc = "lookup"
    BY <2>1 DEF RefreshLookup, history, At
  <2>3. CASE ~Acceptable(call[c].tok, presented)
    BY <1>1, <2>1, <2>2, <2>3, FinishStep DEF RefreshLookup
  <2>4. CASE Acceptable(call[c].tok, presented)
    <3> DEFINE sid == byRefreshHash[call[c].tok]
               r == [call[c] EXCEPT !.pc = "accepted", !.sid = sid]
    <3>1. call' = [call EXCEPT ![c].pc = "accepted", ![c].sid = sid]
      BY <2>1, <2>4 DEF RefreshLookup
    <3>2. sid \in DOMAIN sessions /\ sid \in SessionIds /\ owner[call[c].tok] = sid
      BY <1>0, <2>4 DEF Acceptable, StoreOK, StoreTypes, IndexOwned
    <3> HIDE DEF sid
    <3>3. /\ call' = [call EXCEPT ![c] = r]
          /\ r \in CallRecords
          /\ r.pc = "accepted" /\ r.new = call[c].new /\ r.tok = call[c].tok /\ r.sid = sid
      BY <1>0, <3>1, <3>2 DEF CallTypes, CallRecords, RenewPending
    <3> HIDE DEF r
    <3>4. LocalsOK(r, owner, DOMAIN sessions) /\ r.pc \notin CreatePending
      BY <1>0, <2>2, <3>2, <3>3 DEF LocalsOK, CreatePending, RenewPending
    <3> QED
      BY <1>1, <2>2, <3>3, <3>4, PlainStep
  <2> QED
    BY <2>3, <2>4
<1>7. CASE RefreshMarkUsed(c)
  <2> DEFINE r == [call[c] EXCEPT !.pc = "marked"]
             family == sessions[call[c].sid].family
  <2>1. /\ UNCHANGED <<sessions, byRefreshHash, owner, delivered, now>>
        /\ usedHashes' = MapSet(usedHashes, call[c].tok, family)
        /\ call[c].pc = "accepted" /\ Goto(c, "marked")
    BY <1>7 DEF RefreshMarkUsed, StoreAddUsedRefreshHash, history, At
  <2>2. call[c].tok \in DOMAIN owner /\ call[c].sid \in DOMAIN sessions
    BY <1>0, <2>1 DEF LocalsOK, RenewPending
  <2>3. family \in SessionIds
    BY <1>0, <2>2 DEF StoreOK, StoreTypes, SessionRecords
  <2> HIDE DEF family
  <2>4. /\ usedHashes' \in [DOMAIN usedHashes' -> SessionIds]
        /\ DOMAIN usedHashes' \subseteq DOMAIN owner
    BY <1>0, <2>1, <2>2, <2>3 DEF StoreOK, StoreTypes, MapSet
  <2>5. StoreOK' /\ DOMAIN sessions' = DOMAIN sessions
    BY <1>0, <2>1, <2>4 DEF StoreOK, StoreTypes, IndexOwned
  <2>6. call' = [call EXCEPT ![c] = r] /\ r \in CallRecords
    BY <1>0, <2>1, GotoRecord
  <2>7. LocalsOK(r, owner, DOMAIN sessions) /\ r.new = call[c].new /\ r.pc \notin CreatePending
    BY <1>0, <2>1 DEF LocalsOK, CallRecords, CreatePending, RenewPending
  <2> HIDE DEF r
  <2> QED
    BY <2>1, <2>5, <2>6, <2>7, PlainStep
<1>8. CASE RefreshRotate(c)
  <2> DEFINE r == [call[c] EXCEPT !.pc = "rotated"]
  <2>1. /\ UNCHANGED <<delivered, now>>
        /\ StoreRotateRefreshToken(call[c].sid, call[c].new)
        /\ owner' = MapSet(owner, call[c].new, call[c].sid)
        /\ call[c].pc = "marked" /\ Goto(c, "rotated")
    BY <1>8 DEF RefreshRotate, At
  <2>2. call[c].new \in Tokens \ DOMAIN owner /\ call[c].sid \in DOMAIN sessions
    BY <1>0, <2>1 DEF LocalsOK, RenewPending
  <2>3. StoreOK' /\ DOMAIN sessions' = DOMAIN sessions
    BY <1>0, <2>1, <2>2, RotateKeepsStore
  <2>4. /\ DOMAIN owner' = DOMAIN owner \union {call[c].new}
        /\ \A t \in DOMAIN owner : owner'[t] = owner[t]
    BY <2>1, <2>2 DEF MapSet
  <2>5. call' = [call EXCEPT ![c] = r] /\ r \in CallRecords
    BY <1>0, <2>1, GotoRecord
  <2>6. r.pc = "rotated" /\ r.new = call[c].new /\ r.pc \notin CreatePending
    BY <1>0 DEF CallRecords, CreatePending
  <2> HIDE DEF r
  <2>7. LocalsOK(r, owner', DOMAIN sessions')
    BY <2>4, <2>6 DEF LocalsOK, CreatePending, RenewPending
  <2> QED
    BY <2>1, <2>3, <2>4, <2>5, <2>6, <2>7, StepToIInv
<1>9. CASE RefreshReturn(c)
  <2>1. /\ UNCHANGED <<storeVars, owner, now>> /\ Finish(c)
        /\ call[c].pc = "rotated"
        /\ DOMAIN delivered' = DOMAIN delivered \union {call[c].new}
    BY <1>9 DEF RefreshReturn, At, MapSet
  <2>2. DOMAIN delivered' \subseteq DOMAIN owner
    BY <1>0, <2>1 DEF LocalsOK, StoreOK, StoreTypes
  <2>3. StoreOK' /\ DOMAIN sessions' = DOMAIN sessions
    BY <1>0, <2>1, <2>2, IdleStoreStep
  <2> QED
    BY <2>1, <2>3, FinishStep
<1> QED
  BY <1>2, <1>3, <1>4, <1>5, <1>6, <1>7, <1>8, <1>9

LEMMA RevokeSteps ==
  ASSUME IInv, NEW c \in Calls,
         \/ \E sid \in DOMAIN sessions, hooked \in BOOLEAN : RevokeBegin(c, sid, hooked)
         \/ RevokeStore(c) \/ Abort(c)
  PROVE  IInv'
<1>0. StoreOK /\ CallTypes
  BY DEF IInv, StoreOK
<1>1. ASSUME UNCHANGED <<storeVars, owner, delivered>>
      PROVE  StoreOK' /\ DOMAIN sessions' = DOMAIN sessions
  BY <1>0, <1>1, IdleStoreStep DEF StoreOK, StoreTypes
<1>2. CASE \E sid \in DOMAIN sessions, hooked \in BOOLEAN : RevokeBegin(c, sid, hooked)
  <2>1. PICK sid \in DOMAIN sessions, hooked \in BOOLEAN : RevokeBegin(c, sid, hooked)
    BY <1>2
  <2> DEFINE r == [Idle EXCEPT !.pc = "revoke", !.sid = sid]
  <2>2. call' = [call EXCEPT ![c] = r] /\ UNCHANGED <<storeVars, owner, delivered, now>>
    BY <2>1 DEF RevokeBegin, history
  <2>3. r \in CallRecords /\ r.pc = "revoke" /\ r.new = NULL
    BY <1>0 DEF Idle, CallRecords, StoreOK, StoreTypes
  <2> HIDE DEF r
  <2>4. LocalsOK(r, owner, DOMAIN sessions) /\ r.pc \notin CreatePending
    BY <2>3 DEF LocalsOK, CreatePending, RenewPending
  <2> QED
    BY <1>1, <2>2, <2>3, <2>4, PlainStep
<1>3. CASE RevokeStore(c)
  <2>1. StoreOK' /\ DOMAIN sessions' = DOMAIN sessions
    BY <1>0, <1>3, RevokeKeepsStore DEF RevokeStore, history
  <2> QED
    BY <1>3, <2>1, FinishStep DEF RevokeStore, history
<1>4. CASE Abort(c)
  <2>1. UNCHANGED <<storeVars, owner, delivered, now>> /\ Finish(c)
    BY <1>4 DEF Abort, history
  <2> QED
    BY <1>1, <2>1, FinishStep
<1> QED
  BY <1>2, <1>3, <1>4

\* Steps outside every request.
LEMMA GlobalSteps ==
  ASSUME IInv,
         \/ \E user \in Users : RevokeAllSessionsForUser(user) \/ RemoteLogout(user)
         \/ Tick \/ UNCHANGED vars
  PROVE  IInv'
<1>0. StoreOK
  BY DEF IInv, StoreOK
<1>1. ASSUME StoreOK', DOMAIN sessions' = DOMAIN sessions, UNCHANGED <<call, owner>>,
             now' \in 0 .. MaxTime
      PROVE  IInv'
  BY <1>1 DEF IInv, StoreOK, CallTypes, CallsOK, DrawnApart
<1>2. ASSUME UNCHANGED <<storeVars, owner, delivered>>
      PROVE  StoreOK' /\ DOMAIN sessions' = DOMAIN sessions
  BY <1>0, <1>2, IdleStoreStep DEF StoreOK, StoreTypes
<1>3. ASSUME NEW user \in Users, RevokeAllSessionsForUser(user)
      PROVE  IInv'
  <2>1. UNCHANGED <<call, owner, delivered, now>>
    BY <1>3 DEF RevokeAllSessionsForUser, history
  <2>2. StoreOK' /\ DOMAIN sessions' = DOMAIN sessions
    BY <1>0, <1>3, <2>1, RevokeKeepsStore DEF RevokeAllSessionsForUser, StoreRevokeAllForUser
  <2> QED
    BY <1>1, <2>1, <2>2 DEF IInv
<1>4. ASSUME NEW user \in Users, RemoteLogout(user)
      PROVE  IInv'
  <2>1. UNCHANGED <<storeVars, call, owner, delivered, now>>
    BY <1>4 DEF RemoteLogout, history
  <2> QED
    BY <1>1, <1>2, <2>1 DEF IInv
<1>5. CASE Tick
  <2>1. UNCHANGED <<storeVars, call, owner, delivered>> /\ now < MaxTime /\ now' = now + 1
    BY <1>5 DEF Tick, history
  <2>2. now' \in 0 .. MaxTime
    BY <2>1, TimeAssumption DEF IInv
  <2> QED
    BY <1>1, <1>2, <2>1, <2>2
<1>6. CASE UNCHANGED vars
  <2>1. UNCHANGED <<storeVars, call, owner, delivered, now>>
    BY <1>6 DEF vars, history
  <2> QED
    BY <1>1, <1>2, <2>1 DEF IInv
<1> QED
  BY <1>3, <1>4, <1>5, <1>6

\* The invariant is inductive: every step of every request keeps it.
THEOREM NextIInv == IInv /\ [Next]_vars => IInv'
BY CreateSteps, RefreshSteps, RevokeSteps, GlobalSteps DEF Next, Serve, Request

THEOREM Invariance == Spec => []IInv
BY InitIInv, NextIInv, PTL DEF Spec

-----------------------------------------------------------------------------
(* What follows *)

\* TypeOK holds in every reachable state, for every value of the constants.
THEOREM TypeCorrect == Spec => []TypeOK
<1>1. ASSUME IInv PROVE TypeOK
  <2>1. \A s \in DOMAIN sessions : sessions[s] \in SessionRecords
    BY <1>1 DEF IInv, StoreTypes
  <2>2. DOMAIN byRefreshHash \subseteq Tokens /\ DOMAIN usedHashes \subseteq Tokens
    BY <1>1 DEF IInv, StoreTypes
  <2>3. \A c \in Calls : /\ call[c].tok \in Tokens \union {NULL}
                        /\ call[c].new \in Tokens \union {NULL}
                        /\ call[c].sid \in SessionIds \union {NULL}
    BY <1>1 DEF IInv, CallTypes, CallRecords
  <2> QED
    BY <1>1, <2>1, <2>2, <2>3 DEF IInv, StoreTypes, SessionRecords, TypeOK
<1> QED
  BY <1>1, Invariance, PTL

\* A session answers to at most one refresh token, however many renewals,
\* sign-ins, evictions, revocations and aborts overlap: an entry of the index
\* always names the hash its session holds.
THEOREM OneLiveToken == Spec => []IndexMatchesRecord
<1>1. IInv => IndexMatchesRecord
  BY DEF IInv, IndexOwned, IndexMatchesRecord
<1> QED
  BY <1>1, Invariance, PTL

-----------------------------------------------------------------------------
(* A spent token is out of the index when no request dies half-way *)

LEMMA SpentFrame ==
  ASSUME SpentTokenNotLive,
         DOMAIN usedHashes' \subseteq DOMAIN usedHashes,
         \A t \in DOMAIN byRefreshHash' \intersect DOMAIN usedHashes : t \in DOMAIN byRefreshHash,
         \A d \in Calls : At(d, "marked") => At(d, "marked")' /\ call'[d].tok = call[d].tok
  PROVE  SpentTokenNotLive'
BY DEF SpentTokenNotLive, At

\* A request that is not between the two writes disturbs no one who is.
LEMMA OtherMarked ==
  ASSUME CallTypes, NEW c \in Calls, ~At(c, "marked"), NEW r, call' = [call EXCEPT ![c] = r]
  PROVE  \A d \in Calls : At(d, "marked") => At(d, "marked")' /\ call'[d].tok = call[d].tok
BY DEF CallTypes, At

LEMMA SpentNext ==
  ASSUME IInv, SpentTokenNotLive, "abort" \notin Features, [Next]_vars
  PROVE  SpentTokenNotLive'
<1>0. CallTypes /\ StoreTypes /\ IndexOwned /\ CallsOK
  BY DEF IInv
<1>1. ASSUME NEW c \in Calls, NEW r, ~At(c, "marked"), call' = [call EXCEPT ![c] = r],
             DOMAIN usedHashes' = DOMAIN usedHashes,
             DOMAIN byRefreshHash' \subseteq DOMAIN byRefreshHash
      PROVE  SpentTokenNotLive'
  BY <1>0, <1>1, OtherMarked, SpentFrame
<1>2. ASSUME NEW S, StoreRevoke(S)
      PROVE  /\ DOMAIN usedHashes' = DOMAIN usedHashes
             /\ DOMAIN byRefreshHash' \subseteq DOMAIN byRefreshHash
  BY <1>2 DEF StoreRevoke, MapDelete
<1>3. ASSUME NEW c \in Calls, NEW pc, call' = [call EXCEPT ![c].pc = pc]
      PROVE  call' = [call EXCEPT ![c] = [call[c] EXCEPT !.pc = pc]]
  BY <1>0, <1>3 DEF CallTypes
<1>4. ASSUME NEW c \in Calls, Serve(c)
      PROVE  SpentTokenNotLive'
  <2>1. CASE CreateEvictRevoke(c)
    <3>1. ~At(c, "marked")
      BY <2>1 DEF CreateEvictRevoke, At
    <3> QED
      BY <1>1, <1>2, <1>3, <2>1, <3>1 DEF CreateEvictRevoke, Goto
  <2>2. CASE CreateEvictRemove(c)
    <3>1. ~At(c, "marked") /\ UNCHANGED storeVars
      BY <2>2 DEF CreateEvictRemove, At
    <3>2. PICK pc : call' = [call EXCEPT ![c].pc = pc]
      BY <2>2 DEF CreateEvictRemove
    <3> QED
      BY <1>1, <1>3, <3>1, <3>2 DEF storeVars
  <2>3. CASE CreateInsert(c)
    <3>1. call[c].pc = "insert" /\ Goto(c, "register")
      BY <2>3 DEF CreateInsert, At
    <3>2. /\ DOMAIN byRefreshHash' = DOMAIN byRefreshHash \union {call[c].new}
          /\ UNCHANGED usedHashes
      BY <2>3 DEF CreateInsert, StoreCreateSession, MapSet
    <3>3. call[c].new \notin DOMAIN usedHashes
      BY <1>0, <3>1 DEF CallsOK, LocalsOK, StoreTypes, CreatePending
    <3>4. \A d \in Calls : At(d, "marked") => At(d, "marked")' /\ call'[d].tok = call[d].tok
      BY <1>0, <1>3, <3>1, OtherMarked DEF Goto, At
    <3> QED
      BY <3>2, <3>3, <3>4, SpentFrame
  <2>4. CASE CreateRegister(c)
    BY <1>1, <2>4 DEF CreateRegister, Finish, At, storeVars
  <2>5. CASE RefreshReplay(c)
    <3>1. PICK sid : call' = [call EXCEPT ![c].pc = "replay", ![c].sid = sid]
      BY <2>5 DEF RefreshReplay
    <3>2. call' = [call EXCEPT ![c] = [call[c] EXCEPT !.pc = "replay", !.sid = sid]]
      BY <1>0, <3>1 DEF CallTypes
    <3> QED
      BY <1>1, <2>5, <3>2 DEF RefreshReplay, At, storeVars
  <2>6. CASE RefreshRevokeFamily(c)
    <3>1. ~At(c, "marked") /\ Finish(c) /\ StoreRevokeAllSessionsInFamily(call[c].sid)
      BY <2>6 DEF RefreshRevokeFamily, At
    <3> QED
      BY <1>1, <1>2, <3>1 DEF StoreRevokeAllSessionsInFamily, Finish
  <2>7. CASE RefreshNotUsed(c)
    BY <1>1, <1>3, <2>7 DEF RefreshNotUsed, Goto, At, storeVars
  <2>8. CASE \E presented \in Devices \union {NULL} : RefreshLookup(c, presented)
    <3>1. PICK presented \in Devices \union {NULL} : RefreshLookup(c, presented)
      BY <2>8
    <3>2. ~At(c, "marked") /\ UNCHANGED storeVars
      BY <3>1 DEF RefreshLookup, At
    <3>3. CASE Finish(c)
      BY <1>1, <3>2, <3>3 DEF Finish, storeVars
    <3>4. CASE call' = [call EXCEPT ![c].pc = "accepted", ![c].sid = byRefreshHash[call[c].tok]]
      <4>1. call' = [call EXCEPT ![c] = [call[c] EXCEPT !.pc = "accepted",
                                                        !.sid = byRefreshHash[call[c].tok]]]
        BY <1>0, <3>4 DEF CallTypes
      <4> QED
        BY <1>1, <3>2, <4>1 DEF storeVars
    <3> QED
      BY <3>1, <3>3, <3>4 DEF RefreshLookup
  <2>9. CASE RefreshMarkUsed(c)
    <3>1. /\ DOMAIN usedHashes' = DOMAIN usedHashes \union {call[c].tok}
          /\ UNCHANGED byRefreshHash
          /\ Goto(c, "marked") /\ ~At(c, "marked")
      BY <2>9 DEF RefreshMarkUsed, StoreAddUsedRefreshHash, MapSet, At
    <3>2. call'[c].pc = "marked" /\ call'[c].tok = call[c].tok
      BY <1>0, <3>1 DEF CallTypes, CallRecords, Goto
    <3>3. \A d \in Calls : At(d, "marked") => At(d, "marked")' /\ call'[d].tok = call[d].tok
      BY <1>0, <1>3, <3>1, OtherMarked DEF Goto
    <3> QED
      BY <3>1, <3>2, <3>3 DEF SpentTokenNotLive, At
  <2>10. CASE RefreshRotate(c)
    <3> DEFINE tok == call[c].tok
               new == call[c].new
               sid == call[c].sid
    <3>1. /\ call[c].pc = "marked" /\ Goto(c, "rotated")
          /\ StoreRotateRefreshToken(sid, new)
      BY <2>10 DEF RefreshRotate, At
    <3>2. /\ sid \in DOMAIN sessions
          /\ tok \in DOMAIN owner /\ owner[tok] = sid
          /\ new \notin DOMAIN owner
      BY <1>0, <3>1 DEF CallsOK, LocalsOK, RenewPending
    <3>3. /\ DOMAIN byRefreshHash' =
               (DOMAIN byRefreshHash \ {sessions[sid].refreshHash}) \union {new}
          /\ UNCHANGED usedHashes
      BY <3>1, <3>2 DEF StoreRotateRefreshToken, MapSet, MapDelete
    <3>4. tok \notin DOMAIN byRefreshHash'
      BY <1>0, <3>2, <3>3 DEF IndexOwned
    <3>5. new \notin DOMAIN usedHashes
      BY <1>0, <3>2 DEF StoreTypes
    <3>6. \A d \in Calls \ {c} : call'[d] = call[d]
      BY <1>0, <3>1 DEF CallTypes, Goto
    <3> QED
      BY <3>3, <3>4, <3>5, <3>6 DEF SpentTokenNotLive, At
  <2>11. CASE RefreshReturn(c)
    BY <1>1, <2>11 DEF RefreshReturn, Finish, At, storeVars
  <2>12. CASE RevokeStore(c)
    <3>1. ~At(c, "marked")
      BY <2>12 DEF RevokeStore, At
    <3> QED
      BY <1>1, <1>2, <2>12, <3>1 DEF RevokeStore, Finish
  <2> QED
    BY <1>4, <2>1, <2>2, <2>3, <2>4, <2>5, <2>6, <2>7, <2>8, <2>9, <2>10, <2>11, <2>12 DEF Serve
<1>5. ASSUME NEW c \in Calls, Request(c)
      PROVE  SpentTokenNotLive'
  <2>1. ~At(c, "marked") /\ UNCHANGED storeVars
    BY <1>5 DEF Request, CreateCheck, RefreshBegin, RevokeBegin, At
  <2>2. PICK r : call' = [call EXCEPT ![c] = r]
    BY <1>5 DEF Request, CreateCheck, RefreshBegin, RevokeBegin
  <2> QED
    BY <1>1, <2>1, <2>2 DEF storeVars
<1>6. ASSUME NEW user \in Users, RevokeAllSessionsForUser(user)
      PROVE  SpentTokenNotLive'
  <2>1. UNCHANGED call
    BY <1>6 DEF RevokeAllSessionsForUser
  <2> QED
    BY <1>2, <1>6, <2>1, SpentFrame DEF RevokeAllSessionsForUser, StoreRevokeAllForUser, At
<1>7. CASE UNCHANGED <<storeVars, call>>
  BY <1>7 DEF SpentTokenNotLive, storeVars, At
<1>8. \A c \in Calls : ~Abort(c)
  BY DEF Abort
<1>9. CASE Tick \/ (\E user \in Users : RemoteLogout(user)) \/ UNCHANGED vars
  <2>1. UNCHANGED <<storeVars, call>>
    BY <1>9 DEF Tick, RemoteLogout, vars
  <2> QED
    BY <1>7, <2>1
<1> QED
  BY <1>4, <1>5, <1>6, <1>8, <1>9 DEF Next

\* As long as no request dies between its two writes, a token recorded as spent
\* has left the index, or the renewal that spent it is about to remove it.
THEOREM SpentTokensLeaveTheIndex ==
  ASSUME "abort" \notin Features
  PROVE  Spec => []SpentTokenNotLive
<1>1. Init => SpentTokenNotLive
  BY DEF Init, StoreInit, EmptyMap, SpentTokenNotLive
<1>2. IInv /\ SpentTokenNotLive /\ [Next]_vars => SpentTokenNotLive'
  BY SpentNext
<1> QED
  BY <1>1, <1>2, Invariance, PTL DEF Spec

-----------------------------------------------------------------------------
(* The store implements the session life cycle *)

LEMMA MappedOpen ==
  ASSUME NEW sid \in SessionIds \ DOMAIN sessions, NEW rec \in SessionRecords,
         rec.refreshHash \in Tokens \ DOMAIN owner, rec.revoked = FALSE,
         sessions' = MapSet(sessions, sid, rec),
         owner' = MapSet(owner, rec.refreshHash, sid)
  PROVE  Lifecycle!Open(sid, rec.refreshHash)
<1>1. /\ DOMAIN sessions' = DOMAIN sessions \union {sid}
      /\ sessions'[sid] = rec
      /\ \A s \in DOMAIN sessions : sessions'[s] = sessions[s]
  BY DEF MapSet
<1>2. status[sid] = "absent"
  BY DEF status, Active
<1>3. status' = [status EXCEPT ![sid] = "active"]
  BY <1>1 DEF status, Active
<1>4. live' = [live EXCEPT ![sid] = rec.refreshHash]
  BY <1>1 DEF live, Active
<1>5. (DOMAIN owner)' = DOMAIN owner \union {rec.refreshHash}
  BY DEF MapSet
<1> QED
  BY <1>2, <1>3, <1>4, <1>5 DEF Lifecycle!Open

LEMMA MappedRenew ==
  ASSUME StoreOK, NEW sid \in DOMAIN sessions, NEW new \in Tokens \ DOMAIN owner,
         StoreRotateRefreshToken(sid, new), owner' = MapSet(owner, new, sid)
  PROVE  Lifecycle!Renew(sid, new) \/ Lifecycle!Waste(new)
<1>1. /\ DOMAIN sessions' = DOMAIN sessions
      /\ sessions'[sid].refreshHash = new
      /\ sessions'[sid].revoked = sessions[sid].revoked
      /\ \A s \in DOMAIN sessions \ {sid} : sessions'[s] = sessions[s]
  BY DEF StoreRotateRefreshToken, StoreOK, StoreTypes, SessionRecords
<1>2. \A s \in SessionIds : Active(s)' <=> Active(s)
  BY <1>1 DEF Active
<1>3. UNCHANGED status
  BY <1>1, <1>2 DEF status
<1>4. (DOMAIN owner)' = DOMAIN owner \union {new}
  BY DEF MapSet
<1>5. CASE Active(sid)
  <2>1. status[sid] = "active"
    BY <1>5 DEF status, Active, StoreOK, StoreTypes
  <2>2. live' = [live EXCEPT ![sid] = new]
    BY <1>1, <1>2, <1>5 DEF live, Active
  <2> QED
    BY <1>3, <1>4, <2>1, <2>2 DEF Lifecycle!Renew
<1>6. CASE ~Active(sid)
  <2>1. UNCHANGED live
    BY <1>1, <1>2, <1>6 DEF live, Active
  <2> QED
    BY <1>3, <1>4, <2>1 DEF Lifecycle!Waste
<1> QED
  BY <1>5, <1>6

LEMMA MappedClose ==
  ASSUME StoreOK, NEW S, StoreRevoke(S), UNCHANGED owner
  PROVE  \E C \in SUBSET SessionIds : Lifecycle!Close(C)
<1> DEFINE C == {s \in SessionIds : s \in S /\ Active(s)}
<1>1. /\ DOMAIN sessions' = DOMAIN sessions
      /\ \A s \in DOMAIN sessions :
           /\ sessions'[s].refreshHash = sessions[s].refreshHash
           /\ s \in S => sessions'[s].revoked
           /\ s \notin S => sessions'[s] = sessions[s]
  BY DEF StoreRevoke, StoreOK, StoreTypes, SessionRecords
<1>2. \A s \in SessionIds : Active(s)' <=> Active(s) /\ s \notin C
  BY <1>1 DEF Active
<1>3. \A s \in C : status[s] = "active"
  BY DEF status, Active
<1>4. status' = [s \in SessionIds |-> IF s \in C THEN "closed" ELSE status[s]]
  <2>1. ASSUME NEW s \in SessionIds PROVE status'[s] = IF s \in C THEN "closed" ELSE status[s]
    <3>1. CASE s \in C
      BY <1>1, <1>2, <3>1 DEF status, Active
    <3>2. CASE s \notin C
      BY <1>1, <1>2, <3>2 DEF status
    <3> QED
      BY <3>1, <3>2
  <2> QED
    BY <2>1 DEF status
<1>5. live' = [s \in SessionIds |-> IF s \in C THEN NULL ELSE live[s]]
  <2>1. ASSUME NEW s \in SessionIds PROVE live'[s] = IF s \in C THEN NULL ELSE live[s]
    BY <1>1, <1>2 DEF live, Active
  <2> QED
    BY <2>1 DEF live
<1>6. C \in SUBSET SessionIds
  OBVIOUS
<1> QED
  BY <1>3, <1>4, <1>5, <1>6 DEF Lifecycle!Close

LEMMA MappedStutter ==
  ASSUME UNCHANGED <<sessions, owner>>
  PROVE  UNCHANGED Lifecycle!vars
BY DEF Lifecycle!vars, status, live, Active

LEMMA LifecycleStep ==
  ASSUME IInv, [Next]_vars
  PROVE  [Lifecycle!Next]_(Lifecycle!vars)
<1>0. StoreOK /\ CallsOK
  BY DEF IInv, StoreOK
<1>1. ASSUME NEW S, StoreRevoke(S), UNCHANGED owner
      PROVE  Lifecycle!Next
  BY <1>0, <1>1, MappedClose DEF Lifecycle!Next
<1>2. ASSUME NEW c \in Calls, Serve(c)
      PROVE  [Lifecycle!Next]_(Lifecycle!vars)
  <2>1. CASE CreateInsert(c)
    <3>1. PICK dev \in Devices \union {NULL} :
            StoreCreateSession(call[c].sid,
              [user |-> call[c].user, org |-> call[c].org, family |-> call[c].sid,
               refreshHash |-> call[c].new, expiresAt |-> now + RefreshTtl,
               revoked |-> FALSE, device |-> dev])
      BY <2>1 DEF CreateInsert
    <3> DEFINE rec == [user |-> call[c].user, org |-> call[c].org, family |-> call[c].sid,
                       refreshHash |-> call[c].new, expiresAt |-> now + RefreshTtl,
                       revoked |-> FALSE, device |-> dev]
    <3>2. call[c].pc = "insert" /\ owner' = MapSet(owner, call[c].new, call[c].sid)
      BY <2>1 DEF CreateInsert, At
    <3>3. /\ call[c].sid \in SessionIds \ DOMAIN sessions
          /\ call[c].new \in Tokens \ DOMAIN owner
          /\ call[c].user \in Users /\ call[c].org \in Orgs \union {NoOrg}
      BY <1>0, <3>2 DEF CallsOK, LocalsOK, CreatePending
    <3>4. rec \in SessionRecords /\ rec.refreshHash = call[c].new /\ rec.revoked = FALSE
      BY <3>3, TimeAssumption DEF SessionRecords, IInv
    <3>5. sessions' = MapSet(sessions, call[c].sid, rec)
      BY <3>1 DEF StoreCreateSession
    <3> HIDE DEF rec
    <3>6. Lifecycle!Open(call[c].sid, rec.refreshHash)
      BY <3>2, <3>3, <3>4, <3>5, MappedOpen
    <3> QED
      BY <3>3, <3>4, <3>6 DEF Lifecycle!Next
  <2>2. CASE RefreshRotate(c)
    <3>1. /\ call[c].pc = "marked" /\ StoreRotateRefreshToken(call[c].sid, call[c].new)
          /\ owner' = MapSet(owner, call[c].new, call[c].sid)
      BY <2>2 DEF RefreshRotate, At
    <3>2. call[c].sid \in DOMAIN sessions /\ call[c].new \in Tokens \ DOMAIN owner
      BY <1>0, <3>1 DEF CallsOK, LocalsOK, RenewPending
    <3>3. Lifecycle!Renew(call[c].sid, call[c].new) \/ Lifecycle!Waste(call[c].new)
      BY <1>0, <3>1, <3>2, MappedRenew
    <3>4. call[c].sid \in SessionIds
      BY <1>0, <3>2 DEF StoreOK, StoreTypes
    <3> QED
      BY <3>2, <3>3, <3>4 DEF Lifecycle!Next
  <2>3. CASE CreateEvictRevoke(c) \/ RefreshRevokeFamily(c) \/ RevokeStore(c)
    BY <1>1, <2>3 DEF CreateEvictRevoke, RefreshRevokeFamily, RevokeStore,
                      StoreRevokeAllSessionsInFamily, history
  <2>4. CASE \/ CreateEvictRemove(c) \/ CreateRegister(c)
             \/ RefreshReplay(c) \/ RefreshNotUsed(c)
             \/ \E presented \in Devices \union {NULL} : RefreshLookup(c, presented)
             \/ RefreshMarkUsed(c) \/ RefreshReturn(c)
    <3>1. UNCHANGED <<sessions, owner>>
      BY <2>4 DEF CreateEvictRemove, CreateRegister, RefreshReplay, RefreshNotUsed,
                  RefreshLookup, RefreshMarkUsed, StoreAddUsedRefreshHash, RefreshReturn,
                  storeVars, history
    <3> QED
      BY <3>1, MappedStutter
  <2> QED
    BY <1>2, <2>1, <2>2, <2>3, <2>4 DEF Serve
<1>3. ASSUME NEW user \in Users, RevokeAllSessionsForUser(user)
      PROVE  Lifecycle!Next
  BY <1>1, <1>3 DEF RevokeAllSessionsForUser, StoreRevokeAllForUser, history
<1>4. CASE \/ \E c \in Calls : Request(c) \/ Abort(c)
           \/ \E user \in Users : RemoteLogout(user)
           \/ Tick \/ UNCHANGED vars
  <2>1. UNCHANGED <<sessions, owner>>
    BY <1>4 DEF Request, CreateCheck, RefreshBegin, RevokeBegin, Abort, RemoteLogout, Tick,
                vars, storeVars, history
  <2> QED
    BY <2>1, MappedStutter
<1> QED
  BY <1>2, <1>3, <1>4 DEF Next

\* The code's store, whatever overlaps, implements SessionLifecycle: sessions
\* never reopen, hold one live credential, and no credential serves twice.
THEOREM ImplementsLifecycle == Spec => LifecycleSpec
<1>1. Init => Lifecycle!Init
  <2> SUFFICES ASSUME Init PROVE Lifecycle!Init
    OBVIOUS
  <2>1. DOMAIN sessions = {} /\ DOMAIN owner = {}
    BY DEF Init, StoreInit, EmptyMap
  <2> QED
    BY <2>1 DEF Lifecycle!Init, status, live, Active
<1>2. IInv /\ [Next]_vars => [Lifecycle!Next]_(Lifecycle!vars)
  BY LifecycleStep
<1> QED
  BY <1>1, <1>2, Invariance, PTL DEF Spec, LifecycleSpec, Lifecycle!Spec

-----------------------------------------------------------------------------
(* What no step undoes *)

\* Sessions and tokens stay, and what was revoked, spent or used stays so.
NothingUndone ==
  /\ DOMAIN sessions \subseteq DOMAIN sessions'
  /\ \A s \in DOMAIN sessions :
       /\ sessions'[s].user = sessions[s].user /\ sessions'[s].org = sessions[s].org
       /\ sessions[s].revoked => sessions'[s].revoked
  /\ DOMAIN owner \subseteq DOMAIN owner' /\ \A t \in DOMAIN owner : owner'[t] = owner[t]
  /\ DOMAIN usedHashes \subseteq DOMAIN usedHashes'

LEMMA RevokingUndoesNothing ==
  ASSUME StoreOK, NEW S, StoreRevoke(S), UNCHANGED owner
  PROVE  /\ NothingUndone
         /\ DOMAIN sessions' = DOMAIN sessions
         /\ \A s \in DOMAIN sessions :
              /\ sessions'[s].refreshHash = sessions[s].refreshHash
              /\ s \in S => sessions'[s].revoked
              /\ s \notin S => sessions'[s] = sessions[s]
         /\ UNCHANGED usedHashes
         /\ \A t \in DOMAIN byRefreshHash \ DOMAIN byRefreshHash' :
              \E s \in S \intersect DOMAIN sessions : t = sessions[s].refreshHash
<1>1. /\ DOMAIN sessions' = DOMAIN sessions
      /\ \A s \in DOMAIN sessions :
           /\ sessions'[s].user = sessions[s].user /\ sessions'[s].org = sessions[s].org
           /\ sessions'[s].refreshHash = sessions[s].refreshHash
           /\ sessions[s].revoked => sessions'[s].revoked
           /\ s \in S => sessions'[s].revoked
           /\ s \notin S => sessions'[s] = sessions[s]
  BY DEF StoreRevoke, StoreOK, StoreTypes, SessionRecords
<1>2. DOMAIN byRefreshHash' =
        DOMAIN byRefreshHash \ {sessions[s].refreshHash : s \in S \intersect DOMAIN sessions}
  BY DEF StoreRevoke, MapDelete
<1> QED
  BY <1>1, <1>2 DEF NothingUndone, StoreRevoke

LEMMA RotatingUndoesNothing ==
  ASSUME StoreOK, NEW sid \in DOMAIN sessions, NEW new,
         StoreRotateRefreshToken(sid, new), new \notin DOMAIN owner,
         owner' = MapSet(owner, new, sid)
  PROVE  /\ NothingUndone
         /\ DOMAIN sessions' = DOMAIN sessions
         /\ \A s \in DOMAIN sessions :
              /\ sessions'[s].revoked = sessions[s].revoked
              /\ sessions'[s].refreshHash = IF s = sid THEN new ELSE sessions[s].refreshHash
         /\ UNCHANGED usedHashes
         /\ DOMAIN byRefreshHash' =
              (DOMAIN byRefreshHash \ {sessions[sid].refreshHash}) \union {new}
         /\ DOMAIN owner' = DOMAIN owner \union {new} /\ owner'[new] = sid
<1>1. /\ DOMAIN sessions' = DOMAIN sessions
      /\ \A s \in DOMAIN sessions :
           /\ sessions'[s].user = sessions[s].user /\ sessions'[s].org = sessions[s].org
           /\ sessions'[s].revoked = sessions[s].revoked
           /\ sessions'[s].refreshHash = IF s = sid THEN new ELSE sessions[s].refreshHash
  BY DEF StoreRotateRefreshToken, StoreOK, StoreTypes, SessionRecords
<1>2. UNCHANGED usedHashes
      /\ DOMAIN byRefreshHash' =
              (DOMAIN byRefreshHash \ {sessions[sid].refreshHash}) \union {new}
  BY DEF StoreRotateRefreshToken, MapSet, MapDelete
<1>3. /\ DOMAIN owner' = DOMAIN owner \union {new} /\ owner'[new] = sid
      /\ \A t \in DOMAIN owner : owner'[t] = owner[t]
  BY DEF MapSet
<1> QED
  BY <1>1, <1>2, <1>3 DEF NothingUndone

\* The session that a request opens.
LEMMA Opening ==
  ASSUME IInv, NEW c \in Calls, CreateInsert(c)
  PROVE  /\ NothingUndone
         /\ call[c].pc = "insert" /\ call[c].sid \in SessionIds \ DOMAIN sessions
         /\ call[c].new \notin DOMAIN owner
         /\ DOMAIN sessions' = DOMAIN sessions \union {call[c].sid}
         /\ \A s \in DOMAIN sessions : sessions'[s] = sessions[s]
         /\ sessions'[call[c].sid].user = call[c].user
         /\ sessions'[call[c].sid].org = call[c].org
         /\ sessions'[call[c].sid].refreshHash = call[c].new
         /\ ~sessions'[call[c].sid].revoked
         /\ UNCHANGED usedHashes
         /\ DOMAIN byRefreshHash' = DOMAIN byRefreshHash \union {call[c].new}
         /\ DOMAIN owner' = DOMAIN owner \union {call[c].new}
         /\ owner'[call[c].new] = call[c].sid
<1>1. PICK dev \in Devices \union {NULL} :
        StoreCreateSession(call[c].sid,
          [user |-> call[c].user, org |-> call[c].org, family |-> call[c].sid,
           refreshHash |-> call[c].new, expiresAt |-> now + RefreshTtl,
           revoked |-> FALSE, device |-> dev])
  BY DEF CreateInsert
<1> DEFINE rec == [user |-> call[c].user, org |-> call[c].org, family |-> call[c].sid,
                   refreshHash |-> call[c].new, expiresAt |-> now + RefreshTtl,
                   revoked |-> FALSE, device |-> dev]
<1>2. call[c].pc = "insert" /\ owner' = MapSet(owner, call[c].new, call[c].sid)
  BY DEF CreateInsert, At
<1>3. /\ call[c].sid \in SessionIds \ DOMAIN sessions
      /\ call[c].new \in Tokens \ DOMAIN owner
  BY <1>2 DEF IInv, CallsOK, LocalsOK, CreatePending
<1>4. /\ rec.user = call[c].user /\ rec.org = call[c].org /\ rec.refreshHash = call[c].new
      /\ ~rec.revoked
  OBVIOUS
<1>5. StoreCreateSession(call[c].sid, rec)
  BY <1>1
<1> HIDE DEF rec
<1>6. /\ DOMAIN sessions' = DOMAIN sessions \union {call[c].sid}
      /\ sessions'[call[c].sid] = rec
      /\ \A s \in DOMAIN sessions : sessions'[s] = sessions[s]
      /\ DOMAIN byRefreshHash' = DOMAIN byRefreshHash \union {call[c].new}
      /\ UNCHANGED usedHashes
  BY <1>3, <1>4, <1>5 DEF StoreCreateSession, MapSet
<1>7. /\ DOMAIN owner' = DOMAIN owner \union {call[c].new}
      /\ owner'[call[c].new] = call[c].sid
      /\ \A t \in DOMAIN owner : owner'[t] = owner[t]
  BY <1>2, <1>3 DEF MapSet
<1> QED
  BY <1>2, <1>3, <1>4, <1>6, <1>7 DEF NothingUndone

\* Who rotates has a session, and the token that pays for it.
LEMMA Rotating ==
  ASSUME IInv, NEW c \in Calls, RefreshRotate(c)
  PROVE  /\ NothingUndone
         /\ call[c].pc = "marked" /\ call[c].sid \in DOMAIN sessions
         /\ call[c].tok \in DOMAIN owner /\ owner[call[c].tok] = call[c].sid
         /\ call[c].new \notin DOMAIN owner
         /\ DOMAIN sessions' = DOMAIN sessions
         /\ \A s \in DOMAIN sessions :
              /\ sessions'[s].revoked = sessions[s].revoked
              /\ sessions'[s].refreshHash =
                   IF s = call[c].sid THEN call[c].new ELSE sessions[s].refreshHash
         /\ UNCHANGED usedHashes
         /\ DOMAIN byRefreshHash' =
              (DOMAIN byRefreshHash \ {sessions[call[c].sid].refreshHash}) \union {call[c].new}
         /\ DOMAIN owner' = DOMAIN owner \union {call[c].new}
         /\ owner'[call[c].new] = call[c].sid
<1>1. /\ call[c].pc = "marked" /\ StoreRotateRefreshToken(call[c].sid, call[c].new)
      /\ owner' = MapSet(owner, call[c].new, call[c].sid)
  BY DEF RefreshRotate, At
<1>2. /\ call[c].sid \in DOMAIN sessions /\ call[c].tok \in DOMAIN owner
      /\ owner[call[c].tok] = call[c].sid /\ call[c].new \notin DOMAIN owner
  BY <1>1 DEF IInv, CallsOK, LocalsOK, RenewPending
<1>3. StoreOK
  BY DEF IInv, StoreOK
<1>4. PICK sid, new : sid = call[c].sid /\ new = call[c].new
  OBVIOUS
<1>5. /\ sid \in DOMAIN sessions /\ StoreRotateRefreshToken(sid, new) /\ new \notin DOMAIN owner
      /\ owner' = MapSet(owner, new, sid)
  BY <1>1, <1>2, <1>4
<1>6. /\ NothingUndone
      /\ DOMAIN sessions' = DOMAIN sessions
      /\ \A s \in DOMAIN sessions :
           /\ sessions'[s].revoked = sessions[s].revoked
           /\ sessions'[s].refreshHash = IF s = sid THEN new ELSE sessions[s].refreshHash
      /\ UNCHANGED usedHashes
      /\ DOMAIN byRefreshHash' =
           (DOMAIN byRefreshHash \ {sessions[sid].refreshHash}) \union {new}
      /\ DOMAIN owner' = DOMAIN owner \union {new} /\ owner'[new] = sid
  BY <1>3, <1>5, RotatingUndoesNothing
<1> QED
  BY <1>1, <1>2, <1>4, <1>6

\* A step opens a session, renews one, or revokes some, or leaves them alone.
LEMMA StoreMoves ==
  ASSUME IInv, [Next]_vars
  PROVE  \/ \E c \in Calls : CreateInsert(c) \/ RefreshRotate(c)
         \/ /\ \E S : StoreRevoke(S)
            /\ UNCHANGED <<owner, spends>>
         \/ /\ UNCHANGED <<sessions, byRefreshHash, owner, spends>>
            /\ DOMAIN usedHashes \subseteq DOMAIN usedHashes'
<1>1. ASSUME NEW c \in Calls, Serve(c)
      PROVE  \/ CreateInsert(c) \/ RefreshRotate(c)
             \/ /\ \E S : StoreRevoke(S)
                /\ UNCHANGED <<owner, spends>>
             \/ /\ UNCHANGED <<sessions, byRefreshHash, owner, spends>>
                /\ DOMAIN usedHashes \subseteq DOMAIN usedHashes'
  <2>1. CASE CreateEvictRevoke(c) \/ RefreshRevokeFamily(c) \/ RevokeStore(c)
    BY <2>1 DEF CreateEvictRevoke, RefreshRevokeFamily, RevokeStore,
                StoreRevokeAllSessionsInFamily, history
  <2>2. CASE RefreshMarkUsed(c)
    BY <2>2 DEF RefreshMarkUsed, StoreAddUsedRefreshHash, MapSet, history
  <2>3. CASE \/ CreateEvictRemove(c) \/ CreateRegister(c)
             \/ RefreshReplay(c) \/ RefreshNotUsed(c)
             \/ \E presented \in Devices \union {NULL} : RefreshLookup(c, presented)
             \/ RefreshReturn(c)
    BY <2>3 DEF CreateEvictRemove, CreateRegister, RefreshReplay, RefreshNotUsed,
                RefreshLookup, RefreshReturn, storeVars, history
  <2> QED
    BY <1>1, <2>1, <2>2, <2>3 DEF Serve
<1>2. ASSUME NEW user \in Users, RevokeAllSessionsForUser(user)
      PROVE  (\E S : StoreRevoke(S)) /\ UNCHANGED <<owner, spends>>
  BY <1>2 DEF RevokeAllSessionsForUser, StoreRevokeAllForUser, history
<1>3. CASE \/ \E c \in Calls : Request(c) \/ Abort(c)
           \/ \E user \in Users : RemoteLogout(user)
           \/ Tick \/ UNCHANGED vars
  BY <1>3 DEF Request, CreateCheck, RefreshBegin, RevokeBegin, Abort, RemoteLogout, Tick,
              vars, storeVars, history
<1> QED
  BY <1>1, <1>2, <1>3 DEF Next

LEMMA NoStepUndoes == ASSUME IInv, [Next]_vars PROVE NothingUndone
<1>1. StoreOK
  BY DEF IInv, StoreOK
<1>2. CASE \E c \in Calls : CreateInsert(c) \/ RefreshRotate(c)
  BY <1>2, Opening, Rotating
<1>3. ASSUME NEW S, StoreRevoke(S), UNCHANGED owner PROVE NothingUndone
  BY <1>1, <1>3, RevokingUndoesNothing
<1>4. CASE UNCHANGED <<sessions, owner>> /\ DOMAIN usedHashes \subseteq DOMAIN usedHashes'
  BY <1>4 DEF NothingUndone
<1> QED
  BY <1>2, <1>3, <1>4, StoreMoves

\* A request that goes on in the code keeps its locals, and touches no other's.
SameLocals(c) ==
  /\ call'[c].user = call[c].user /\ call'[c].org = call[c].org
  /\ call'[c].tok = call[c].tok /\ call'[c].sid = call[c].sid
  /\ call'[c].new = call[c].new /\ call'[c].liveAtStart = call[c].liveAtStart

LEMMA GoesOn ==
  ASSUME CallTypes, NEW c \in Calls, NEW pc, call' = [call EXCEPT ![c].pc = pc]
  PROVE  /\ call'[c].pc = pc /\ SameLocals(c)
         /\ \A d \in Calls \ {c} : call'[d] = call[d]
<1>1. call[c] \in CallRecords
  BY DEF CallTypes
<1>2. call'[c] = [call[c] EXCEPT !.pc = pc] /\ \A d \in Calls \ {c} : call'[d] = call[d]
  BY DEF CallTypes
<1> QED
  BY <1>1, <1>2 DEF CallRecords, SameLocals

LEMMA Ends ==
  ASSUME CallTypes, NEW c \in Calls, Finish(c)
  PROVE  call'[c] = Idle /\ call'[c].pc = "idle" /\ \A d \in Calls \ {c} : call'[d] = call[d]
BY IdleRecord DEF CallTypes, Finish

\* One request moves, or none.
LEMMA Turns ==
  ASSUME IInv, [Next]_vars
  PROVE  \/ UNCHANGED <<call, evict>>
         \/ \E c \in Calls :
              /\ Serve(c) \/ Request(c) \/ Abort(c)
              /\ \A d \in Calls \ {c} : call'[d] = call[d]
<1>0. CallTypes
  BY DEF IInv
<1>1. ASSUME NEW c \in Calls, Serve(c) \/ Request(c) \/ Abort(c)
      PROVE  \A d \in Calls \ {c} : call'[d] = call[d]
  <2>1. CASE \/ CreateEvictRevoke(c) \/ CreateInsert(c) \/ RefreshNotUsed(c)
             \/ RefreshMarkUsed(c) \/ RefreshRotate(c)
    BY <1>0, <2>1, GoesOn DEF CreateEvictRevoke, CreateInsert, RefreshNotUsed, RefreshMarkUsed,
                              RefreshRotate, Goto
  <2>2. CASE \/ CreateRegister(c) \/ RefreshRevokeFamily(c) \/ RefreshReturn(c)
             \/ RevokeStore(c) \/ Abort(c)
    BY <1>0, <2>2, Ends DEF CreateRegister, RefreshRevokeFamily, RefreshReturn, RevokeStore, Abort
  <2>3. CASE CreateEvictRemove(c)
    BY <1>0, <2>3 DEF CreateEvictRemove, CallTypes
  <2>4. CASE RefreshReplay(c)
    BY <1>0, <2>4 DEF RefreshReplay, CallTypes
  <2>5. CASE \E presented \in Devices \union {NULL} : RefreshLookup(c, presented)
    BY <1>0, <2>5 DEF RefreshLookup, Finish, CallTypes
  <2>6. CASE Request(c)
    BY <1>0, <2>6 DEF Request, CreateCheck, RefreshBegin, RevokeBegin, CallTypes
  <2> QED
    BY <1>1, <2>1, <2>2, <2>3, <2>4, <2>5, <2>6 DEF Serve
<1>2. CASE \/ \E user \in Users : RevokeAllSessionsForUser(user) \/ RemoteLogout(user)
           \/ Tick \/ UNCHANGED vars
  BY <1>2 DEF RevokeAllSessionsForUser, RemoteLogout, Tick, vars
<1> QED
  BY <1>1, <1>2 DEF Next

-----------------------------------------------------------------------------
(* A late request never renews *)

OwnerStored == \A t \in DOMAIN owner : owner[t] \in DOMAIN sessions

LEMMA OwnersStay ==
  ASSUME IInv, OwnerStored, [Next]_vars
  PROVE  OwnerStored'
<1>1. NothingUndone
  BY NoStepUndoes
<1>2. ASSUME NEW c \in Calls, CreateInsert(c) \/ RefreshRotate(c)
      PROVE  \A t \in DOMAIN owner' \ DOMAIN owner : owner'[t] \in DOMAIN sessions'
  BY <1>2, Opening, Rotating, ZenonT(60)
<1> QED
  BY <1>1, <1>2, StoreMoves DEF OwnerStored, NothingUndone

\* A session that was closed when the request began is never the one it renews.
InTime(r) ==
  /\ r.pc \in {"presented", "lookup"} /\ Active(owner[r.tok]) => owner[r.tok] \in r.liveAtStart
  /\ r.pc \in {"accepted", "marked", "rotated"} => r.sid \in r.liveAtStart

LateInv == IInv /\ OwnerStored /\ \A c \in Calls : InTime(call[c])

LEMMA InTimeStays ==
  ASSUME LateInv, NothingUndone, NEW d \in Calls, call'[d] = call[d]
  PROVE  InTime(call[d])'
<1>1. InTime(call[d]) /\ LocalsOK(call[d], owner, DOMAIN sessions) /\ OwnerStored
  BY DEF LateInv, IInv, CallsOK
<1>2. call[d].pc \in {"presented", "lookup"} =>
        /\ owner'[call[d].tok] = owner[call[d].tok]
        /\ Active(owner[call[d].tok])' => Active(owner[call[d].tok])
  BY <1>1 DEF LocalsOK, RenewPending, NothingUndone, Active, OwnerStored
<1> QED
  BY <1>1, <1>2 DEF InTime

LEMMA LateStep ==
  ASSUME LateInv, [Next]_vars
  PROVE  \A c \in Calls : InTime(call[c])'
<1>0. IInv /\ CallTypes /\ StoreOK /\ NothingUndone /\ OwnerStored
  BY NoStepUndoes DEF LateInv, IInv, StoreOK
<1>1. CASE UNCHANGED call
  BY <1>0, <1>1, InTimeStays
<1>2. ASSUME NEW c \in Calls, Serve(c) \/ Request(c) \/ Abort(c)
      PROVE  InTime(call[c])'
  <2>0. InTime(call[c]) /\ LocalsOK(call[c], owner, DOMAIN sessions)
    BY <1>0 DEF LateInv, IInv, CallsOK
  <2>1. CASE \/ CreateRegister(c) \/ RefreshRevokeFamily(c) \/ RefreshReturn(c)
             \/ RevokeStore(c) \/ Abort(c)
    <3>1. call'[c].pc = "idle"
      BY <1>0, <2>1, Ends DEF CreateRegister, RefreshRevokeFamily, RefreshReturn, RevokeStore, Abort
    <3> QED
      BY <3>1 DEF InTime
  <2>2. CASE CreateEvictRevoke(c) \/ CreateInsert(c)
    <3>1. call'[c].pc \in {"unregister", "register"}
      BY <1>0, <2>2, GoesOn DEF CreateEvictRevoke, CreateInsert, Goto
    <3> QED
      BY <3>1 DEF InTime
  <2>3. CASE CreateEvictRemove(c)
    <3>1. PICK pc \in {"evict", "insert"} : call' = [call EXCEPT ![c].pc = pc]
      BY <2>3 DEF CreateEvictRemove
    <3>2. call'[c].pc \in {"evict", "insert"}
      BY <1>0, <3>1, GoesOn
    <3> QED
      BY <3>2 DEF InTime
  <2>4. CASE RefreshNotUsed(c)
    <3>1. /\ call[c].pc = "presented" /\ call'[c].pc = "lookup" /\ SameLocals(c)
          /\ UNCHANGED <<sessions, owner>>
      BY <1>0, <2>4, GoesOn DEF RefreshNotUsed, Goto, At, storeVars, history
    <3> QED
      BY <2>0, <3>1 DEF InTime, SameLocals, Active
  <2>5. CASE RefreshMarkUsed(c) \/ RefreshRotate(c)
    <3>1. /\ call[c].pc \in {"accepted", "marked"} /\ SameLocals(c)
          /\ call'[c].pc \in {"marked", "rotated"}
      BY <1>0, <2>5, GoesOn DEF RefreshMarkUsed, RefreshRotate, Goto, At
    <3> QED
      BY <2>0, <3>1 DEF InTime, SameLocals
  <2>6. CASE RefreshReplay(c)
    <3>1. PICK sid : call' = [call EXCEPT ![c].pc = "replay", ![c].sid = sid]
      BY <2>6 DEF RefreshReplay
    <3>2. call'[c].pc = "replay"
      BY <1>0, <3>1 DEF CallTypes, CallRecords
    <3> QED
      BY <3>2 DEF InTime
  <2>7. CASE \E presented \in Devices \union {NULL} : RefreshLookup(c, presented)
    <3>1. PICK presented \in Devices \union {NULL} : RefreshLookup(c, presented)
      BY <2>7
    <3>2. CASE ~Acceptable(call[c].tok, presented)
      <4>1. call'[c].pc = "idle"
        BY <1>0, <3>1, <3>2, Ends DEF RefreshLookup
      <4> QED
        BY <4>1 DEF InTime
    <3>3. CASE Acceptable(call[c].tok, presented)
      <4> DEFINE sid == byRefreshHash[call[c].tok]
      <4>1. /\ call' = [call EXCEPT ![c].pc = "accepted", ![c].sid = sid]
            /\ call[c].pc = "lookup" /\ UNCHANGED <<sessions, owner>>
        BY <3>1, <3>3 DEF RefreshLookup, At, storeVars, history
      <4>2. /\ sid = owner[call[c].tok] /\ sid \in DOMAIN sessions /\ ~sessions[sid].revoked
        BY <1>0, <3>3 DEF Acceptable, StoreOK, StoreTypes, IndexOwned
      <4> HIDE DEF sid
      <4>3. call'[c].pc = "accepted" /\ call'[c].sid = sid /\ call'[c].liveAtStart = call[c].liveAtStart
        BY <1>0, <4>1 DEF CallTypes, CallRecords
      <4>4. sid \in call[c].liveAtStart
        BY <2>0, <4>1, <4>2 DEF InTime, Active
      <4> QED
        BY <4>3, <4>4 DEF InTime
    <3> QED
      BY <3>2, <3>3
  <2>8. CASE \E user \in Users, org \in Orgs \union {NoOrg} : CreateCheck(c, user, org)
    <3>0. PICK user \in Users, org \in Orgs \union {NoOrg} : CreateCheck(c, user, org)
      BY <2>8
    <3>1. PICK sid \in FreshSessionIds, new \in FreshTokens :
            call' = [call EXCEPT ![c] =
               [Idle EXCEPT !.pc = IF evict'[c] = <<>> THEN "insert" ELSE "evict",
                            !.user = user, !.org = org, !.sid = sid, !.new = new]]
      BY <3>0 DEF CreateCheck
    <3>2. call'[c].pc \in {"insert", "evict"}
      BY <1>0, <3>1 DEF CallTypes, Idle
    <3> QED
      BY <3>2 DEF InTime
  <2>9. CASE \E tok \in DOMAIN delivered : RefreshBegin(c, tok)
    <3>1. PICK tok \in DOMAIN delivered : RefreshBegin(c, tok)
      BY <2>9
    <3>2. PICK new \in FreshTokens :
            call' = [call EXCEPT ![c] =
                     [Idle EXCEPT !.pc = "presented", !.tok = tok, !.new = new,
                                  !.liveAtStart = {s \in DOMAIN sessions : Active(s)}]]
      BY <3>1 DEF RefreshBegin
    <3>3. /\ call'[c].pc = "presented" /\ call'[c].tok = tok
          /\ call'[c].liveAtStart = {s \in DOMAIN sessions : Active(s)}
      BY <1>0, <3>2 DEF CallTypes, Idle
    <3>4. tok \in DOMAIN owner /\ owner[tok] \in DOMAIN sessions
      BY <1>0 DEF StoreOK, StoreTypes, OwnerStored
    <3>5. UNCHANGED <<sessions, owner>>
      BY <3>1 DEF RefreshBegin, storeVars, history
    <3> QED
      BY <3>3, <3>4, <3>5 DEF InTime, Active
  <2>10. CASE \E sid \in DOMAIN sessions, hooked \in BOOLEAN : RevokeBegin(c, sid, hooked)
    <3>1. PICK sid : call' = [call EXCEPT ![c] = [Idle EXCEPT !.pc = "revoke", !.sid = sid]]
      BY <2>10 DEF RevokeBegin
    <3>2. call'[c].pc = "revoke"
      BY <1>0, <3>1 DEF CallTypes, Idle
    <3> QED
      BY <3>2 DEF InTime
  <2> QED
    BY <1>2, <2>1, <2>2, <2>3, <2>4, <2>5, <2>6, <2>7, <2>8, <2>9, <2>10 DEF Serve, Request
<1>3. ASSUME NEW c \in Calls, Serve(c) \/ Request(c) \/ Abort(c),
             \A d \in Calls \ {c} : call'[d] = call[d]
      PROVE  \A d \in Calls : InTime(call[d])'
  BY <1>0, <1>2, <1>3, InTimeStays
<1> QED
  BY <1>0, <1>1, <1>3, Turns

\* A refresh that begins after its session was revoked renews nothing, whatever
\* the renewals, revocations and aborts that overlap with it.
THEOREM LateRequestsRefused == Spec => []LateRequestNeverRenews
<1>1. Init => LateInv
  <2> SUFFICES ASSUME Init PROVE LateInv
    OBVIOUS
  <2>1. \A c \in Calls : call[c].pc = "idle"
    BY DEF Init, Idle
  <2>2. DOMAIN owner = {}
    BY DEF Init, EmptyMap
  <2> QED
    BY <2>1, <2>2, InitIInv DEF LateInv, OwnerStored, InTime
<1>2. LateInv /\ [Next]_vars => LateInv'
  <2> SUFFICES ASSUME LateInv, [Next]_vars PROVE LateInv'
    OBVIOUS
  <2>1. IInv /\ OwnerStored
    BY DEF LateInv
  <2>2. IInv' /\ OwnerStored'
    BY <2>1, NextIInv, OwnersStay
  <2> QED
    BY <2>2, LateStep DEF LateInv
<1>3. LateInv => LateRequestNeverRenews
  BY DEF LateInv, InTime, LateRequestNeverRenews
<1> QED
  BY <1>1, <1>2, <1>3, PTL DEF Spec

-----------------------------------------------------------------------------
(* A token is lost by a double spend only *)

\* One of the session's tokens paid for two renewals.
Doubled(s) == \E other \in DOMAIN spends : owner[other] = s /\ spends[other] > 1

\* A request that is about to renew holds the session's hash, or another request
\* has spent the token it holds.
Current(r) ==
  r.pc \in {"accepted", "marked"} =>
    \/ sessions[r.sid].refreshHash = r.tok
    \/ r.tok \in DOMAIN spends /\ spends[r.tok] > 0
    \/ Doubled(r.sid)

StillGood(tok) ==
  \/ tok \in DOMAIN byRefreshHash \union DOMAIN usedHashes
  \/ sessions[owner[tok]].revoked
  \/ Doubled(owner[tok])

\* A session holds a hash that was made for it.
HashOwned ==
  \A s \in DOMAIN sessions :
    sessions[s].refreshHash \in DOMAIN owner /\ owner[sessions[s].refreshHash] = s

LostInv ==
  /\ IInv
  /\ OwnerStored
  /\ HashOwned
  /\ DOMAIN spends \subseteq DOMAIN owner /\ \A t \in DOMAIN spends : spends[t] \in Nat
  /\ \A c \in Calls : Current(call[c]) /\ (call[c].pc = "marked" => call[c].tok \in DOMAIN usedHashes)
  /\ \A tok \in DOMAIN owner : StillGood(tok)

SpendsGrow ==
  /\ DOMAIN spends \subseteq DOMAIN spends'
  /\ \A t \in DOMAIN spends : spends'[t] >= spends[t] /\ spends'[t] \in Nat

LEMMA Spending ==
  ASSUME LostInv, NEW c \in Calls, RefreshRotate(c)
  PROVE  /\ SpendsGrow /\ DOMAIN spends' = DOMAIN spends \union {call[c].tok}
         /\ spends'[call[c].tok] \in Nat /\ spends'[call[c].tok] > 0
         /\ call[c].tok \in DOMAIN spends /\ spends[call[c].tok] > 0 => spends'[call[c].tok] > 1
<1>1. spends' = MapSet(spends, call[c].tok, SpendsOf(call[c].tok) + 1)
  BY DEF RefreshRotate
<1>2. /\ SpendsOf(call[c].tok) \in Nat
      /\ call[c].tok \in DOMAIN spends => SpendsOf(call[c].tok) = spends[call[c].tok]
  BY DEF SpendsOf, MapGet, LostInv
<1>3. /\ DOMAIN spends' = DOMAIN spends \union {call[c].tok}
      /\ spends'[call[c].tok] = SpendsOf(call[c].tok) + 1
      /\ \A t \in DOMAIN spends : t # call[c].tok => spends'[t] = spends[t]
  BY <1>1 DEF MapSet
<1>4. \A t \in DOMAIN spends : spends[t] \in Nat
  BY DEF LostInv
<1>5. \A n \in Nat : n + 1 \in Nat /\ n + 1 > 0 /\ n + 1 >= n /\ n >= n /\ (n > 0 => n + 1 > 1)
  OBVIOUS
<1>6. SpendsGrow
  <2> SUFFICES ASSUME NEW t \in DOMAIN spends
               PROVE  spends'[t] >= spends[t] /\ spends'[t] \in Nat
    BY <1>3 DEF SpendsGrow
  <2>1. CASE t = call[c].tok
    BY <1>2, <1>3, <1>4, <1>5, <2>1
  <2>2. CASE t # call[c].tok
    BY <1>3, <1>4, <1>5, <2>2
  <2> QED
    BY <2>1, <2>2
<1>7. /\ spends'[call[c].tok] \in Nat /\ spends'[call[c].tok] > 0
      /\ call[c].tok \in DOMAIN spends /\ spends[call[c].tok] > 0 => spends'[call[c].tok] > 1
  BY <1>2, <1>3, <1>5
<1> QED
  BY <1>3, <1>6, <1>7

LEMMA SpendsGrowAlways ==
  ASSUME LostInv, [Next]_vars
  PROVE  SpendsGrow /\ (DOMAIN spends \subseteq DOMAIN owner)'
<1>1. IInv /\ DOMAIN spends \subseteq DOMAIN owner /\ \A t \in DOMAIN spends : spends[t] \in Nat
  BY DEF LostInv
<1>2. ASSUME NEW c \in Calls, RefreshRotate(c)
      PROVE  SpendsGrow /\ (DOMAIN spends \subseteq DOMAIN owner)'
  <2>1. SpendsGrow /\ DOMAIN spends' = DOMAIN spends \union {call[c].tok}
    BY <1>2, Spending
  <2>2. call[c].tok \in DOMAIN owner /\ DOMAIN owner \subseteq DOMAIN owner'
    BY <1>1, <1>2, Rotating DEF NothingUndone
  <2> QED
    BY <1>1, <2>1, <2>2
<1>3. ASSUME NEW c \in Calls, CreateInsert(c)
      PROVE  SpendsGrow /\ (DOMAIN spends \subseteq DOMAIN owner)'
  <2>1. UNCHANGED spends
    BY <1>3 DEF CreateInsert
  <2>2. DOMAIN owner \subseteq DOMAIN owner'
    BY <1>1, <1>3, Opening DEF NothingUndone
  <2> QED
    BY <1>1, <2>1, <2>2 DEF SpendsGrow
<1>4. CASE UNCHANGED <<owner, spends>>
  BY <1>1, <1>4 DEF SpendsGrow
<1> QED
  BY <1>1, <1>2, <1>3, <1>4, StoreMoves

LEMMA DoubledStays ==
  ASSUME LostInv, NothingUndone, SpendsGrow, NEW s, Doubled(s)
  PROVE  Doubled(s)'
<1>1. PICK other \in DOMAIN spends : owner[other] = s /\ spends[other] > 1
  BY DEF Doubled
<1>2. /\ other \in DOMAIN owner /\ spends[other] \in Nat
      /\ spends'[other] \in Nat /\ spends'[other] >= spends[other] /\ other \in DOMAIN spends'
      /\ owner'[other] = owner[other]
  BY DEF LostInv, SpendsGrow, NothingUndone
<1>3. spends'[other] > 1
  BY <1>1, <1>2
<1> QED
  BY <1>1, <1>2, <1>3 DEF Doubled

\* What a rotation takes out of the index was spent for it, or is lost to a
\* double spend.
LEMMA RotationSpends ==
  ASSUME LostInv, NEW c \in Calls, RefreshRotate(c), SpendsGrow,
         NEW sid, sid = call[c].sid, NEW tok, tok = call[c].tok
  PROVE  \/ /\ sessions[sid].refreshHash = tok
            /\ tok \in DOMAIN spends' /\ spends'[tok] > 0
            /\ tok \in DOMAIN usedHashes
         \/ Doubled(sid)'
<1>1. call[c].pc = "marked" /\ owner[tok] = sid /\ tok \in DOMAIN owner /\ NothingUndone
  BY Rotating DEF LostInv
<1>2. Current(call[c]) /\ tok \in DOMAIN usedHashes
  BY <1>1 DEF LostInv
<1>3. CASE Doubled(sid)
  BY <1>1, <1>3, DoubledStays
<1>4. CASE tok \in DOMAIN spends /\ spends[tok] > 0
  <2>1. spends'[tok] > 1 /\ tok \in DOMAIN spends'
    BY <1>4, Spending
  <2>2. owner'[tok] = sid
    BY <1>1 DEF NothingUndone
  <2> QED
    BY <2>1, <2>2 DEF Doubled
<1>5. CASE sessions[sid].refreshHash = tok
  <2>1. spends'[tok] > 0 /\ tok \in DOMAIN spends'
    BY Spending
  <2> QED
    BY <1>2, <1>5, <2>1
<1> QED
  BY <1>1, <1>2, <1>3, <1>4, <1>5 DEF Current

LEMMA HashesStayOwned ==
  ASSUME IInv, HashOwned, [Next]_vars
  PROVE  HashOwned'
<1>0. StoreOK
  BY DEF IInv, StoreOK
<1>1. ASSUME NEW c \in Calls, CreateInsert(c) PROVE HashOwned'
  <2>1. /\ NothingUndone /\ DOMAIN sessions' = DOMAIN sessions \union {call[c].sid}
        /\ \A s \in DOMAIN sessions : sessions'[s] = sessions[s]
        /\ sessions'[call[c].sid].refreshHash = call[c].new
        /\ DOMAIN owner' = DOMAIN owner \union {call[c].new}
        /\ owner'[call[c].new] = call[c].sid
    BY <1>1, Opening
  <2> QED
    BY <2>1 DEF HashOwned, NothingUndone
<1>2. ASSUME NEW c \in Calls, RefreshRotate(c) PROVE HashOwned'
  <2>1. /\ NothingUndone /\ DOMAIN sessions' = DOMAIN sessions
        /\ \A s \in DOMAIN sessions :
             sessions'[s].refreshHash = IF s = call[c].sid THEN call[c].new ELSE sessions[s].refreshHash
        /\ DOMAIN owner' = DOMAIN owner \union {call[c].new}
        /\ owner'[call[c].new] = call[c].sid
    BY <1>2, Rotating
  <2> QED
    BY <2>1 DEF HashOwned, NothingUndone
<1>3. ASSUME NEW S, StoreRevoke(S), UNCHANGED owner PROVE HashOwned'
  BY <1>0, <1>3, RevokingUndoesNothing DEF HashOwned
<1>4. CASE UNCHANGED <<sessions, owner>>
  BY <1>4 DEF HashOwned
<1> QED
  BY <1>1, <1>2, <1>3, <1>4, StoreMoves

LEMMA GoodStays ==
  ASSUME LostInv, [Next]_vars, NothingUndone, SpendsGrow
  PROVE  \A tok \in DOMAIN owner' : StillGood(tok)'
<1>0. /\ IInv /\ StoreOK /\ HashOwned /\ OwnerStored /\ \A t \in DOMAIN owner : StillGood(t)
  BY DEF LostInv, IInv, StoreOK
<1>1. ASSUME NEW t \in DOMAIN owner, t \notin DOMAIN byRefreshHash \ DOMAIN byRefreshHash'
      PROVE  StillGood(t)'
  <2>1. owner'[t] = owner[t] /\ owner[t] \in DOMAIN sessions
    BY <1>0 DEF NothingUndone, OwnerStored
  <2>2. CASE t \in DOMAIN byRefreshHash \union DOMAIN usedHashes
    BY <1>1, <2>2 DEF StillGood, NothingUndone
  <2>3. CASE sessions[owner[t]].revoked
    BY <2>1, <2>3 DEF StillGood, NothingUndone
  <2>4. CASE Doubled(owner[t])
    BY <2>1, <2>4, DoubledStays DEF StillGood
  <2> QED
    BY <1>0, <2>2, <2>3, <2>4 DEF StillGood
<1>2. ASSUME NEW c \in Calls, CreateInsert(c) PROVE \A t \in DOMAIN owner' : StillGood(t)'
  <2>1. /\ DOMAIN owner' = DOMAIN owner \union {call[c].new}
        /\ DOMAIN byRefreshHash' = DOMAIN byRefreshHash \union {call[c].new}
    BY <1>0, <1>2, Opening
  <2>2. \A t \in DOMAIN owner' \ DOMAIN owner : StillGood(t)'
    BY <2>1 DEF StillGood
  <2> QED
    BY <1>1, <2>1, <2>2
<1>3. ASSUME NEW c \in Calls, RefreshRotate(c) PROVE \A t \in DOMAIN owner' : StillGood(t)'
  <2>1. PICK sid, tok, old : sid = call[c].sid /\ tok = call[c].tok /\ old = sessions[sid].refreshHash
    OBVIOUS
  <2>2. /\ DOMAIN owner' = DOMAIN owner \union {call[c].new}
        /\ DOMAIN byRefreshHash' = (DOMAIN byRefreshHash \ {old}) \union {call[c].new}
        /\ UNCHANGED usedHashes /\ sid \in DOMAIN sessions
    BY <1>0, <1>3, <2>1, Rotating
  <2>3. \A t \in DOMAIN owner' \ DOMAIN owner : StillGood(t)'
    BY <2>2 DEF StillGood
  <2>4. StillGood(old)'
    <3>1. owner'[old] = sid
      BY <1>0, <2>1, <2>2 DEF HashOwned, NothingUndone
    <3>2. old \in DOMAIN usedHashes' \/ Doubled(sid)'
      BY <1>3, <2>1, <2>2, RotationSpends
    <3> QED
      BY <3>1, <3>2 DEF StillGood, Doubled
  <2> QED
    BY <1>1, <2>2, <2>3, <2>4
<1>4. ASSUME NEW S, StoreRevoke(S), UNCHANGED owner PROVE \A t \in DOMAIN owner' : StillGood(t)'
  <2>1. ASSUME NEW t \in DOMAIN byRefreshHash \ DOMAIN byRefreshHash', t \in DOMAIN owner
        PROVE  StillGood(t)'
    <3>1. PICK s \in S \intersect DOMAIN sessions : t = sessions[s].refreshHash
      BY <1>0, <1>4, <2>1, RevokingUndoesNothing
    <3>2. owner'[t] = s /\ sessions'[s].revoked
      BY <1>0, <1>4, <3>1, RevokingUndoesNothing DEF HashOwned
    <3> QED
      BY <3>2 DEF StillGood
  <2> QED
    BY <1>1, <1>4, <2>1
<1>5. CASE UNCHANGED <<byRefreshHash, owner>>
  BY <1>1, <1>5
<1> QED
  BY <1>0, <1>2, <1>3, <1>4, <1>5, StoreMoves

\* A request that does not move keeps its claim.
LEMMA CurrentStays ==
  ASSUME LostInv, [Next]_vars, NothingUndone, SpendsGrow, NEW d \in Calls, SameLocals(d),
         call'[d].pc \in {"accepted", "marked"} => call[d].pc \in {"accepted", "marked"}
  PROVE  Current(call[d])'
<1> SUFFICES ASSUME call'[d].pc \in {"accepted", "marked"}
             PROVE  \/ sessions'[call'[d].sid].refreshHash = call'[d].tok
                    \/ call'[d].tok \in DOMAIN spends' /\ spends'[call'[d].tok] > 0
                    \/ Doubled(call[d].sid)'
  BY DEF Current
<1>0. /\ IInv /\ StoreOK /\ LocalsOK(call[d], owner, DOMAIN sessions) /\ Current(call[d])
      /\ call[d].pc \in {"accepted", "marked"}
  BY DEF LostInv, IInv, StoreOK, CallsOK
<1>1. PICK sid, tok : sid = call[d].sid /\ tok = call[d].tok
  OBVIOUS
<1>2. call'[d].sid = sid /\ call'[d].tok = tok /\ sid \in DOMAIN sessions /\ owner[tok] = sid
  BY <1>0, <1>1 DEF SameLocals, LocalsOK
<1>3. CASE Doubled(sid)
  <2>1. Doubled(sid)'
    BY <1>3, DoubledStays
  <2> QED
    BY <1>2, <2>1 DEF Doubled
<1>4. CASE tok \in DOMAIN spends /\ spends[tok] > 0
  <2>1. tok \in DOMAIN spends' /\ spends'[tok] >= spends[tok] /\ spends[tok] \in Nat /\ spends'[tok] \in Nat
    BY <1>4 DEF SpendsGrow, LostInv
  <2>2. spends'[tok] > 0
    BY <1>4, <2>1
  <2> QED
    BY <1>2, <2>1, <2>2
<1>5. CASE sessions[sid].refreshHash = tok
  <2>1. CASE sessions'[sid].refreshHash = tok
    BY <1>2, <2>1
  <2>2. ASSUME NEW c \in Calls, RefreshRotate(c), call[c].sid = sid
        PROVE  Doubled(sid)' \/ (tok \in DOMAIN spends' /\ spends'[tok] > 0)
    <3>1. PICK paid : paid = call[c].tok
      OBVIOUS
    <3> QED
      BY <1>5, <2>2, <3>1, RotationSpends
  <2>3. ASSUME NEW c \in Calls, RefreshRotate(c), call[c].sid # sid
        PROVE  sessions'[sid].refreshHash = tok
    BY <1>0, <1>2, <1>5, <2>3, Rotating
  <2>4. ASSUME NEW c \in Calls, CreateInsert(c) PROVE sessions'[sid].refreshHash = tok
    BY <1>0, <1>2, <1>5, <2>4, Opening
  <2>5. ASSUME NEW S, StoreRevoke(S), UNCHANGED owner PROVE sessions'[sid].refreshHash = tok
    BY <1>0, <1>2, <1>5, <2>5, RevokingUndoesNothing
  <2>6. ASSUME UNCHANGED sessions PROVE sessions'[sid].refreshHash = tok
    BY <1>5, <2>6
  <2>7. \/ sessions'[sid].refreshHash = tok
        \/ Doubled(sid)' \/ (tok \in DOMAIN spends' /\ spends'[tok] > 0)
    BY <1>0, <2>2, <2>3, <2>4, <2>5, <2>6, StoreMoves
  <2> QED
    BY <1>2, <2>7 DEF Doubled
<1> QED
  BY <1>0, <1>1, <1>3, <1>4, <1>5 DEF Current

LEMMA MarkedUsed ==
  ASSUME LostInv, [Next]_vars, NothingUndone, SpendsGrow, NEW c \in Calls,
         Serve(c) \/ Request(c) \/ Abort(c)
  PROVE  Current(call[c])' /\ (call'[c].pc = "marked" => call'[c].tok \in DOMAIN usedHashes')
<1>0. /\ IInv /\ CallTypes /\ StoreOK /\ Current(call[c])
      /\ call[c].pc = "marked" => call[c].tok \in DOMAIN usedHashes
  BY DEF LostInv, IInv, StoreOK
<1>1. ASSUME call'[c].pc \notin {"accepted", "marked"}
      PROVE  Current(call[c])' /\ (call'[c].pc = "marked" => call'[c].tok \in DOMAIN usedHashes')
  BY <1>1 DEF Current
<1>2. CASE \/ CreateRegister(c) \/ RefreshRevokeFamily(c) \/ RefreshReturn(c)
           \/ RevokeStore(c) \/ Abort(c)
  <2>1. call'[c].pc = "idle"
    BY <1>0, <1>2, Ends DEF CreateRegister, RefreshRevokeFamily, RefreshReturn, RevokeStore, Abort
  <2> QED
    BY <1>1, <2>1
<1>3. CASE CreateEvictRevoke(c) \/ CreateInsert(c) \/ RefreshNotUsed(c) \/ RefreshRotate(c)
  <2>1. call'[c].pc \in {"unregister", "register", "lookup", "rotated"}
    BY <1>0, <1>3, GoesOn DEF CreateEvictRevoke, CreateInsert, RefreshNotUsed, RefreshRotate, Goto
  <2> QED
    BY <1>1, <2>1
<1>4. CASE CreateEvictRemove(c)
  <2>1. PICK pc \in {"evict", "insert"} : call' = [call EXCEPT ![c].pc = pc]
    BY <1>4 DEF CreateEvictRemove
  <2>2. call'[c].pc = pc
    BY <1>0, <2>1, GoesOn
  <2> QED
    BY <1>1, <2>1, <2>2
<1>5. CASE RefreshMarkUsed(c)
  <2>1. /\ call[c].pc = "accepted" /\ SameLocals(c) /\ call'[c].pc = "marked"
        /\ DOMAIN usedHashes' = DOMAIN usedHashes \union {call[c].tok}
    BY <1>0, <1>5, GoesOn DEF RefreshMarkUsed, StoreAddUsedRefreshHash, MapSet, Goto, At
  <2>2. Current(call[c])'
    BY <2>1, CurrentStays
  <2> QED
    BY <2>1, <2>2 DEF SameLocals
<1>6. CASE RefreshReplay(c)
  <2>1. PICK sid : call' = [call EXCEPT ![c].pc = "replay", ![c].sid = sid]
    BY <1>6 DEF RefreshReplay
  <2>2. call'[c].pc = "replay"
    BY <1>0, <2>1 DEF CallTypes, CallRecords
  <2> QED
    BY <1>1, <2>2
<1>7. CASE \E presented \in Devices \union {NULL} : RefreshLookup(c, presented)
  <2>1. PICK presented \in Devices \union {NULL} : RefreshLookup(c, presented)
    BY <1>7
  <2>2. CASE ~Acceptable(call[c].tok, presented)
    <3>1. call'[c].pc = "idle"
      BY <1>0, <2>1, <2>2, Ends DEF RefreshLookup
    <3> QED
      BY <1>1, <3>1
  <2>3. CASE Acceptable(call[c].tok, presented)
    <3> DEFINE sid == byRefreshHash[call[c].tok]
    <3>1. /\ call' = [call EXCEPT ![c].pc = "accepted", ![c].sid = sid]
          /\ UNCHANGED <<sessions, owner>>
      BY <2>1, <2>3 DEF RefreshLookup, storeVars, history
    <3>2. sessions[sid].refreshHash = call[c].tok
      BY <1>0, <2>3 DEF Acceptable, StoreOK, IndexOwned
    <3> HIDE DEF sid
    <3>3. call'[c].pc = "accepted" /\ call'[c].sid = sid /\ call'[c].tok = call[c].tok
      BY <1>0, <3>1 DEF CallTypes, CallRecords
    <3> QED
      BY <3>1, <3>2, <3>3 DEF Current
  <2> QED
    BY <2>2, <2>3
<1>8. CASE Request(c)
  <2>1. CASE \E user \in Users, org \in Orgs \union {NoOrg} : CreateCheck(c, user, org)
    <3>0. PICK user \in Users, org \in Orgs \union {NoOrg} : CreateCheck(c, user, org)
      BY <2>1
    <3>1. PICK sid \in FreshSessionIds, new \in FreshTokens :
            call' = [call EXCEPT ![c] =
               [Idle EXCEPT !.pc = IF evict'[c] = <<>> THEN "insert" ELSE "evict",
                            !.user = user, !.org = org, !.sid = sid, !.new = new]]
      BY <3>0 DEF CreateCheck
    <3>2. call'[c].pc \in {"insert", "evict"}
      BY <1>0, <3>1 DEF CallTypes, Idle
    <3> QED
      BY <1>1, <3>2
  <2>2. CASE \E tok \in DOMAIN delivered : RefreshBegin(c, tok)
    <3>1. call'[c].pc = "presented"
      BY <1>0, <2>2 DEF RefreshBegin, CallTypes, Idle
    <3> QED
      BY <1>1, <3>1
  <2>3. CASE \E sid \in DOMAIN sessions, hooked \in BOOLEAN : RevokeBegin(c, sid, hooked)
    <3>1. call'[c].pc = "revoke"
      BY <1>0, <2>3 DEF RevokeBegin, CallTypes, Idle
    <3> QED
      BY <1>1, <3>1
  <2> QED
    BY <1>8, <2>1, <2>2, <2>3 DEF Request
<1> QED
  BY <1>2, <1>3, <1>4, <1>5, <1>6, <1>7, <1>8 DEF Serve

LEMMA LostStep ==
  ASSUME LostInv, [Next]_vars
  PROVE  LostInv'
<1>1. IInv /\ OwnerStored /\ HashOwned
  BY DEF LostInv
<1>2. NothingUndone /\ SpendsGrow /\ (DOMAIN spends \subseteq DOMAIN owner)'
  BY <1>1, NoStepUndoes, SpendsGrowAlways
<1>3. IInv' /\ OwnerStored' /\ HashOwned'
  BY <1>1, NextIInv, OwnersStay, HashesStayOwned
<1>4. \A tok \in DOMAIN owner' : StillGood(tok)'
  BY <1>2, GoodStays
<1>5. ASSUME NEW d \in Calls, call'[d] = call[d]
      PROVE  Current(call[d])' /\ (call'[d].pc = "marked" => call'[d].tok \in DOMAIN usedHashes')
  <2>1. SameLocals(d)
    BY <1>5 DEF SameLocals
  <2>2. Current(call[d])'
    BY <1>2, <1>5, <2>1, CurrentStays
  <2>3. call[d].pc = "marked" => call[d].tok \in DOMAIN usedHashes
    BY DEF LostInv
  <2> QED
    BY <1>2, <1>5, <2>2, <2>3 DEF NothingUndone
<1>6. \A d \in Calls :
        Current(call[d])' /\ (call'[d].pc = "marked" => call'[d].tok \in DOMAIN usedHashes')
  <2>1. CASE UNCHANGED call
    BY <1>5, <2>1
  <2>2. ASSUME NEW c \in Calls, Serve(c) \/ Request(c) \/ Abort(c),
               \A d \in Calls \ {c} : call'[d] = call[d], NEW d \in Calls
        PROVE  Current(call[d])' /\ (call'[d].pc = "marked" => call'[d].tok \in DOMAIN usedHashes')
    <3>1. CASE d = c
      BY <1>2, <2>2, <3>1, MarkedUsed
    <3>2. CASE d # c
      BY <1>5, <2>2, <3>2
    <3> QED
      BY <3>1, <3>2
  <2> QED
    BY <1>1, <2>1, <2>2, Turns
<1>7. \A t \in DOMAIN spends' : spends'[t] \in Nat
  <2>1. ASSUME NEW c \in Calls, RefreshRotate(c) PROVE \A t \in DOMAIN spends' : spends'[t] \in Nat
    <3>1. /\ DOMAIN spends' = DOMAIN spends \union {call[c].tok} /\ spends'[call[c].tok] \in Nat
      BY <2>1, Spending
    <3> QED
      BY <1>2, <3>1 DEF SpendsGrow
  <2>2. ASSUME UNCHANGED spends PROVE \A t \in DOMAIN spends' : spends'[t] \in Nat
    BY <2>2 DEF LostInv
  <2>3. ASSUME NEW c \in Calls, CreateInsert(c) PROVE UNCHANGED spends
    BY <2>3 DEF CreateInsert
  <2> QED
    BY <1>1, <2>1, <2>2, <2>3, StoreMoves
<1> QED
  BY <1>2, <1>3, <1>4, <1>6, <1>7 DEF LostInv

\* A token that a client holds works, unless it was spent or its session revoked,
\* or one token of the session paid for two renewals: nothing else loses it.
THEOREM TokensNotLost == Spec => []LostOnlyByDoubleSpend
<1>1. Init => LostInv
  <2> SUFFICES ASSUME Init PROVE LostInv
    OBVIOUS
  <2>1. \A c \in Calls : call[c].pc = "idle"
    BY DEF Init, Idle
  <2>2. DOMAIN owner = {} /\ DOMAIN spends = {} /\ DOMAIN sessions = {}
    BY DEF Init, EmptyMap, StoreInit
  <2> QED
    BY <2>1, <2>2, InitIInv DEF LostInv, OwnerStored, HashOwned, Current
<1>2. LostInv /\ [Next]_vars => LostInv'
  BY LostStep
<1>3. LostInv => LostOnlyByDoubleSpend
  <2>1. LostInv => \A tok \in DOMAIN delivered : StillGood(tok)
    BY DEF LostInv, IInv, StoreTypes
  <2> QED
    BY <2>1 DEF LostOnlyByDoubleSpend, StillGood, Doubled
<1> QED
  BY <1>1, <1>2, <1>3, PTL DEF Spec

-----------------------------------------------------------------------------
(* The registry counts every session that can be renewed *)

\* Neither a dying request nor a default remote logout takes a session off
\* the registry that the store keeps.
InStep == Features \intersect {"abort", "logout"} = {}

RegistryEntries == [sid : SessionIds, user : Users, org : Orgs \union {NoOrg}]

\* Session sid is stored, for that user and organization.
StoredFor(sid, user, org) ==
  sid \in DOMAIN sessions /\ sessions[sid].user = user /\ sessions[sid].org = org

RegistryOK ==
  /\ registry \in Seq(RegistryEntries)
  /\ Distinct(registry)
  /\ \A e \in Entered(registry) : StoredFor(e.sid, e.user, e.org)

\* What is left to evict was registered once; what is being unregistered is
\* revoked; what is being registered is stored.
EvictionOK(c) ==
  /\ evict[c] \in Seq(SessionIds)
  /\ Members(evict[c]) \subseteq DOMAIN sessions
  /\ call[c].pc \in {"evict", "unregister"} => evict[c] # <<>>
  /\ call[c].pc = "unregister" => sessions[Head(evict[c])].revoked
  /\ call[c].pc = "register" => StoredFor(call[c].sid, call[c].user, call[c].org)

CountedInv ==
  /\ IInv
  /\ RegistryOK
  /\ evict \in [Calls -> Seq(SessionIds)]
  /\ \A c \in Calls : EvictionOK(c)
  /\ SessionsAccountedFor

LEMMA StoredStays ==
  ASSUME NothingUndone, NEW sid, NEW user, NEW org, StoredFor(sid, user, org)
  PROVE  StoredFor(sid, user, org)'
BY DEF NothingUndone, StoredFor

\* Only an evicting request has anything left to evict.
LEMMA EvictionStays ==
  ASSUME IInv, NothingUndone, NEW d \in Calls, EvictionOK(d),
         call'[d] = call[d], evict'[d] = evict[d]
  PROVE  EvictionOK(d)'
<1>1. PICK sid, user, org : sid = call[d].sid /\ user = call[d].user /\ org = call[d].org
  OBVIOUS
<1>2. call[d].pc = "register" => StoredFor(sid, user, org) /\ StoredFor(sid, user, org)'
  BY <1>1, StoredStays DEF EvictionOK
<1>3. call'[d].pc = "register" => StoredFor(call[d].sid, call[d].user, call[d].org)'
  BY <1>1, <1>2 DEF StoredFor
<1>4. PICK list : list = evict[d]
  OBVIOUS
<1>5. /\ list \in Seq(SessionIds) /\ Members(list) \subseteq DOMAIN sessions
      /\ call[d].pc \in {"evict", "unregister"} => list # <<>>
      /\ call[d].pc = "unregister" => sessions[Head(list)].revoked
  BY <1>4 DEF EvictionOK
<1>6. list # <<>> => Head(list) \in Members(list)
  BY <1>5 DEF Members
<1>7. call[d].pc = "unregister" => sessions'[Head(list)].revoked
  BY <1>5, <1>6 DEF NothingUndone
<1> QED
  BY <1>3, <1>4, <1>5, <1>7 DEF EvictionOK, NothingUndone

\* A request that moves touches its own list only.
LEMMA EvictTurns ==
  ASSUME CountedInv, InStep, NEW c \in Calls, Serve(c) \/ Request(c) \/ Abort(c)
  PROVE  \E list \in Seq(SessionIds) : evict' = [evict EXCEPT ![c] = list]
<1>0. evict \in [Calls -> Seq(SessionIds)] /\ RegistryOK /\ IInv /\ EvictionOK(c)
  BY DEF CountedInv
<1>1. CASE UNCHANGED evict
  <2>1. evict' = [evict EXCEPT ![c] = evict[c]] /\ evict[c] \in Seq(SessionIds)
    BY <1>0, <1>1
  <2> QED
    BY <2>1
<1>2. CASE Finish(c)
  <2>1. <<>> \in Seq(SessionIds) /\ evict' = [evict EXCEPT ![c] = <<>>]
    BY <1>2 DEF Finish
  <2> QED
    BY <2>1
<1>3. CASE CreateEvictRemove(c)
  <2>1. PICK list \in Seq(SessionIds) : list = evict[c] /\ list # <<>>
    BY <1>0, <1>3 DEF CreateEvictRemove, At, EvictionOK
  <2>2. evict' = [evict EXCEPT ![c] = Tail(list)] /\ Tail(list) \in Seq(SessionIds)
    BY <1>3, <2>1 DEF CreateEvictRemove
  <2> QED
    BY <2>1, <2>2
<1>4. ASSUME NEW user \in Users, NEW org \in Orgs \union {NoOrg}, CreateCheck(c, user, org)
      PROVE  \E list \in Seq(SessionIds) : evict' = [evict EXCEPT ![c] = list]
  <2>1. EvictSessionIds(registry, user, org) \in Seq(Registered(registry))
    BY <1>0, Evicting DEF RegistryOK
  <2>2. Registered(registry) \subseteq SessionIds
    <3>1. Registered(registry) \subseteq DOMAIN sessions
      BY <1>0 DEF RegistryOK, Registered, Entered, StoredFor
    <3> QED
      BY <1>0, <3>1 DEF IInv, StoreTypes
  <2>3. EvictSessionIds(registry, user, org) \in Seq(SessionIds)
    BY <2>1, <2>2
  <2>4. evict' = [evict EXCEPT ![c] = EvictSessionIds(registry, user, org)]
    BY <1>4 DEF CreateCheck
  <2> QED
    BY <2>3, <2>4
<1>5. CASE Request(c) /\ ~\E user \in Users, org \in Orgs \union {NoOrg} : CreateCheck(c, user, org)
  BY <1>1, <1>5 DEF Request, RefreshBegin, RevokeBegin
<1>6. CASE Request(c)
  BY <1>4, <1>5, <1>6
<1>7. CASE Serve(c)
  <2>1. CASE \/ CreateEvictRevoke(c) \/ CreateInsert(c) \/ RefreshNotUsed(c)
             \/ RefreshMarkUsed(c) \/ RefreshRotate(c) \/ RefreshReplay(c)
    BY <1>1, <2>1 DEF CreateEvictRevoke, CreateInsert, RefreshNotUsed, RefreshMarkUsed,
                      RefreshRotate, RefreshReplay, Goto
  <2>2. CASE \/ CreateRegister(c) \/ RefreshRevokeFamily(c) \/ RefreshReturn(c) \/ RevokeStore(c)
    BY <1>2, <2>2 DEF CreateRegister, RefreshRevokeFamily, RefreshReturn, RevokeStore
  <2>3. CASE \E presented \in Devices \union {NULL} : RefreshLookup(c, presented)
    BY <1>1, <1>2, <2>3 DEF RefreshLookup
  <2> QED
    BY <1>3, <1>7, <2>1, <2>2, <2>3 DEF Serve
<1>8. ~Abort(c)
  BY DEF Abort, InStep
<1> QED
  BY <1>6, <1>7, <1>8

LEMMA EvictionMoves ==
  ASSUME CountedInv, InStep, NothingUndone, NEW c \in Calls, Serve(c) \/ Request(c)
  PROVE  EvictionOK(c)'
<1>0. /\ evict \in [Calls -> Seq(SessionIds)] /\ RegistryOK /\ IInv /\ EvictionOK(c) /\ CallTypes
      /\ StoreOK
  BY DEF CountedInv, IInv, StoreOK
<1>1. evict'[c] \in Seq(SessionIds)
  BY <1>0, EvictTurns
<1>2. ASSUME evict'[c] = evict[c], call'[c].pc \notin {"evict", "unregister", "register"}
      PROVE  EvictionOK(c)'
  BY <1>0, <1>1, <1>2 DEF EvictionOK, NothingUndone
<1>3. ASSUME evict'[c] = <<>>, call'[c].pc \notin {"evict", "unregister", "register"}
      PROVE  EvictionOK(c)'
  BY <1>0, <1>1, <1>3 DEF EvictionOK, Members
<1>4. CASE \/ CreateRegister(c) \/ RefreshRevokeFamily(c) \/ RefreshReturn(c) \/ RevokeStore(c)
  <2>1. Finish(c)
    BY <1>4 DEF CreateRegister, RefreshRevokeFamily, RefreshReturn, RevokeStore
  <2>2. call'[c].pc = "idle" /\ evict'[c] = <<>>
    BY <1>0, <2>1, Ends DEF Finish
  <2> QED
    BY <1>3, <2>2
<1>5. CASE RefreshNotUsed(c) \/ RefreshMarkUsed(c) \/ RefreshRotate(c)
  <2>1. call'[c].pc \in {"lookup", "marked", "rotated"} /\ evict' = evict
    BY <1>0, <1>5, GoesOn DEF RefreshNotUsed, RefreshMarkUsed, RefreshRotate, Goto
  <2> QED
    BY <1>2, <2>1
<1>6. CASE RefreshReplay(c)
  <2>1. evict' = evict /\ call'[c].pc = "replay"
    BY <1>0, <1>6 DEF RefreshReplay, CallTypes, CallRecords
  <2> QED
    BY <1>2, <2>1
<1>7. CASE \E presented \in Devices \union {NULL} : RefreshLookup(c, presented)
  <2>1. \/ evict' = evict /\ call'[c].pc = "accepted"
        \/ Finish(c)
    BY <1>0, <1>7 DEF RefreshLookup, CallTypes, CallRecords
  <2>2. Finish(c) => call'[c].pc = "idle" /\ evict'[c] = <<>>
    BY <1>0, Ends DEF Finish
  <2> QED
    BY <1>2, <1>3, <2>1, <2>2
<1>8. CASE CreateEvictRevoke(c)
  <2>1. /\ call[c].pc = "evict" /\ call'[c].pc = "unregister" /\ evict' = evict
        /\ StoreRevoke({Head(evict[c])}) /\ UNCHANGED owner
    BY <1>0, <1>8, GoesOn DEF CreateEvictRevoke, Goto, At, history
  <2>2. PICK sid : sid = Head(evict[c])
    OBVIOUS
  <2>3. evict[c] \in Seq(SessionIds) /\ evict[c] # <<>> /\ Members(evict[c]) \subseteq DOMAIN sessions
    BY <1>0, <2>1 DEF EvictionOK
  <2>4. sid \in DOMAIN sessions
    BY <2>2, <2>3 DEF Members
  <2>5. sessions'[sid].revoked /\ DOMAIN sessions' = DOMAIN sessions
    BY <1>0, <2>1, <2>2, <2>4, RevokingUndoesNothing
  <2> QED
    BY <2>1, <2>2, <2>3, <2>5 DEF EvictionOK
<1>9. CASE CreateEvictRemove(c)
  <2>1. PICK list \in Seq(SessionIds) : list = evict[c] /\ list # <<>> /\ Members(list) \subseteq DOMAIN sessions
    BY <1>0, <1>9 DEF CreateEvictRemove, At, EvictionOK
  <2>2. evict'[c] = Tail(list) /\ call' = [call EXCEPT ![c].pc = IF Len(list) > 1 THEN "evict" ELSE "insert"]
    BY <1>0, <1>9, <2>1 DEF CreateEvictRemove
  <2>3. Members(Tail(list)) \subseteq Members(list) /\ (Len(list) > 1 => Tail(list) # <<>>)
    <3>1. /\ Tail(list) \in Seq(SessionIds) /\ Len(Tail(list)) = Len(list) - 1 /\ Len(list) \in Nat
          /\ DOMAIN list = 1 .. Len(list) /\ DOMAIN Tail(list) = 1 .. Len(list) - 1
      BY <2>1
    <3>2. \A i \in DOMAIN Tail(list) : Tail(list)[i] = list[i + 1] /\ i + 1 \in DOMAIN list
      BY <2>1, <3>1
    <3>3. Members(Tail(list)) \subseteq Members(list)
      BY <3>2 DEF Members
    <3>4. Len(<<>>) = 0
      OBVIOUS
    <3>5. Len(list) > 1 => Len(Tail(list)) # 0
      BY <3>1
    <3>6. Len(list) > 1 => Tail(list) # <<>>
      BY <3>4, <3>5, Zenon
    <3> QED
      BY <3>3, <3>6
  <2>4. call'[c].pc = IF Len(list) > 1 THEN "evict" ELSE "insert"
    BY <1>0, <2>2, GoesOn
  <2> QED
    BY <1>1, <2>1, <2>2, <2>3, <2>4 DEF EvictionOK, NothingUndone
<1>10. CASE CreateInsert(c)
  <2>1. /\ call[c].pc = "insert" /\ call'[c].pc = "register" /\ evict' = evict /\ SameLocals(c)
    BY <1>0, <1>10, GoesOn DEF CreateInsert, Goto, At
  <2>2. StoredFor(call[c].sid, call[c].user, call[c].org)'
    BY <1>0, <1>10, <2>1, Opening DEF StoredFor, SameLocals
  <2>3. Members(evict'[c]) \subseteq DOMAIN sessions'
    BY <1>0, <2>1 DEF EvictionOK, NothingUndone
  <2> QED
    BY <1>1, <2>1, <2>2, <2>3 DEF EvictionOK
<1>11. ASSUME NEW user \in Users, NEW org \in Orgs \union {NoOrg}, CreateCheck(c, user, org)
       PROVE  EvictionOK(c)'
  <2>1. /\ Members(EvictSessionIds(registry, user, org)) = Evicted(registry, user, org)
        /\ Evicted(registry, user, org) \subseteq Registered(registry)
    BY <1>0, Evicting DEF RegistryOK
  <2>2. Registered(registry) \subseteq DOMAIN sessions
    BY <1>0 DEF RegistryOK, Registered, Entered, StoredFor
  <2>3. evict'[c] = EvictSessionIds(registry, user, org) /\ UNCHANGED sessions
    BY <1>0, <1>11 DEF CreateCheck, storeVars
  <2>4. PICK sid \in FreshSessionIds, new \in FreshTokens :
          call' = [call EXCEPT ![c] =
             [Idle EXCEPT !.pc = IF evict'[c] = <<>> THEN "insert" ELSE "evict",
                          !.user = user, !.org = org, !.sid = sid, !.new = new]]
    BY <1>11 DEF CreateCheck
  <2>5. call'[c].pc = IF evict'[c] = <<>> THEN "insert" ELSE "evict"
    BY <1>0, <2>4 DEF CallTypes, Idle
  <2> QED
    BY <1>1, <2>1, <2>2, <2>3, <2>5 DEF EvictionOK
<1>12. CASE \/ \E tok \in DOMAIN delivered : RefreshBegin(c, tok)
            \/ \E sid \in DOMAIN sessions, hooked \in BOOLEAN : RevokeBegin(c, sid, hooked)
  <2>1. evict' = evict /\ call'[c].pc \in {"presented", "revoke"}
    BY <1>0, <1>12 DEF RefreshBegin, RevokeBegin, CallTypes, Idle
  <2> QED
    BY <1>2, <2>1
<1> QED
  BY <1>4, <1>5, <1>6, <1>7, <1>8, <1>9, <1>10, <1>11, <1>12 DEF Serve, Request

\* Who changes the registry.
LEMMA RegistryMoves ==
  ASSUME InStep, [Next]_vars
  PROVE  \/ UNCHANGED registry
         \/ \E c \in Calls : CreateEvictRemove(c) \/ CreateRegister(c)
         \/ \E c \in Calls, sid \in DOMAIN sessions : RevokeBegin(c, sid, TRUE)
<1>1. ASSUME NEW c \in Calls, Serve(c)
      PROVE  UNCHANGED registry \/ CreateEvictRemove(c) \/ CreateRegister(c)
  BY <1>1 DEF Serve, CreateEvictRevoke, CreateInsert, RefreshReplay, RefreshRevokeFamily,
              RefreshNotUsed, RefreshLookup, RefreshMarkUsed, RefreshRotate, RefreshReturn,
              RevokeStore
<1>2. ASSUME NEW c \in Calls, Request(c)
      PROVE  UNCHANGED registry \/ \E sid \in DOMAIN sessions : RevokeBegin(c, sid, TRUE)
  BY <1>2 DEF Request, CreateCheck, RefreshBegin, RevokeBegin
<1>3. CASE \/ \E c \in Calls : Abort(c)
           \/ \E user \in Users : RevokeAllSessionsForUser(user) \/ RemoteLogout(user)
           \/ Tick \/ UNCHANGED vars
  BY <1>3 DEF Abort, RevokeAllSessionsForUser, RemoteLogout, InStep, Tick, vars
<1> QED
  BY <1>1, <1>2, <1>3 DEF Next

LEMMA RegistryStays ==
  ASSUME CountedInv, InStep, NothingUndone, [Next]_vars
  PROVE  RegistryOK'
<1>0. RegistryOK /\ IInv
  BY DEF CountedInv
<1>1. ASSUME registry' \in Seq(RegistryEntries), Distinct(registry'),
             \A e \in Entered(registry') : StoredFor(e.sid, e.user, e.org)
      PROVE  RegistryOK'
  <2>1. ASSUME NEW e \in Entered(registry') PROVE StoredFor(e.sid, e.user, e.org)'
    <3>1. PICK sid, user, org : sid = e.sid /\ user = e.user /\ org = e.org
      OBVIOUS
    <3>2. StoredFor(sid, user, org)'
      BY <1>1, <3>1, StoredStays
    <3> QED
      BY <3>1, <3>2
  <2> QED
    BY <1>1, <2>1 DEF RegistryOK, Distinct, Entered
<1>2. ASSUME NEW sids, registry' = RemoveSessions(registry, sids)
      PROVE  RegistryOK'
  <2>1. /\ registry' \in Seq(RegistryEntries) /\ Distinct(registry')
        /\ Entered(registry') = Without(Entered(registry), sids)
    BY <1>0, <1>2, Removing DEF RegistryOK
  <2>2. \A e \in Entered(registry') : StoredFor(e.sid, e.user, e.org)
    BY <1>0, <2>1 DEF RegistryOK, Without
  <2> QED
    BY <1>1, <2>1, <2>2
<1>3. ASSUME NEW c \in Calls, CreateRegister(c)
      PROVE  RegistryOK'
  <2>1. PICK sid, user, org : sid = call[c].sid /\ user = call[c].user /\ org = call[c].org
    OBVIOUS
  <2>2. registry' = RegisterSession(registry, sid, user, org) /\ call[c].pc = "register"
    BY <1>3, <2>1 DEF CreateRegister, At
  <2>3. /\ [sid |-> sid, user |-> user, org |-> org] \in RegistryEntries
        /\ StoredFor(sid, user, org)
    BY <1>0, <2>1, <2>2 DEF CountedInv, EvictionOK, IInv, CallsOK, LocalsOK, RegistryEntries
  <2>4. /\ registry' \in Seq(RegistryEntries) /\ Distinct(registry')
        /\ Entered(registry') =
             {e \in Entered(registry) : e.sid # sid} \union {[sid |-> sid, user |-> user, org |-> org]}
    BY <1>0, <2>2, <2>3, Registering DEF RegistryOK
  <2>5. \A e \in Entered(registry') : StoredFor(e.sid, e.user, e.org)
    BY <1>0, <2>3, <2>4 DEF RegistryOK
  <2> QED
    BY <1>1, <2>4, <2>5
<1>4. CASE UNCHANGED registry
  BY <1>0, <1>1, <1>4 DEF RegistryOK
<1>5. ASSUME NEW c \in Calls, NEW sid, CreateEvictRemove(c) \/ RevokeBegin(c, sid, TRUE)
      PROVE  RegistryOK'
  BY <1>2, <1>5 DEF CreateEvictRemove, RevokeBegin
<1> QED
  BY <1>3, <1>4, <1>5, RegistryMoves

\* A session in use after a step was in use before it, or is the one it opens.
LEMMA InUseBefore ==
  ASSUME IInv, [Next]_vars, NEW s \in DOMAIN sessions', Active(s)'
  PROVE  \/ Active(s)
         \/ \E c \in Calls : CreateInsert(c) /\ s = call[c].sid
<1>0. NothingUndone
  BY NoStepUndoes
<1>1. CASE s \in DOMAIN sessions
  BY <1>0, <1>1 DEF NothingUndone, Active
<1>2. CASE s \notin DOMAIN sessions
  <2>1. ASSUME NEW c \in Calls, CreateInsert(c) PROVE s = call[c].sid
    BY <1>2, <2>1, Opening
  <2>2. ASSUME NEW c \in Calls, RefreshRotate(c) PROVE FALSE
    BY <1>2, <2>2, Rotating
  <2>3. ASSUME NEW S, StoreRevoke(S) PROVE FALSE
    BY <1>2, <2>3 DEF StoreRevoke
  <2>4. ASSUME UNCHANGED sessions PROVE FALSE
    BY <1>2, <2>4
  <2> QED
    BY <2>1, <2>2, <2>3, <2>4, StoreMoves
<1> QED
  BY <1>1, <1>2

LEMMA CountedStep ==
  ASSUME CountedInv, InStep, NothingUndone, [Next]_vars
  PROVE  SessionsAccountedFor'
<1> SUFFICES ASSUME NEW s \in DOMAIN sessions', Active(s)'
             PROVE  \/ s \in Registered(registry')
                    \/ \E c \in Calls : call'[c].pc \in {"register", "revoke"} /\ call'[c].sid = s
  BY DEF SessionsAccountedFor, At
<1>0. RegistryOK /\ IInv /\ SessionsAccountedFor /\ CallTypes /\ StoreOK
  BY DEF CountedInv, IInv, StoreOK
<1>1. ASSUME NEW c \in Calls, CreateInsert(c), s = call[c].sid
      PROVE  \E d \in Calls : call'[d].pc = "register" /\ call'[d].sid = s
  <2>1. call'[c].pc = "register" /\ call'[c].sid = s
    BY <1>0, <1>1, GoesOn DEF CreateInsert, Goto, SameLocals
  <2> QED
    BY <2>1
<1>2. ASSUME NEW S, StoreRevoke(S), UNCHANGED owner, s \in S PROVE FALSE
  BY <1>0, <1>2, RevokingUndoesNothing DEF Active
<1>3. ASSUME s \in Registered(registry), s \notin Registered(registry')
      PROVE  \E c \in Calls : call'[c].pc = "revoke" /\ call'[c].sid = s
  <2>1. ASSUME NEW c \in Calls, CreateEvictRemove(c) PROVE FALSE
    <3>1. registry' = RemoveSessions(registry, {Head(evict[c])}) /\ sessions' = sessions /\ call[c].pc = "unregister"
      BY <2>1 DEF CreateEvictRemove, At, storeVars
    <3>2. Registered(registry') = Registered(registry) \ {Head(evict[c])}
      BY <1>0, <3>1, Removing DEF RegistryOK
    <3>3. s = Head(evict[c]) /\ sessions[s].revoked
      BY <1>3, <3>1, <3>2 DEF CountedInv, EvictionOK
    <3> QED
      BY <3>1, <3>3 DEF Active
  <2>2. ASSUME NEW c \in Calls, CreateRegister(c) PROVE FALSE
    <3>1. PICK sid, user, org : sid = call[c].sid /\ user = call[c].user /\ org = call[c].org
      OBVIOUS
    <3>2. registry' = RegisterSession(registry, sid, user, org) /\ call[c].pc = "register"
      BY <2>2, <3>1 DEF CreateRegister, At
    <3>3. [sid |-> sid, user |-> user, org |-> org] \in RegistryEntries
      BY <1>0, <3>1, <3>2 DEF IInv, CallsOK, LocalsOK, RegistryEntries
    <3>4. Registered(registry') = Registered(registry) \union {sid}
      BY <1>0, <3>2, <3>3, Registering DEF RegistryOK
    <3> QED
      BY <1>3, <3>4
  <2>3. ASSUME NEW c \in Calls, NEW sid \in DOMAIN sessions, RevokeBegin(c, sid, TRUE)
        PROVE  call'[c].pc = "revoke" /\ call'[c].sid = s
    <3>1. /\ registry' = RemoveSessions(registry, {sid})
          /\ call' = [call EXCEPT ![c] = [Idle EXCEPT !.pc = "revoke", !.sid = sid]]
      BY <2>3 DEF RevokeBegin
    <3>2. Registered(registry') = Registered(registry) \ {sid}
      BY <1>0, <3>1, Removing DEF RegistryOK
    <3>3. call'[c].pc = "revoke" /\ call'[c].sid = sid
      BY <1>0, <3>1 DEF CallTypes, Idle
    <3> QED
      BY <1>3, <3>2, <3>3
  <2>4. CASE UNCHANGED registry
    BY <1>3, <2>4
  <2> QED
    BY <2>1, <2>2, <2>3, <2>4, RegistryMoves
<1>4. ASSUME NEW d \in Calls, call[d].pc \in {"register", "revoke"}, call[d].sid = s,
             ~(call'[d].pc \in {"register", "revoke"} /\ call'[d].sid = s)
      PROVE  s \in Registered(registry')
  <2>1. Serve(d) \/ Request(d) \/ Abort(d)
    BY <1>0, <1>4, Turns
  <2>2. CreateRegister(d) \/ RevokeStore(d)
    BY <1>4, <2>1 DEF Serve, Request, Abort, InStep, At, CreateCheck, RefreshBegin, RevokeBegin,
         CreateEvictRevoke, CreateEvictRemove, CreateInsert, RefreshReplay, RefreshRevokeFamily,
         RefreshNotUsed, RefreshLookup, RefreshMarkUsed, RefreshRotate, RefreshReturn
  <2>3. ~RevokeStore(d)
    BY <1>2, <1>4 DEF RevokeStore, history
  <2>4. CASE CreateRegister(d)
    <3>1. PICK user, org : user = call[d].user /\ org = call[d].org
      OBVIOUS
    <3>2. registry' = RegisterSession(registry, s, user, org) /\ call[d].pc = "register"
      BY <1>4, <2>4, <3>1 DEF CreateRegister, At
    <3>3. [sid |-> s, user |-> user, org |-> org] \in RegistryEntries
      BY <1>0, <1>4, <3>1, <3>2 DEF IInv, CallsOK, LocalsOK, RegistryEntries
    <3>4. Registered(registry') = Registered(registry) \union {s}
      BY <1>0, <3>2, <3>3, Registering DEF RegistryOK
    <3> QED
      BY <3>4
  <2> QED
    BY <2>2, <2>3, <2>4
<1>5. CASE Active(s)
  <2>1. \/ s \in Registered(registry)
        \/ \E c \in Calls : call[c].pc \in {"register", "revoke"} /\ call[c].sid = s
    BY <1>0, <1>5 DEF SessionsAccountedFor, Active
  <2> QED
    BY <1>3, <1>4, <2>1
<1> QED
  BY <1>0, <1>1, <1>5, InUseBefore

LEMMA CountedStays ==
  ASSUME CountedInv, InStep, [Next]_vars
  PROVE  CountedInv'
<1>0. IInv /\ evict \in [Calls -> Seq(SessionIds)] /\ \A c \in Calls : EvictionOK(c)
  BY DEF CountedInv
<1>1. NothingUndone /\ IInv'
  BY <1>0, NoStepUndoes, NextIInv
<1>2. RegistryOK' /\ SessionsAccountedFor'
  BY <1>1, RegistryStays, CountedStep
<1>3. CASE UNCHANGED <<call, evict>>
  <2>1. \A d \in Calls : EvictionOK(d)'
    BY <1>0, <1>1, <1>3, EvictionStays
  <2> QED
    BY <1>0, <1>1, <1>2, <1>3, <2>1 DEF CountedInv
<1>4. ASSUME NEW c \in Calls, Serve(c) \/ Request(c) \/ Abort(c),
             \A d \in Calls \ {c} : call'[d] = call[d]
      PROVE  CountedInv'
  <2>1. PICK list \in Seq(SessionIds) : evict' = [evict EXCEPT ![c] = list]
    BY <1>4, EvictTurns
  <2>2. /\ evict' \in [Calls -> Seq(SessionIds)]
        /\ \A d \in Calls \ {c} : evict'[d] = evict[d]
    BY <1>0, <2>1
  <2>3. \A d \in Calls \ {c} : EvictionOK(d)'
    BY <1>0, <1>1, <1>4, <2>2, EvictionStays
  <2>4. ~Abort(c)
    BY DEF Abort, InStep
  <2>5. EvictionOK(c)'
    BY <1>1, <1>4, <2>4, EvictionMoves
  <2> QED
    BY <1>1, <1>2, <2>2, <2>3, <2>5 DEF CountedInv
<1> QED
  BY <1>0, <1>3, <1>4, Turns

LEMMA InitCounted == Init => CountedInv
<1> SUFFICES ASSUME Init PROVE CountedInv
  OBVIOUS
<1>1. registry = <<>> /\ DOMAIN registry = {} /\ DOMAIN sessions = {}
  BY DEF Init, StoreInit, EmptyMap
<1>2. evict \in [Calls -> Seq(SessionIds)]
  <2>1. <<>> \in Seq(SessionIds)
    OBVIOUS
  <2> QED
    BY <2>1 DEF Init
<1>3. \A c \in Calls : call[c].pc = "idle" /\ evict[c] = <<>> /\ DOMAIN evict[c] = {}
  BY DEF Init, Idle
<1>4. RegistryOK
  BY <1>1 DEF RegistryOK, Distinct, Entered
<1>5. \A c \in Calls : EvictionOK(c)
  BY <1>2, <1>3 DEF EvictionOK, Members
<1>6. SessionsAccountedFor
  BY <1>1 DEF SessionsAccountedFor
<1> QED
  BY <1>2, <1>4, <1>5, <1>6, InitIInv DEF CountedInv

\* Where requests run to their end and a session leaves the registry only as
\* it is revoked, the limiter counts every session that can be renewed.
THEOREM LimiterCountsAll == InStep /\ Spec => []SessionsAccountedFor
<1>1. InStep /\ Init => CountedInv
  BY InitCounted
<1>2. InStep /\ CountedInv /\ [Next]_vars => CountedInv'
  BY CountedStays
<1>3. CountedInv => SessionsAccountedFor
  BY DEF CountedInv
<1>4. CASE InStep
  BY <1>1, <1>2, <1>3, <1>4, PTL DEF Spec
<1>5. CASE ~InStep
  BY <1>5
<1> QED
  BY <1>4, <1>5

-----------------------------------------------------------------------------
(* Overlapping evictions *)

Fits(S, room) == IsFiniteSet(S) /\ Cardinality(S) <= room

\* A rank for every evicting request, the later to check the higher, and the
\* sessions each leaves: what is held is among these and those it is to evict,
\* and the drawn ids of those that checked before it are among these too.
CoveredBy(rank, left, held, waiting, going, drawn, room) ==
  \A c \in waiting :
    /\ Fits(left[c], room)
    /\ held \subseteq going[c] \union left[c]
    /\ \A d \in waiting : rank[d] <= rank[c] => drawn[d] \in left[c]

Covered(held, waiting, going, drawn, room) ==
  /\ \E all : Fits(all, room) /\ held \subseteq all
  /\ \E n \in Nat : \E rank \in [Calls -> 0 .. n] : \E left :
       CoveredBy(rank, left, held, waiting, going, drawn, room)

\* Sessions end, requests give up, and evicted sessions are crossed off.
LEMMA CoverShrinks ==
  ASSUME NEW held, NEW waiting, NEW going, NEW drawn, NEW room,
         Covered(held, waiting, going, drawn, room),
         NEW held2 \in SUBSET held, NEW waiting2 \in SUBSET waiting, NEW going2, NEW drawn2,
         \A c \in waiting2 : held2 \intersect going[c] \subseteq going2[c] /\ drawn2[c] = drawn[c]
  PROVE  Covered(held2, waiting2, going2, drawn2, room)
<1>1. PICK all : Fits(all, room) /\ held \subseteq all
  BY DEF Covered
<1>2. PICK n \in Nat :
        \E rank \in [Calls -> 0 .. n] : \E left :
          CoveredBy(rank, left, held, waiting, going, drawn, room)
  BY DEF Covered
<1>3. PICK rank \in [Calls -> 0 .. n] :
        \E left : CoveredBy(rank, left, held, waiting, going, drawn, room)
  BY <1>2
<1>4. PICK left : CoveredBy(rank, left, held, waiting, going, drawn, room)
  BY <1>3
<1>5. CoveredBy(rank, left, held2, waiting2, going2, drawn2, room)
  BY <1>4 DEF CoveredBy
<1> QED
  BY <1>1, <1>5 DEF Covered

\* A request has just checked: it leaves few, and knows every id drawn.
LEMMA CoverJoins ==
  ASSUME NEW held, NEW waiting \in SUBSET Calls, NEW going, NEW drawn, NEW room,
         Covered(held, waiting, going, drawn, room),
         NEW held2 \in SUBSET held, NEW c \in Calls, c \notin waiting,
         NEW going2, NEW drawn2,
         \A d \in waiting : going2[d] = going[d] /\ drawn2[d] = drawn[d],
         NEW few, Fits(few, room), held2 \subseteq going2[c] \union few,
         \A d \in waiting \union {c} : drawn2[d] \in few
  PROVE  Covered(held2, waiting \union {c}, going2, drawn2, room)
<1>1. PICK all : Fits(all, room) /\ held \subseteq all
  BY DEF Covered
<1>2. PICK n \in Nat :
        \E rank \in [Calls -> 0 .. n] : \E left :
          CoveredBy(rank, left, held, waiting, going, drawn, room)
  BY DEF Covered
<1>3. PICK rank \in [Calls -> 0 .. n] :
        \E left : CoveredBy(rank, left, held, waiting, going, drawn, room)
  BY <1>2
<1>4. PICK left : CoveredBy(rank, left, held, waiting, going, drawn, room)
  BY <1>3
<1>5. PICK rank2, left2 :
        /\ rank2 = [d \in Calls |-> IF d = c THEN n + 1 ELSE rank[d]]
        /\ left2 = [d \in Calls |-> IF d = c THEN few ELSE left[d]]
  OBVIOUS
<1>6. rank2 \in [Calls -> 0 .. n + 1] /\ n + 1 \in Nat
  BY <1>5
<1>7. /\ rank2[c] = n + 1 /\ left2[c] = few
      /\ \A d \in waiting : rank2[d] = rank[d] /\ rank[d] \in 0 .. n /\ left2[d] = left[d]
  BY <1>5
<1>8. ASSUME NEW d \in waiting, NEW e \in waiting \union {c}, rank2[e] <= rank2[d]
      PROVE  e \in waiting /\ rank[e] <= rank[d]
  BY <1>7, <1>8
<1>9. CoveredBy(rank2, left2, held2, waiting \union {c}, going2, drawn2, room)
  BY <1>4, <1>7, <1>8 DEF CoveredBy
<1> QED
  BY <1>1, <1>6, <1>9 DEF Covered

\* A request has just checked and need evict nothing.
LEMMA CoverStarts ==
  ASSUME NEW held, NEW waiting, NEW going, NEW drawn, NEW room,
         NEW few, Fits(few, room), held \subseteq few,
         \A d \in waiting : drawn[d] \in few
  PROVE  Covered(held, waiting, going, drawn, room)
<1>1. PICK rank, left : rank = [d \in Calls |-> 0] /\ left = [d \in waiting |-> few]
  OBVIOUS
<1>2. rank \in [Calls -> 0 .. 0] /\ 0 \in Nat
  BY <1>1
<1>3. CoveredBy(rank, left, held, waiting, going, drawn, room)
  BY <1>1 DEF CoveredBy
<1> QED
  BY <1>2, <1>3 DEF Covered

\* A request has evicted all it had to, and opens its session.
LEMMA CoverLeaves ==
  ASSUME NEW held, NEW waiting \in SUBSET Calls, NEW going, NEW drawn, NEW room,
         Covered(held, waiting, going, drawn, room),
         NEW c \in waiting, held \intersect going[c] = {},
         NEW held2, held2 \subseteq held \union {drawn[c]},
         NEW going2, NEW drawn2,
         \A d \in waiting \ {c} : going2[d] = going[d] /\ drawn2[d] = drawn[d]
  PROVE  Covered(held2, waiting \ {c}, going2, drawn2, room)
<1>1. PICK n \in Nat :
        \E rank \in [Calls -> 0 .. n] : \E left :
          CoveredBy(rank, left, held, waiting, going, drawn, room)
  BY DEF Covered
<1>2. PICK rank \in [Calls -> 0 .. n] :
        \E left : CoveredBy(rank, left, held, waiting, going, drawn, room)
  BY <1>1
<1>3. PICK left : CoveredBy(rank, left, held, waiting, going, drawn, room)
  BY <1>2
<1>4. Fits(left[c], room) /\ held2 \subseteq left[c]
  BY <1>3 DEF CoveredBy
<1>5. PICK left2 : left2 = [d \in Calls |-> IF rank[c] <= rank[d] THEN left[d] ELSE left[c]]
  OBVIOUS
<1>6. \A d \in waiting : left2[d] = IF rank[c] <= rank[d] THEN left[d] ELSE left[c]
  BY <1>5
<1>7. ASSUME NEW d \in waiting \ {c}
      PROVE  /\ Fits(left2[d], room)
             /\ held2 \subseteq going2[d] \union left2[d]
             /\ \A e \in waiting \ {c} : rank[e] <= rank[d] => drawn2[e] \in left2[d]
  <2>0. rank \in [Calls -> Nat]
    OBVIOUS
  <2>1. CASE rank[c] <= rank[d]
    BY <1>3, <1>6, <2>1 DEF CoveredBy
  <2>2. CASE ~(rank[c] <= rank[d])
    <3>1. \A e \in waiting : rank[e] <= rank[d] => rank[e] <= rank[c]
      BY <2>0, <2>2
    <3> QED
      BY <1>3, <1>4, <1>6, <2>2, <3>1 DEF CoveredBy
  <2> QED
    BY <2>1, <2>2
<1>8. CoveredBy(rank, left2, held2, waiting \ {c}, going2, drawn2, room)
  BY <1>7 DEF CoveredBy
<1> QED
  BY <1>4, <1>8 DEF Covered

-----------------------------------------------------------------------------
(* The excess over a limit *)

\* A group shares a limit: a user, or an organization that has one.
Limited(kind, g) ==
  \/ kind = "user" /\ g \in Users
  \/ kind = "org" /\ g \in Orgs /\ OrgLimited(g)
LimitOf(kind, g) == IF kind = "user" THEN UserLimit ELSE OrgLimit[g]
Belongs(r, kind, g) == IF kind = "user" THEN r.user = g ELSE r.org = g

\* The group's sessions in use, and those that are sure to be opened.
Held(kind, g) ==
  {s \in SessionIds :
     \/ Active(s) /\ Belongs(sessions[s], kind, g)
     \/ \E c \in Calls : call[c].pc = "insert" /\ call[c].sid = s /\ Belongs(call[c], kind, g)}
Evictors(kind, g) ==
  {c \in Calls : call[c].pc \in {"evict", "unregister"} /\ Belongs(call[c], kind, g)}
Going == [c \in Calls |-> Members(evict[c])]
Drawn == [c \in Calls |-> call[c].sid]
Room(kind, g) == LimitOf(kind, g) + Cardinality(Calls) - 1

WithinRoom(kind, g) ==
  Covered(Held(kind, g), Evictors(kind, g), Going, Drawn, Room(kind, g))

SlackInv ==
  /\ CountedInv
  /\ \A kind \in {"user", "org"}, g \in Users \union Orgs :
       Limited(kind, g) => WithinRoom(kind, g)

\* If the request is creating after the step it was before, and the step did
\* not bring it to the insertion.
Quiet(d) ==
  call'[d].pc \in CreatePending =>
    /\ call[d].pc \in CreatePending /\ (call'[d].pc = "insert" <=> call[d].pc = "insert")
    /\ SameLocals(d) /\ evict'[d] = evict[d]
NoneEnters == \A d \in Calls : Quiet(d)

\* Requests enter eviction and the insertion by the limit check and by the
\* last eviction only.
LEMMA CreatorsMove ==
  ASSUME CountedInv, InStep, [Next]_vars
  PROVE  \/ \E c \in Calls :
              \/ \E user \in Users, org \in Orgs \union {NoOrg} : CreateCheck(c, user, org)
              \/ CreateEvictRemove(c)
         \/ NoneEnters
<1>0. IInv /\ CallTypes /\ evict \in [Calls -> Seq(SessionIds)]
  BY DEF CountedInv, IInv
<1>1. ASSUME NEW d \in Calls, call'[d] = call[d], evict'[d] = evict[d] PROVE Quiet(d)
  BY <1>1 DEF Quiet, SameLocals
<1>2. CASE UNCHANGED <<call, evict>>
  BY <1>1, <1>2 DEF NoneEnters
<1>3. ASSUME NEW c \in Calls, Serve(c) \/ Request(c),
             ~\E user \in Users, org \in Orgs \union {NoOrg} : CreateCheck(c, user, org),
             ~CreateEvictRemove(c)
      PROVE  Quiet(c)
  <2>1. CASE \/ CreateRegister(c) \/ RefreshRevokeFamily(c) \/ RefreshReturn(c) \/ RevokeStore(c)
    BY <1>0, <2>1, Ends DEF CreatePending, Quiet, CreateRegister, RefreshRevokeFamily, RefreshReturn, RevokeStore
  <2>2. CASE RefreshNotUsed(c) \/ RefreshMarkUsed(c) \/ RefreshRotate(c) \/ CreateInsert(c)
    BY <1>0, <2>2, GoesOn DEF CreatePending, Quiet, CreateInsert, RefreshNotUsed, RefreshMarkUsed,
                              RefreshRotate, Goto
  <2>3. CASE CreateEvictRevoke(c)
    BY <1>0, <2>3, GoesOn DEF CreatePending, Quiet, CreateEvictRevoke, Goto, At
  <2>4. CASE RefreshReplay(c)
    BY <1>0, <2>4 DEF CreatePending, Quiet, RefreshReplay, CallTypes, CallRecords
  <2>5. CASE \E presented \in Devices \union {NULL} : RefreshLookup(c, presented)
    <3>1. call'[c].pc = "accepted" \/ Finish(c)
      BY <1>0, <2>5 DEF RefreshLookup, CallTypes, CallRecords
    <3> QED
      BY <1>0, <3>1, Ends DEF CreatePending, Quiet
  <2>6. CASE \/ \E tok \in DOMAIN delivered : RefreshBegin(c, tok)
             \/ \E sid \in DOMAIN sessions, hooked \in BOOLEAN : RevokeBegin(c, sid, hooked)
    BY <1>0, <2>6 DEF CreatePending, Quiet, RefreshBegin, RevokeBegin, CallTypes, Idle
  <2> QED
    BY <1>3, <2>1, <2>2, <2>3, <2>4, <2>5, <2>6 DEF Serve, Request
<1>4. ASSUME NEW c \in Calls, Serve(c) \/ Request(c)
      PROVE  \A d \in Calls \ {c} : evict'[d] = evict[d]
  <2>1. PICK list \in Seq(SessionIds) : evict' = [evict EXCEPT ![c] = list]
    BY <1>4, EvictTurns
  <2> QED
    BY <1>0, <2>1
<1>5. \A c \in Calls : ~Abort(c)
  BY DEF Abort, InStep
<1>6. ASSUME NEW c \in Calls, Serve(c) \/ Request(c), \A d \in Calls \ {c} : call'[d] = call[d]
      PROVE  \/ \E user \in Users, org \in Orgs \union {NoOrg} : CreateCheck(c, user, org)
             \/ CreateEvictRemove(c)
             \/ \A d \in Calls : Quiet(d)
  BY <1>1, <1>3, <1>4, <1>6
<1> QED
  BY <1>0, <1>1, <1>2, <1>5, <1>6, Turns DEF NoneEnters

\* Outside these two, sessions end and none is held anew.
LEMMA RoomKept ==
  ASSUME SlackInv, InStep, [Next]_vars, NEW kind, NEW g, WithinRoom(kind, g), NoneEnters
  PROVE  WithinRoom(kind, g)'
<1>0. IInv /\ CallTypes /\ NothingUndone
  BY NoStepUndoes DEF SlackInv, CountedInv, IInv
<1>1. Held(kind, g)' \subseteq Held(kind, g)
  <2>1. ASSUME NEW s \in SessionIds, Active(s)', Belongs(sessions[s], kind, g)'
        PROVE  s \in Held(kind, g)
    <3>1. CASE Active(s)
      BY <1>0, <2>1, <3>1 DEF Held, Belongs, NothingUndone, Active
    <3>2. ASSUME NEW c \in Calls, CreateInsert(c), s = call[c].sid PROVE s \in Held(kind, g)
      <4>1. /\ call[c].pc = "insert"
            /\ sessions'[s].user = call[c].user /\ sessions'[s].org = call[c].org
        BY <1>0, <3>2, Opening
      <4> QED
        BY <2>1, <3>2, <4>1 DEF Held, Belongs
    <3> QED
      BY <1>0, <2>1, <3>1, <3>2, InUseBefore DEF Active
  <2>2. ASSUME NEW c \in Calls, call'[c].pc = "insert", Belongs(call[c], kind, g)',
               call'[c].sid \in SessionIds
        PROVE  call'[c].sid \in Held(kind, g)
    BY <2>2 DEF NoneEnters, Quiet, CreatePending, SameLocals, Held, Belongs
  <2> QED
    BY <2>1, <2>2 DEF Held
<1>2. Evictors(kind, g)' \subseteq Evictors(kind, g)
  BY DEF NoneEnters, Quiet, Evictors, CreatePending, SameLocals, Belongs
<1>3. \A c \in Evictors(kind, g)' : Going'[c] = Going[c] /\ Drawn'[c] = Drawn[c]
  BY DEF NoneEnters, Quiet, Evictors, CreatePending, SameLocals, Going, Drawn
<1>4. Room(kind, g)' = Room(kind, g)
  BY DEF Room, LimitOf
<1>5. PICK held, waiting, going, drawn, room :
        /\ held = Held(kind, g) /\ waiting = Evictors(kind, g) /\ going = Going /\ drawn = Drawn
        /\ room = Room(kind, g)
  OBVIOUS
<1>6. PICK held2, waiting2, going2, drawn2 :
        /\ held2 = Held(kind, g)' /\ waiting2 = Evictors(kind, g)' /\ going2 = Going'
        /\ drawn2 = Drawn'
  OBVIOUS
<1>7. /\ Covered(held, waiting, going, drawn, room)
      /\ held2 \in SUBSET held /\ waiting2 \in SUBSET waiting
      /\ \A c \in waiting2 : held2 \intersect going[c] \subseteq going2[c] /\ drawn2[c] = drawn[c]
  BY <1>1, <1>2, <1>3, <1>5, <1>6 DEF WithinRoom
<1>8. Covered(held2, waiting2, going2, drawn2, room)
  BY <1>7, CoverShrinks
<1> QED
  BY <1>4, <1>5, <1>6, <1>8 DEF WithinRoom, Covered, CoveredBy

\* A request crosses off the session it has revoked, and opens its own when
\* none is left.
LEMMA RoomAfterEviction ==
  ASSUME SlackInv, NothingUndone, NEW c \in Calls, CreateEvictRemove(c),
         \A d \in Calls \ {c} : call'[d] = call[d],
         NEW kind, NEW g, WithinRoom(kind, g)
  PROVE  WithinRoom(kind, g)'
<1>0. /\ CallTypes /\ EvictionOK(c) /\ LocalsOK(call[c], owner, DOMAIN sessions)
      /\ evict \in [Calls -> Seq(SessionIds)] /\ call[c].pc = "unregister"
      /\ \A d \in Calls : call[d].pc = "insert" => call[d].sid \notin DOMAIN sessions
  BY DEF SlackInv, CountedInv, IInv, CallsOK, LocalsOK, CreateEvictRemove, At, CreatePending
<1>1. PICK list \in Seq(SessionIds) :
        list = evict[c] /\ list # <<>> /\ Members(list) \subseteq DOMAIN sessions
        /\ sessions[Head(list)].revoked
  BY <1>0 DEF EvictionOK
<1>2. PICK gone : gone = Head(list)
  OBVIOUS
<1>3. PICK held, waiting, going, drawn, room :
        /\ held = Held(kind, g) /\ waiting = Evictors(kind, g) /\ going = Going /\ drawn = Drawn
        /\ room = Room(kind, g)
  OBVIOUS
<1>4. PICK held2, waiting2, going2, drawn2 :
        /\ held2 = Held(kind, g)' /\ waiting2 = Evictors(kind, g)' /\ going2 = Going'
        /\ drawn2 = Drawn'
  OBVIOUS
<1>5. Covered(held, waiting, going, drawn, room) /\ Room(kind, g)' = room
  BY <1>3 DEF WithinRoom, Room, LimitOf
<1>6. ASSUME Covered(held2, waiting2, going2, drawn2, room) PROVE WithinRoom(kind, g)'
  BY <1>4, <1>5, <1>6 DEF WithinRoom
<1>7. /\ SameLocals(c) /\ UNCHANGED sessions
      /\ call'[c].pc = IF Len(list) > 1 THEN "evict" ELSE "insert"
      /\ evict' = [evict EXCEPT ![c] = Tail(list)]
  <2>1. /\ call' = [call EXCEPT ![c].pc = IF Len(list) > 1 THEN "evict" ELSE "insert"]
        /\ UNCHANGED sessions /\ evict' = [evict EXCEPT ![c] = Tail(evict[c])]
    BY <1>1 DEF CreateEvictRemove, storeVars
  <2> QED
    BY <1>0, <1>1, <2>1, GoesOn
<1>8. gone \notin held
  <2>1. gone \in DOMAIN sessions /\ sessions[gone].revoked
    BY <1>1, <1>2 DEF Members
  <2> QED
    BY <1>0, <1>3, <2>1 DEF Held, Active
<1>9. /\ Members(list) \subseteq Members(Tail(list)) \union {gone}
      /\ ~(Len(list) > 1) => Members(list) = {gone}
  <2>1. /\ DOMAIN list = 1 .. Len(list) /\ Len(list) \in Nat \ {0} /\ list[1] = gone
        /\ DOMAIN Tail(list) = 1 .. Len(list) - 1
        /\ \A i \in 1 .. Len(list) - 1 : Tail(list)[i] = list[i + 1]
    BY <1>1, <1>2
  <2>2. ASSUME NEW i \in DOMAIN list, i # 1 PROVE list[i] \in Members(Tail(list))
    <3>1. i - 1 \in DOMAIN Tail(list) /\ Tail(list)[i - 1] = list[i]
      BY <2>1, <2>2
    <3> QED
      BY <3>1 DEF Members
  <2>3. ~(Len(list) > 1) => DOMAIN list = {1}
    BY <2>1
  <2> QED
    BY <2>1, <2>2, <2>3 DEF Members
<1>10. \A d \in Calls \ {c} : going2[d] = going[d] /\ drawn2[d] = drawn[d]
  BY <1>0, <1>3, <1>4, <1>7 DEF Going, Drawn
<1>11. going[c] = Members(list) /\ going2[c] = Members(Tail(list)) /\ drawn2[c] = drawn[c]
       /\ drawn[c] = call[c].sid
  BY <1>0, <1>1, <1>3, <1>4, <1>7 DEF Going, Drawn, SameLocals
<1>12. waiting \subseteq Calls /\ (c \in waiting <=> Belongs(call[c], kind, g))
  BY <1>0, <1>3 DEF Evictors
<1>13. waiting2 = IF Len(list) > 1 THEN waiting ELSE waiting \ {c}
  <2>1. \A d \in Calls \ {c} : d \in waiting2 <=> d \in waiting
    BY <1>3, <1>4 DEF Evictors, Belongs
  <2>2. c \in waiting2 <=> (Len(list) > 1 /\ Belongs(call[c], kind, g))
    BY <1>4, <1>7 DEF Evictors, Belongs, SameLocals
  <2> QED
    BY <1>12, <1>4, <2>1, <2>2 DEF Evictors
<1>14. held2 \subseteq
         held \union (IF ~(Len(list) > 1) /\ c \in waiting THEN {drawn[c]} ELSE {})
  <2>1. ASSUME NEW s \in SessionIds, Active(s)', Belongs(sessions[s], kind, g)' PROVE s \in held
    BY <1>3, <1>7, <2>1 DEF Held, Active, Belongs
  <2>2. ASSUME NEW d \in Calls \ {c}, call'[d].pc = "insert", Belongs(call[d], kind, g)',
               call'[d].sid \in SessionIds
        PROVE  call'[d].sid \in held
    BY <1>3, <2>2 DEF Held, Belongs
  <2>3. ASSUME call'[c].pc = "insert", Belongs(call[c], kind, g)'
        PROVE  ~(Len(list) > 1) /\ c \in waiting /\ call'[c].sid = drawn[c]
    BY <1>7, <1>11, <1>12, <2>3 DEF Belongs, SameLocals
  <2> QED
    BY <1>4, <2>1, <2>2, <2>3 DEF Held
<1>15. CASE Len(list) > 1 \/ c \notin waiting
  <2>1. held2 \in SUBSET held /\ waiting2 \in SUBSET waiting
    BY <1>13, <1>14, <1>15
  <2>2. \A d \in waiting2 : held2 \intersect going[d] \subseteq going2[d] /\ drawn2[d] = drawn[d]
    BY <1>8, <1>9, <1>10, <1>11, <1>12, <2>1
  <2>3. Covered(held2, waiting2, going2, drawn2, room)
    BY <1>5, <2>1, <2>2, CoverShrinks
  <2> QED
    BY <1>6, <2>3
<1>16. CASE ~(Len(list) > 1) /\ c \in waiting
  <2>1. held \intersect going[c] = {}
    BY <1>8, <1>9, <1>11, <1>16
  <2>2. held2 \subseteq held \union {drawn[c]} /\ waiting2 = waiting \ {c}
    BY <1>13, <1>14, <1>16
  <2>3. Covered(held2, waiting \ {c}, going2, drawn2, room)
    BY <1>5, <1>10, <1>12, <1>16, <2>1, <2>2, CoverLeaves
  <2> QED
    BY <1>6, <2>2, <2>3
<1> QED
  BY <1>15, <1>16

\* The sessions listed at some places, and the ids that requests have drawn.
Names(reg, P) == {reg[i].sid : i \in P}
AllDrawn == {call[d].sid : d \in Calls}

LEMMA FewLeft ==
  ASSUME RegistryOK, NEW P \in SUBSET DOMAIN registry, NEW limit \in Nat,
         Cardinality(P) < limit
  PROVE  Fits(Names(registry, P) \union AllDrawn', limit + Cardinality(Calls) - 1)
<1>1. PICK N : N = Names(registry, P)
  OBVIOUS
<1>2. IsFiniteSet(N) /\ Cardinality(N) = Cardinality(P) /\ Cardinality(P) \in Nat
  BY <1>1, SessionsAtPlaces DEF RegistryOK, Names
<1>3. PICK D : D = AllDrawn'
  OBVIOUS
<1>4. IsFiniteSet(D) /\ Cardinality(D) <= Cardinality(Calls)
  <2>1. PICK f : f = [d \in Calls |-> call'[d].sid]
    OBVIOUS
  <2>2. f \in Surjection(Calls, D)
    BY <1>3, <2>1 DEF Surjection, AllDrawn
  <2> QED
    BY <2>2, CallsAssumption, FS_Surjection
<1>5. /\ IsFiniteSet(N \cup D)
      /\ Cardinality(N \cup D) = Cardinality(N) + Cardinality(D) - Cardinality(N \cap D)
  BY <1>2, <1>4, FS_Union
<1>6. IsFiniteSet(N \cap D)
  BY <1>2, FS_Intersection
<1>7. /\ Cardinality(N \cap D) \in Nat /\ Cardinality(D) \in Nat /\ Cardinality(Calls) \in Nat
      /\ Cardinality(N) \in Nat
  BY <1>2, <1>4, <1>6, CallsAssumption, FS_CardinalityType
<1>8. Cardinality(N \cup D) <= limit + Cardinality(Calls) - 1
  BY <1>2, <1>4, <1>5, <1>7
<1> QED
  BY <1>1, <1>3, <1>5, <1>8 DEF Fits

\* What a group holds when a request checks: sessions the request is to evict,
\* sessions that fit with its own under the limit, and ids drawn by others.
LEMMA HeldAtCheck ==
  ASSUME SlackInv, NEW user \in Users, NEW org \in Orgs \union {NoOrg}, Allowed(org),
         NEW kind \in {"user", "org"}, NEW g, Limited(kind, g),
         NEW r, r.user = user, r.org = org, Belongs(r, kind, g),
         \A d \in Calls : call[d].pc \in {"insert", "register", "revoke"} => call'[d] = call[d]
  PROVE  \E few : /\ Fits(few, Room(kind, g)) /\ AllDrawn' \subseteq few
                  /\ Held(kind, g) \subseteq Evicted(registry, user, org) \union few
<1>0. /\ RegistryOK /\ IInv /\ SessionsAccountedFor /\ registry \in Seq(RegistryEntries)
      /\ Distinct(registry)
  BY DEF SlackInv, CountedInv, RegistryOK
<1>1. PICK due : due = Due(registry, user, org)
  OBVIOUS
<1>2. /\ Cardinality(OfUser(registry, user) \ due) < UserLimit
      /\ OrgLimited(org) => Cardinality(OfOrg(registry, org) \ due) < OrgLimit[org]
  <2>1. org = NoOrg \/ org \in DOMAIN OrgLimit
    BY OrgsAssumption
  <2> QED
    BY <1>0, <1>1, <2>1, EvictionMakesRoom
<1>3. PICK P : P = (IF kind = "user" THEN OfUser(registry, user) ELSE OfOrg(registry, org)) \ due
  OBVIOUS
<1>4. P \in SUBSET DOMAIN registry
  BY <1>3 DEF OfUser, OfOrg
<1>5. LimitOf(kind, g) \in Nat /\ Cardinality(P) < LimitOf(kind, g)
  <2>1. CASE kind = "user"
    BY <1>2, <1>3, <2>1, LimitAssumption DEF LimitOf
  <2>2. CASE kind = "org"
    <3>1. org = g /\ OrgLimited(org) /\ org \in Orgs
      BY <2>2 DEF Limited, Belongs
    <3>2. OrgLimit[org] \in Nat
      BY <3>1, LimitAssumption, OrgsAssumption DEF OrgLimited
    <3> QED
      BY <1>2, <1>3, <2>2, <3>1, <3>2 DEF LimitOf
  <2> QED
    BY <2>1, <2>2
<1>6. Fits(Names(registry, P) \union AllDrawn', Room(kind, g))
  BY <1>0, <1>4, <1>5, FewLeft DEF Room
<1>7. ASSUME NEW s \in Registered(registry), Belongs(sessions[s], kind, g)
      PROVE  s \in Evicted(registry, user, org) \union Names(registry, P)
  <2>1. PICK i \in DOMAIN registry : registry[i].sid = s
    BY DEF Registered
  <2>2. sessions[s].user = registry[i].user /\ sessions[s].org = registry[i].org
    BY <1>0, <2>1 DEF RegistryOK, Entered, StoredFor
  <2>3. i \in IF kind = "user" THEN OfUser(registry, user) ELSE OfOrg(registry, org)
    BY <1>7, <2>2 DEF Belongs, OfUser, OfOrg
  <2>4. CASE i \in due
    BY <1>1, <2>1, <2>4 DEF Evicted
  <2>5. CASE i \notin due
    BY <1>3, <2>1, <2>3, <2>5 DEF Names
  <2> QED
    BY <2>4, <2>5
<1>8. ASSUME NEW d \in Calls, call[d].pc \in {"insert", "register", "revoke"}
      PROVE  call[d].sid \in AllDrawn'
  BY <1>8 DEF AllDrawn
<1>9. Held(kind, g) \subseteq
        Evicted(registry, user, org) \union (Names(registry, P) \union AllDrawn')
  <2>1. ASSUME NEW s \in SessionIds, Active(s), Belongs(sessions[s], kind, g)
        PROVE  s \in Evicted(registry, user, org) \union (Names(registry, P) \union AllDrawn')
    <3>1. \/ s \in Registered(registry)
          \/ \E c \in Calls : call[c].pc \in {"register", "revoke"} /\ call[c].sid = s
      BY <1>0, <2>1 DEF SessionsAccountedFor, Active
    <3> QED
      BY <1>7, <1>8, <2>1, <3>1
  <2> QED
    BY <1>8, <2>1 DEF Held
<1> QED
  BY <1>6, <1>9

\* A request checks: it will evict, or opens its session next.
LEMMA RoomAfterCheck ==
  ASSUME SlackInv, NEW c \in Calls, NEW user \in Users, NEW org \in Orgs \union {NoOrg},
         CreateCheck(c, user, org),
         NEW kind \in {"user", "org"}, NEW g, Limited(kind, g), WithinRoom(kind, g)
  PROVE  WithinRoom(kind, g)'
<1>0. /\ CallTypes /\ RegistryOK /\ registry \in Seq(RegistryEntries) /\ Distinct(registry)
      /\ evict \in [Calls -> Seq(SessionIds)] /\ call[c].pc = "idle" /\ Allowed(org)
      /\ UNCHANGED <<sessions, registry>>
  BY DEF SlackInv, CountedInv, IInv, RegistryOK, CreateCheck, At, storeVars
<1>1. PICK list : list = EvictSessionIds(registry, user, org)
  OBVIOUS
<1>2. evict' = [evict EXCEPT ![c] = list] /\ Members(list) = Evicted(registry, user, org)
  <2>1. Members(list) = Evicted(registry, user, org)
    BY <1>0, <1>1, Evicting
  <2> QED
    BY <1>1, <2>1 DEF CreateCheck
<1>3. PICK sid \in FreshSessionIds :
        \E new \in FreshTokens :
          call' = [call EXCEPT ![c] =
             [Idle EXCEPT !.pc = IF evict'[c] = <<>> THEN "insert" ELSE "evict",
                          !.user = user, !.org = org, !.sid = sid, !.new = new]]
  BY DEF CreateCheck
<1>4. /\ call'[c].pc = (IF list = <<>> THEN "insert" ELSE "evict") /\ call'[c].sid = sid
      /\ call'[c].user = user /\ call'[c].org = org
      /\ \A d \in Calls \ {c} : call'[d] = call[d]
  BY <1>0, <1>2, <1>3 DEF CallTypes, Idle
<1>5. PICK held, waiting, going, drawn, room :
        /\ held = Held(kind, g) /\ waiting = Evictors(kind, g) /\ going = Going /\ drawn = Drawn
        /\ room = Room(kind, g)
  OBVIOUS
<1>6. PICK held2, waiting2, going2, drawn2 :
        /\ held2 = Held(kind, g)' /\ waiting2 = Evictors(kind, g)' /\ going2 = Going'
        /\ drawn2 = Drawn'
  OBVIOUS
<1>7. Covered(held, waiting, going, drawn, room) /\ Room(kind, g)' = room
  BY <1>5 DEF WithinRoom, Room, LimitOf
<1>8. ASSUME Covered(held2, waiting2, going2, drawn2, room) PROVE WithinRoom(kind, g)'
  BY <1>6, <1>7, <1>8 DEF WithinRoom
<1>9. \A d \in Calls \ {c} : going2[d] = going[d] /\ drawn2[d] = drawn[d]
  BY <1>0, <1>2, <1>4, <1>5, <1>6 DEF Going, Drawn
<1>10. going2[c] = Members(list) /\ \A d \in Calls : drawn2[d] \in AllDrawn'
  BY <1>0, <1>2, <1>6 DEF Going, Drawn, AllDrawn
<1>11. waiting \subseteq Calls /\ c \notin waiting
  BY <1>0, <1>5 DEF Evictors
<1>12. PICK mine \in BOOLEAN :
         mine <=> (IF kind = "user" THEN user = g ELSE org = g)
  OBVIOUS
<1>13. Belongs(call[c], kind, g)' <=> mine
  BY <1>4, <1>12 DEF Belongs
<1>14. waiting2 = IF mine /\ list # <<>> THEN waiting \union {c} ELSE waiting
  <2>1. \A d \in Calls \ {c} : d \in waiting2 <=> d \in waiting
    BY <1>4, <1>5, <1>6 DEF Evictors, Belongs
  <2>2. c \in waiting2 <=> mine /\ list # <<>>
    BY <1>4, <1>6, <1>13 DEF Evictors
  <2>3. waiting2 \subseteq Calls
    BY <1>6 DEF Evictors
  <2>4. CASE mine /\ list # <<>>
    BY <1>11, <2>1, <2>2, <2>3, <2>4, Zenon
  <2>5. CASE ~(mine /\ list # <<>>)
    <3>1. c \notin waiting2
      BY <2>2, <2>5, Zenon
    <3>2. waiting2 = waiting
      BY <1>11, <2>1, <2>3, <3>1
    <3> QED
      BY <2>5, <3>2, Zenon
  <2> QED
    BY <2>4, <2>5
<1>15. held2 \subseteq held \union (IF mine /\ list = <<>> THEN {drawn2[c]} ELSE {})
  <2>1. ASSUME NEW s \in SessionIds, Active(s)', Belongs(sessions[s], kind, g)' PROVE s \in held
    BY <1>0, <1>5, <2>1 DEF Held, Active, Belongs
  <2>2. ASSUME NEW d \in Calls \ {c}, call'[d].pc = "insert", Belongs(call[d], kind, g)',
               call'[d].sid \in SessionIds
        PROVE  call'[d].sid \in held
    BY <1>4, <1>5, <2>2 DEF Held, Belongs
  <2>3. ASSUME call'[c].pc = "insert", Belongs(call[c], kind, g)'
        PROVE  mine /\ list = <<>> /\ call'[c].sid = drawn2[c]
    BY <1>4, <1>6, <1>13, <2>3 DEF Drawn
  <2> QED
    BY <1>6, <2>1, <2>2, <2>3 DEF Held
<1>16. CASE ~mine
  <2>1. held2 \in SUBSET held /\ waiting2 \in SUBSET waiting
    BY <1>14, <1>15, <1>16
  <2>2. \A d \in waiting2 : held2 \intersect going[d] \subseteq going2[d] /\ drawn2[d] = drawn[d]
    BY <1>9, <1>11, <2>1
  <2>3. Covered(held2, waiting2, going2, drawn2, room)
    BY <1>7, <2>1, <2>2, CoverShrinks
  <2> QED
    BY <1>8, <2>3
<1>17. CASE mine
  <2>1. PICK r : r = call'[c]
    OBVIOUS
  <2>2. r.user = user /\ r.org = org /\ Belongs(r, kind, g)
    BY <1>4, <1>12, <1>17, <2>1 DEF Belongs
  <2>3. \A d \in Calls : call[d].pc \in {"insert", "register", "revoke"} => call'[d] = call[d]
    BY <1>0, <1>4
  <2>4. PICK few : /\ Fits(few, Room(kind, g)) /\ AllDrawn' \subseteq few
                   /\ Held(kind, g) \subseteq Evicted(registry, user, org) \union few
    BY <1>0, <2>2, <2>3, HeldAtCheck, SMTT(40)
  <2>5. /\ Fits(few, room) /\ held \subseteq Members(list) \union few
        /\ \A d \in Calls : drawn2[d] \in few
    BY <1>2, <1>5, <1>10, <2>4
  <2>6. CASE list = <<>>
    <3>1. held2 \subseteq few
      BY <1>15, <2>5, <2>6 DEF Members
    <3>2. \A d \in waiting2 : drawn2[d] \in few
      BY <1>11, <1>14, <2>5
    <3>3. Covered(held2, waiting2, going2, drawn2, room)
      BY <2>5, <3>1, <3>2, CoverStarts
    <3> QED
      BY <1>8, <3>3
  <2>7. CASE list # <<>>
    <3>1. held2 \in SUBSET held /\ waiting2 = waiting \union {c}
      BY <1>14, <1>15, <1>17, <2>7
    <3>2. held2 \subseteq going2[c] \union few
      BY <1>10, <2>5, <3>1
    <3>3. /\ \A d \in waiting \union {c} : drawn2[d] \in few
          /\ \A d \in waiting : going2[d] = going[d] /\ drawn2[d] = drawn[d]
      BY <1>9, <1>11, <2>5
    <3>4. Covered(held2, waiting \union {c}, going2, drawn2, room)
      BY <1>7, <1>11, <2>5, <3>1, <3>2, <3>3, CoverJoins
    <3> QED
      BY <1>8, <3>1, <3>4
  <2> QED
    BY <2>6, <2>7
<1> QED
  BY <1>16, <1>17

LEMMA SlackStays ==
  ASSUME SlackInv, InStep, [Next]_vars
  PROVE  SlackInv'
<1>0. CountedInv /\ IInv
  BY DEF SlackInv, CountedInv
<1>1. CountedInv' /\ NothingUndone
  BY <1>0, CountedStays, NoStepUndoes
<1>2. ASSUME NEW kind \in {"user", "org"}, NEW g \in Users \union Orgs, Limited(kind, g)
      PROVE  WithinRoom(kind, g)'
  <2>0. WithinRoom(kind, g)
    BY <1>2 DEF SlackInv
  <2>1. ASSUME NEW c \in Calls, NEW user \in Users, NEW org \in Orgs \union {NoOrg},
               CreateCheck(c, user, org)
        PROVE  WithinRoom(kind, g)'
    BY <1>2, <2>0, <2>1, RoomAfterCheck
  <2>2. ASSUME NEW c \in Calls, CreateEvictRemove(c)
        PROVE  WithinRoom(kind, g)'
    <3>1. CallTypes
      BY <1>0 DEF IInv
    <3>2. \A d \in Calls \ {c} : call'[d] = call[d]
      BY <2>2, <3>1 DEF CreateEvictRemove, CallTypes
    <3> QED
      BY <1>1, <2>0, <2>2, <3>2, RoomAfterEviction
  <2> QED
    BY <1>0, <2>0, <2>1, <2>2, CreatorsMove, RoomKept
<1>3. ASSUME NEW kind, NEW g PROVE Limited(kind, g)' <=> Limited(kind, g)
  BY DEF Limited, OrgLimited
<1> QED
  BY <1>1, <1>2, <1>3 DEF SlackInv

LEMMA InitSlack == Init => SlackInv
<1> SUFFICES ASSUME Init PROVE SlackInv
  OBVIOUS
<1>1. /\ CountedInv /\ DOMAIN sessions = {}
      /\ \A c \in Calls : call[c].pc = "idle"
  BY InitCounted DEF Init, StoreInit, EmptyMap, Idle
<1>2. ASSUME NEW kind \in {"user", "org"}, NEW g \in Users \union Orgs, Limited(kind, g)
      PROVE  WithinRoom(kind, g)
  <2>1. Held(kind, g) = {} /\ Evictors(kind, g) = {}
    BY <1>1 DEF Held, Evictors, Active
  <2>2. LimitOf(kind, g) \in Nat
    BY <1>2, LimitAssumption, OrgsAssumption DEF LimitOf, Limited, OrgLimited
  <2>3. Cardinality(Calls) \in Nat /\ Cardinality(Calls) # 0
    BY CallsAssumption, FS_CardinalityType, FS_EmptySet
  <2>4. Fits({}, Room(kind, g))
    BY <2>2, <2>3, FS_EmptySet DEF Fits, Room
  <2> QED
    BY <2>1, <2>4, CoverStarts DEF WithinRoom
<1> QED
  BY <1>1, <1>2 DEF SlackInv

LEMMA SlackShows ==
  ASSUME SlackInv
  PROVE  ActiveWithinSlack
<1>0. DOMAIN sessions \subseteq SessionIds
  BY DEF SlackInv, CountedInv, IInv, StoreTypes
<1>1. ASSUME NEW kind \in {"user", "org"}, NEW g \in Users \union Orgs, Limited(kind, g),
             NEW used, used \subseteq Held(kind, g)
      PROVE  Cardinality(used) <= Room(kind, g)
  <2>1. PICK all : Fits(all, Room(kind, g)) /\ Held(kind, g) \subseteq all
    BY <1>1 DEF SlackInv, WithinRoom, Covered
  <2>2. IsFiniteSet(all) /\ used \in SUBSET all
    BY <1>1, <2>1 DEF Fits
  <2>3. IsFiniteSet(used) /\ Cardinality(used) <= Cardinality(all)
    BY <2>2, FS_Subset
  <2>4. Cardinality(used) \in Nat /\ Cardinality(all) \in Nat /\ Cardinality(Calls) \in Nat
        /\ LimitOf(kind, g) \in Nat
    BY <1>1, <2>2, <2>3, CallsAssumption, FS_CardinalityType, LimitAssumption, OrgsAssumption
    DEF LimitOf, Limited, OrgLimited
  <2> QED
    BY <2>1, <2>3, <2>4 DEF Fits, Room
<1>2. ASSUME NEW user \in Users
      PROVE  Cardinality(ActiveOf(user)) <= UserLimit + (Cardinality(Calls) - 1)
  <2>1. ActiveOf(user) \subseteq Held("user", user)
    BY <1>0 DEF ActiveOf, Held, Belongs
  <2>2. Cardinality(ActiveOf(user)) <= Room("user", user)
    BY <1>1, <2>1 DEF Limited
  <2>3. Cardinality(Calls) \in Nat /\ UserLimit \in Nat
    BY CallsAssumption, FS_CardinalityType, LimitAssumption
  <2> QED
    BY <2>2, <2>3 DEF Room, LimitOf
<1>3. ASSUME NEW org \in Orgs, OrgLimited(org)
      PROVE  Cardinality(ActiveIn(org)) <= OrgLimit[org] + (Cardinality(Calls) - 1)
  <2>1. ActiveIn(org) \subseteq Held("org", org)
    BY <1>0 DEF ActiveIn, Held, Belongs
  <2>2. Cardinality(ActiveIn(org)) <= Room("org", org)
    BY <1>1, <1>3, <2>1 DEF Limited
  <2>3. Cardinality(Calls) \in Nat /\ OrgLimit[org] \in Nat
    BY <1>3, CallsAssumption, FS_CardinalityType, LimitAssumption, OrgsAssumption DEF OrgLimited
  <2> QED
    BY <2>2, <2>3 DEF Room, LimitOf
<1> QED
  BY <1>2, <1>3 DEF ActiveWithinSlack

\* However long sign-ins overlap, k requests in flight never have more than
\* k - 1 sessions above a limit in use: check-then-register does not add up.
THEOREM ExcessBounded == InStep /\ Spec => []ActiveWithinSlack
<1>1. InStep /\ Init => SlackInv
  BY InitSlack
<1>2. InStep /\ SlackInv /\ [Next]_vars => SlackInv'
  BY SlackStays
<1>3. SlackInv => ActiveWithinSlack
  BY SlackShows
<1>4. CASE InStep
  BY <1>1, <1>2, <1>3, <1>4, PTL DEF Spec
<1>5. CASE ~InStep
  BY <1>5
<1> QED
  BY <1>4, <1>5
=============================================================================
