------------------------ MODULE DeviceAuthorization ------------------------
(***************************************************************************)
(* device-authorization.ts with its in-memory store: a device asks for a   *)
(* code pair, a user types the short code and approves or denies, and the  *)
(* device polls with the long one.  Every entry point is synchronous, so   *)
(* each is one step; the requests of devices and users interleave freely.  *)
(*                                                                         *)
(* A device code is drawn from 256 random bits and never repeats.  A user  *)
(* code is drawn from 40, and nothing looks whether it is taken.           *)
(* A poll that names an unknown code or another client changes nothing.    *)
(***************************************************************************)
EXTENDS Runtime, Maps

CONSTANTS
  Devices,          \* bound: the device codes that are drawn
  UserCodes,        \* bound: the user codes that may be drawn
  Clients, Subs,
  NoSub,            \* the empty subject, which an approval does not refuse
  ExpiresIn, Interval,
  SlowDownExtra,    \* SLOW_DOWN_EXTRA_SEC
  MaxInterval       \* bound on the polling interval

ASSUME DeviceAssumption ==
  {ExpiresIn, Interval, SlowDownExtra, MaxInterval} \subseteq Nat

VARIABLES
  byDevice,  \* device code -> StoredDeviceEntry
  byUser,    \* user code -> device code
  readyAt,   \* device code -> when its client, as it was told, may poll again (client)
  drawn,     \* the device codes drawn so far (history)
  shared,    \* the user codes drawn while another request held them (history)
  deviceTokens     \* the tokens handed out (history)

deviceVars == <<byDevice, byUser, readyAt, drawn, shared, deviceTokens>>

DeviceInit ==
  /\ byDevice = EmptyMap
  /\ byUser = EmptyMap
  /\ readyAt = EmptyMap
  /\ drawn = {}
  /\ shared = {}
  /\ deviceTokens = {}

-----------------------------------------------------------------------------
(* The store *)

Save(d, entry) ==
  /\ byDevice' = MapSet(byDevice, d, entry)
  /\ byUser' = MapSet(byUser, entry.userCode, d)

\* update: the entry is indexed again, whoever holds the user code by now.
Update(d, entry) ==
  /\ byDevice' = MapSet(byDevice, d, entry)
  /\ byUser' = MapSet(byUser, entry.userCode, d)

\* A plausible bug: only the main map is cleaned.
RemoveKeepsCode(d) ==
  /\ byDevice' = MapDelete(byDevice, {d})
  /\ UNCHANGED byUser

\* remove: the user code goes, whoever holds it by now.
Remove(d) ==
  /\ byUser' = MapDelete(byUser, {byDevice[d].userCode})
  /\ byDevice' = MapDelete(byDevice, {d})

Expired(d) == byDevice[d].expiresAt < now

-----------------------------------------------------------------------------
(* The entry points *)

CreateDeviceAuthorization(d, code, client) ==
  /\ d \notin drawn
  /\ Save(d, [userCode |-> code, client |-> client, status |-> "pending", sub |-> NULL,
              expiresAt |-> now + ExpiresIn, lastPollAt |-> NULL, interval |-> Interval])
  /\ readyAt' = MapSet(readyAt, d, now)
  /\ drawn' = drawn \union {d}
  /\ shared' = shared \union ({code} \intersect {byDevice[e].userCode : e \in DOMAIN byDevice})
  /\ UNCHANGED <<now, deviceTokens>>

\* A plausible bug: the last answer counts, not the first.
ApproveThoughDecided(code, sub) ==
  /\ code \in DOMAIN byUser
  /\ LET d == byUser[code]
     IN  /\ ~Expired(d)
         /\ Update(d, [byDevice[d] EXCEPT !.status = "authorized", !.sub = sub])
  /\ UNCHANGED <<now, readyAt, drawn, shared, deviceTokens>>

ApproveDeviceByUserCode(code, sub) ==
  /\ code \in DOMAIN byUser
  /\ LET d == byUser[code]
     IN  /\ byDevice[d].status = "pending"
         /\ ~Expired(d)
         /\ Update(d, [byDevice[d] EXCEPT !.status = "authorized", !.sub = sub])
  /\ UNCHANGED <<now, readyAt, drawn, shared, deviceTokens>>

\* A denial does not look at the expiry.
DenyDeviceByUserCode(code) ==
  /\ code \in DOMAIN byUser
  /\ LET d == byUser[code]
     IN  /\ byDevice[d].status = "pending"
         /\ Update(d, [byDevice[d] EXCEPT !.status = "denied"])
  /\ UNCHANGED <<now, readyAt, drawn, shared, deviceTokens>>

\* exchangeDeviceCode answers expired_token or access_denied.
ExchangeClosed(d) ==
  /\ Expired(d) \/ byDevice[d].status = "denied"
  /\ Remove(d)
  /\ UNCHANGED <<now, readyAt, drawn, shared, deviceTokens>>

\* The first poll of a device is never too early: no last poll counts as 1970.
PolledTooSoon(entry) ==
  entry.lastPollAt # NULL /\ now - entry.lastPollAt < entry.interval

\* A plausible bug: the client is told the interval it has just broken.
ExchangeSlowDownUntold(d) ==
  LET entry == byDevice[d]
  IN  /\ ~Expired(d) /\ entry.status = "pending"
      /\ PolledTooSoon(entry)
      /\ entry.interval + SlowDownExtra <= MaxInterval
      /\ Update(d, [entry EXCEPT !.lastPollAt = now, !.interval = @ + SlowDownExtra])
      /\ readyAt' = [readyAt EXCEPT ![d] = now + entry.interval]
      /\ UNCHANGED <<now, drawn, shared, deviceTokens>>

\* exchangeDeviceCode answers slow_down, with the longer interval.
ExchangeSlowDown(d) ==
  LET entry == byDevice[d]
  IN  /\ ~Expired(d) /\ entry.status = "pending"
      /\ PolledTooSoon(entry)
      /\ entry.interval + SlowDownExtra <= MaxInterval
      /\ Update(d, [entry EXCEPT !.lastPollAt = now, !.interval = @ + SlowDownExtra])
      /\ readyAt' = [readyAt EXCEPT ![d] = now + entry.interval + SlowDownExtra]
      /\ UNCHANGED <<now, drawn, shared, deviceTokens>>

\* exchangeDeviceCode answers authorization_pending.
ExchangePending(d) ==
  LET entry == byDevice[d]
  IN  /\ ~Expired(d) /\ entry.status = "pending"
      /\ ~PolledTooSoon(entry)
      /\ Update(d, [entry EXCEPT !.lastPollAt = now])
      /\ readyAt' = [readyAt EXCEPT ![d] = now + entry.interval]
      /\ UNCHANGED <<now, drawn, shared, deviceTokens>>

\* A plausible bug: an approval by nobody is honoured like any other.
ExchangeTokenForNobody(d) ==
  LET entry == byDevice[d]
  IN  /\ ~Expired(d) /\ entry.status = "authorized"
      /\ deviceTokens' = deviceTokens \union
           {[device |-> d, client |-> entry.client, sub |-> entry.sub]}
      /\ Remove(d)
      /\ UNCHANGED <<now, readyAt, drawn, shared>>

\* exchangeDeviceCode answers with a token.  An approval by nobody is refused as
\* invalid_grant at every poll, and stays.
ExchangeToken(d) ==
  LET entry == byDevice[d]
  IN  /\ ~Expired(d) /\ entry.status = "authorized" /\ entry.sub # NoSub
      /\ deviceTokens' = deviceTokens \union
           {[device |-> d, client |-> entry.client, sub |-> entry.sub]}
      /\ Remove(d)
      /\ UNCHANGED <<now, readyAt, drawn, shared>>

DeviceNext ==
  \/ \E d \in Devices, code \in UserCodes, client \in Clients :
       CreateDeviceAuthorization(d, code, client)
  \/ \E code \in UserCodes :
       \/ \E sub \in Subs \union {NoSub} : ApproveDeviceByUserCode(code, sub)
       \/ DenyDeviceByUserCode(code)
  \/ \E d \in DOMAIN byDevice :
       \/ ExchangeClosed(d)
       \/ ExchangeSlowDown(d)
       \/ ExchangePending(d)
       \/ ExchangeToken(d)
  \/ Tick /\ UNCHANGED deviceVars

DeviceSpec == now = 0 /\ DeviceInit /\ [][DeviceNext]_<<now, deviceVars>>

-----------------------------------------------------------------------------
(* Correctness *)

Entries ==
  [userCode : UserCodes, client : Clients, sub : Subs \union {NoSub, NULL},
   status : {"pending", "authorized", "denied"}, expiresAt : Nat,
   lastPollAt : (0 .. MaxTime) \union {NULL}, interval : Nat]

\* Both maps, the clients' clocks and the histories keep their types, and no
\* entry is stored for a code that was not drawn.
DeviceTypes ==
  /\ now \in 0 .. MaxTime
  /\ byDevice \in [DOMAIN byDevice -> Entries]
  /\ byUser \in [DOMAIN byUser -> Devices] /\ DOMAIN byUser \subseteq UserCodes
  /\ DOMAIN byDevice \subseteq drawn /\ drawn \subseteq Devices
  /\ readyAt \in [drawn -> Nat] /\ shared \subseteq UserCodes
  /\ deviceTokens \subseteq [device : Devices, client : Clients, sub : Subs]

\* The typed code leads to a stored request that shows that code, even when two
\* devices were given the same one and either of them has polled or gone.
CodeFindsItsDevice ==
  \A code \in DOMAIN byUser :
    byUser[code] \in DOMAIN byDevice /\ byDevice[byUser[code]].userCode = code

\* Every stored request can be found by the code its user was shown, unless that
\* code was drawn again while a request held it: polls, decisions and the end of
\* other requests take it away from nobody.
DeviceIsFoundByItsCode ==
  \A d \in DOMAIN byDevice : byDevice[d].userCode \notin shared =>
    byDevice[d].userCode \in DOMAIN byUser /\ byUser[byDevice[d].userCode] = d

\* The two indexes of the store agree, as far as the two above go.
CodesMatchDevices == CodeFindsItsDevice /\ DeviceIsFoundByItsCode

\* A client that always waits as long as the last answer told it is never told
\* to slow down: only a poll before that time lengthens the interval.
PatientClientNeverSlowed ==
  [][\A d \in DOMAIN byDevice \intersect DOMAIN byDevice' :
       byDevice'[d].interval # byDevice[d].interval => now < readyAt[d]]_deviceVars

\* The stored request as the grant it stands for; one that is gone is closed.
Phase == [pending |-> "open", authorized |-> "approved", denied |-> "denied"]

GrantOf(d) ==
  CASE d \in DOMAIN byDevice -> [phase |-> Phase[byDevice[d].status],
                                 client |-> byDevice[d].client,
                                 sub |-> byDevice[d].sub]
    [] d \in drawn \ DOMAIN byDevice -> [phase |-> "closed", client |-> NULL, sub |-> NULL]
    [] OTHER -> [phase |-> "unasked", client |-> NULL, sub |-> NULL]

DG == INSTANCE DeviceGrant WITH
  grant <- [d \in Devices |-> GrantOf(d)],
  tokens <- deviceTokens,
  Subs <- Subs \union {NoSub}

\* The store implements the grant: one decision, which counts, one token at
\* most, for the user who approved and the client that asked.
GrantSpec == DG!Spec
=============================================================================
