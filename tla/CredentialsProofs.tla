-------------------------- MODULE CredentialsProofs --------------------------
(***************************************************************************)
(* Theorems about credentials that are spent: single-use links, device     *)
(* codes, authorization codes and refresh tokens, for any number of each   *)
(* and any length of a second; then about all that runs on one clock.      *)
(***************************************************************************)
EXTENDS MCSynchronous, LimitsProofs, SequenceTheorems

(***************************************************************************)
(* Links: one effect before the expiry second begins, for any number of    *)
(* links, flows and redemptions and any length of a second.                *)
(***************************************************************************)

\* What was accepted so far: the nth redemption of t has happened.
Accepted == {e \in Tokens \X Nat : 1 <= e[2] /\ e[2] <= redemptions[e[1]]}

LinkExpiryMs(t) == tokens[t].exp * Second

LinkClock ==
  /\ now \in Int
  /\ redemptions \in [Tokens -> Nat]
  /\ DOMAIN tokens \subseteq Tokens
  /\ \A t \in DOMAIN tokens : tokens[t].exp \in Int

\* The store remembers a redeemed link until its expiry is in the past.
LinkRemembered ==
  \A t \in Tokens : redemptions[t] > 0 =>
    /\ t \in DOMAIN tokens
    /\ now <= LinkExpiryMs(t) => t \in DOMAIN used /\ used[t] = LinkExpiryMs(t)

\* A second redemption only happens after that.
SecondIsLate ==
  \A t \in Tokens : redemptions[t] > 1 => now > LinkExpiryMs(t)

\* Flows and effects stem from redemptions.
Caused ==
  /\ acted \subseteq Accepted
  /\ \A c \in Calls : call[c] # NULL => call[c] \in Accepted
  /\ call \in [Calls -> (Tokens \X Nat) \union {NULL}]

LinkInv == LinkClock /\ LinkRemembered /\ SecondIsLate /\ Caused

LEMMA SecondIsInt == Second \in Int /\ Second # 0 /\ Ttl \in Int
  BY LinkAssumption, RuntimeAssumption

\* Initially nothing was redeemed.
LEMMA InitLinkInv == now = 0 /\ LinkInit => LinkInv
<1> SUFFICES ASSUME now = 0, LinkInit PROVE LinkInv
  OBVIOUS
<1>1. LinkClock
  BY DEF LinkInit, LinkClock, EmptyMap
<1>2. LinkRemembered /\ SecondIsLate
  BY DEF LinkInit, LinkRemembered, SecondIsLate
<1>3. Caused
  BY DEF LinkInit, Caused
<1> QED BY <1>1, <1>2, <1>3 DEF LinkInv

\* Signing a link does not touch the others.
LEMMA SignLinkInv ==
  ASSUME LinkInv, NEW t \in Tokens, NEW kind, NEW bound, SignLink(t, kind, bound)
  PROVE  LinkInv'
<1> USE DEF LinkInv
<1>1. /\ t \notin DOMAIN tokens
      /\ UNCHANGED <<now, used, call, redemptions, acted>>
      /\ DOMAIN tokens' = DOMAIN tokens \union {t}
      /\ \A u \in DOMAIN tokens : tokens'[u] = tokens[u]
      /\ tokens'[t].exp = (now + Ttl) \div Second
  BY DEF SignLink, MapSet
<1>2. (now + Ttl) \div Second \in Int
  BY RuntimeAssumption, LinkAssumption DEF LinkClock
<1>3. LinkClock'
  BY <1>1, <1>2 DEF LinkClock
<1>4. \A u \in DOMAIN tokens : LinkExpiryMs(u)' = LinkExpiryMs(u)
  BY <1>1 DEF LinkExpiryMs
<1>5. redemptions[t] = 0
  BY <1>1 DEF LinkRemembered, LinkClock
<1>6. LinkRemembered' /\ SecondIsLate'
  BY <1>1, <1>4, <1>5 DEF LinkRemembered, SecondIsLate, LinkClock
<1>7. Caused'
  BY <1>1 DEF Caused, Accepted
<1> QED BY <1>3, <1>6, <1>7

\* Reading the store drops an entry only when its expiry is in the past.
LEMMA RedeemElsewhereLinkInv ==
  ASSUME LinkInv, NEW t \in DOMAIN tokens, RedeemElsewhere(t)
  PROVE  LinkInv'
<1> USE DEF LinkInv
<1>1. /\ ~IsUsed(t)
      /\ used' = MapDelete(used, {t})
      /\ UNCHANGED <<now, tokens, call, redemptions, acted>>
  BY DEF RedeemElsewhere, Purged
<1>2. LinkExpiryMs(t) \in Int
  BY SecondIsInt DEF LinkClock, LinkExpiryMs
<1>3. redemptions[t] > 0 => now > LinkExpiryMs(t)
  BY <1>1, <1>2 DEF LinkRemembered, IsUsed, LinkClock
<1>4. \A u \in Tokens \ {t} :
        /\ u \in DOMAIN used => u \in DOMAIN used'
        /\ u \in DOMAIN used' => used'[u] = used[u]
  BY <1>1 DEF MapDelete
<1>5. LinkClock' /\ SecondIsLate' /\ Caused'
  BY <1>1 DEF LinkClock, SecondIsLate, Caused, Accepted, LinkExpiryMs
<1>6. ASSUME NEW u \in Tokens, redemptions'[u] > 0, now' <= LinkExpiryMs(u)'
      PROVE  u \in DOMAIN used' /\ used'[u] = LinkExpiryMs(u)'
  <2>1. now <= LinkExpiryMs(u) /\ redemptions[u] > 0 /\ LinkExpiryMs(u)' = LinkExpiryMs(u)
    BY <1>1, <1>6 DEF LinkExpiryMs
  <2>2. u # t
    BY <2>1, <1>2, <1>3 DEF LinkClock
  <2> QED BY <2>1, <2>2, <1>4 DEF LinkRemembered
<1>7. LinkRemembered'
  BY <1>1, <1>6 DEF LinkRemembered
<1> QED BY <1>5, <1>7

\* A redemption is remembered from the moment it happens, and is not the first
\* one only if the store had forgotten, when the expiry was in the past.
LEMMA SpendLinkInv ==
  ASSUME LinkInv, NEW t \in DOMAIN tokens, NEW kind, Spend(t, kind),
         \/ UNCHANGED call
         \/ \E c \in Calls : call' = [call EXCEPT ![c] = <<t, redemptions[t] + 1>>]
  PROVE  LinkInv'
<1> USE DEF LinkInv
<1>1. /\ ~IsUsed(t)
      /\ used' = MapSet(Purged(t), t, LinkExpiryMs(t))
      /\ redemptions' = [redemptions EXCEPT ![t] = @ + 1]
      /\ UNCHANGED <<now, tokens, acted>>
      /\ t \in Tokens
  BY DEF Spend, LinkExpiryMs, LinkClock
<1>2. LinkExpiryMs(t) \in Int
  BY SecondIsInt DEF LinkClock, LinkExpiryMs
<1>3. redemptions[t] > 0 => now > LinkExpiryMs(t)
  BY <1>1, <1>2 DEF LinkRemembered, IsUsed, LinkClock
<1>4. /\ t \in DOMAIN used' /\ used'[t] = LinkExpiryMs(t)
      /\ \A u \in Tokens \ {t} :
           /\ u \in DOMAIN used => u \in DOMAIN used'
           /\ u \in DOMAIN used => used'[u] = used[u]
  BY <1>1 DEF MapSet, MapDelete, Purged
<1>5. \A u : LinkExpiryMs(u)' = LinkExpiryMs(u)
  BY <1>1 DEF LinkExpiryMs
<1>6. \A u \in Tokens : redemptions'[u] = IF u = t THEN redemptions[u] + 1 ELSE redemptions[u]
  BY <1>1 DEF LinkClock
<1>7. LinkClock'
  BY <1>1 DEF LinkClock
<1>8. LinkRemembered'
  BY <1>1, <1>4, <1>5, <1>6 DEF LinkRemembered
<1>9. SecondIsLate'
  BY <1>1, <1>3, <1>5, <1>6 DEF SecondIsLate, LinkClock
<1>10. Accepted \subseteq Accepted' /\ <<t, redemptions[t] + 1>> \in Accepted'
  BY <1>1, <1>6 DEF Accepted, LinkClock
<1>11. Caused'
  <2>1. CASE UNCHANGED call
    BY <2>1, <1>1, <1>10 DEF Caused
  <2>2. ASSUME NEW c \in Calls, call' = [call EXCEPT ![c] = <<t, redemptions[t] + 1>>]
        PROVE  Caused'
    BY <2>2, <1>1, <1>10 DEF Caused, LinkClock
  <2> QED BY <2>1, <2>2
<1> QED BY <1>7, <1>8, <1>9, <1>11

\* A flow acts on its own redemption, or not at all.
LEMMA EndsLinkInv ==
  ASSUME LinkInv, NEW c \in Calls, NEW kind, NEW effect \in SUBSET {call[c]}, Ends(c, kind, effect)
  PROVE  LinkInv'
<1> USE DEF LinkInv
<1>1. /\ call[c] # NULL
      /\ call' = [call EXCEPT ![c] = NULL]
      /\ acted' \subseteq acted \union {call[c]}
      /\ UNCHANGED <<now, tokens, used, redemptions>>
  BY DEF Ends
<1>2. LinkClock' /\ LinkRemembered' /\ SecondIsLate'
  BY <1>1 DEF LinkClock, LinkRemembered, SecondIsLate, LinkExpiryMs
<1>3. Caused'
  BY <1>1 DEF Caused, Accepted
<1> QED BY <1>2, <1>3

\* Time only makes an expiry lie further back.
LEMMA TickLinkInv ==
  ASSUME LinkInv, Tick, UNCHANGED linkVars
  PROVE  LinkInv'
<1> USE DEF LinkInv
<1>1. now' = now + 1 /\ UNCHANGED <<tokens, used, call, redemptions, acted>>
  BY DEF Tick, linkVars
<1>2. \A t \in DOMAIN tokens : LinkExpiryMs(t) \in Int /\ LinkExpiryMs(t)' = LinkExpiryMs(t)
  BY <1>1, SecondIsInt DEF LinkClock, LinkExpiryMs
<1>3. LinkClock'
  BY <1>1 DEF LinkClock
<1>4. LinkRemembered' /\ SecondIsLate'
  BY <1>1, <1>2 DEF LinkRemembered, SecondIsLate, LinkClock
<1>5. Caused'
  BY <1>1 DEF Caused, Accepted
<1> QED BY <1>3, <1>4, <1>5

LEMMA NextLinkInv == LinkInv /\ [LinkNext]_<<now, linkVars>> => LinkInv'
<1> SUFFICES ASSUME LinkInv, [LinkNext]_<<now, linkVars>> PROVE LinkInv'
  OBVIOUS
<1>1. CASE UNCHANGED <<now, linkVars>>
  BY <1>1 DEF linkVars, LinkInv, LinkClock, LinkRemembered, SecondIsLate, Caused, Accepted, LinkExpiryMs
<1>2. ASSUME NEW t \in Tokens,
             \/ \E bound \in BOOLEAN : RequestMagicLink(t, bound)
             \/ RequestPasswordReset(t)
             \/ SendEmailVerification(t)
             \/ CreateConfirmationToken(t)
      PROVE  LinkInv'
  BY <1>2, SignLinkInv DEF RequestMagicLink, RequestPasswordReset,
                            SendEmailVerification, CreateMagicLinkToken,
                            CreatePasswordResetToken, CreateEmailVerificationToken,
                            CreateConfirmationToken
<1>3. ASSUME NEW t \in DOMAIN tokens, RedeemElsewhere(t) \/ ConfirmationMismatch(t)
      PROVE  LinkInv'
  BY <1>3, RedeemElsewhereLinkInv, SpendLinkInv DEF ConfirmationMismatch
<1>4. ASSUME NEW c \in Calls, NEW t \in DOMAIN tokens, NEW kind, Redeem(c, t, kind)
      PROVE  LinkInv'
  BY <1>4, SpendLinkInv DEF Redeem
<1>5. ASSUME NEW c \in Calls, NEW t \in DOMAIN tokens,
             \/ VerifyMagicLinkToken(c, t)
             \/ VerifyPasswordResetToken(c, t)
             \/ VerifyEmailVerificationToken(c, t)
             \/ VerifyConfirmationToken(c, t)
      PROVE  LinkInv'
  BY <1>4, <1>5 DEF VerifyMagicLinkToken, VerifyPasswordResetToken,
                    VerifyEmailVerificationToken, VerifyConfirmationToken
<1>6. ASSUME NEW c \in Calls,
             \/ VerifyMagicLink(c)
             \/ ResetPasswordWithToken(c)
             \/ VerifyEmailWithToken(c)
             \/ ExecuteSensitiveOperation(c)
      PROVE  LinkInv'
  <2>1. {} \in SUBSET {call[c]} /\ {call[c]} \in SUBSET {call[c]}
    OBVIOUS
  <2> QED BY <1>6, <2>1, EndsLinkInv DEF VerifyMagicLink, ResetPasswordWithToken,
                                      VerifyEmailWithToken, ExecuteSensitiveOperation
<1> QED BY <1>1, <1>2, <1>3, <1>5, <1>6, TickLinkInv DEF LinkNext

\* The invariant leaves room for one effect of a link that is not yet past its
\* expiry: its only redemption is the first.
LEMMA LinkInvImpliesOneEffect == LinkInv => OneEffectBeforeExpiry
<1> SUFFICES ASSUME LinkInv, NEW t \in DOMAIN tokens, now <= tokens[t].exp * Second,
                    NEW i \in acted, NEW j \in acted, i[1] = t, j[1] = t
             PROVE  i = j
  BY DEF OneEffectBeforeExpiry
<1>1. t \in Tokens /\ LinkExpiryMs(t) \in Int /\ now \in Int
  BY SecondIsInt DEF LinkInv, LinkClock, LinkExpiryMs
<1>2. ~(redemptions[t] > 1)
  BY <1>1 DEF LinkInv, SecondIsLate, LinkExpiryMs
<1>3. i \in Accepted /\ j \in Accepted
  BY DEF LinkInv, Caused
<1>4. i[2] = 1 /\ j[2] = 1
  BY <1>1, <1>2, <1>3 DEF Accepted, LinkInv, LinkClock
<1> QED BY <1>3, <1>4 DEF Accepted

\* Until its expiry second has begun, a link has one effect at most, however
\* often and by however many flows it is presented (verifyMagicLinkToken and its
\* three siblings with their in-memory stores).
THEOREM OneEffect == LinkSpec => []OneEffectBeforeExpiry
<1>1. LinkInv /\ [LinkNext]_<<now, linkVars>> => LinkInv'
  BY NextLinkInv
<1> QED BY InitLinkInv, <1>1, LinkInvImpliesOneEffect, PTL DEF LinkSpec

(***************************************************************************)
(* Device codes: the store implements the grant for any number of codes,   *)
(* clients and users, whether or not user codes collide.                   *)
(***************************************************************************)

StoreTypes ==
  /\ byDevice \in [DOMAIN byDevice -> Entries]
  /\ byUser \in [DOMAIN byUser -> Devices]
  /\ DOMAIN byUser \subseteq UserCodes
  /\ DOMAIN byDevice \subseteq drawn

HistoryTypes ==
  /\ now \in 0 .. MaxTime
  /\ drawn \subseteq Devices
  /\ readyAt \in [drawn -> Nat] /\ shared \subseteq UserCodes
  /\ deviceTokens \subseteq [device : Devices, client : Clients, sub : Subs]

\* An authorized request was authorized by somebody, or by the empty subject.
ApprovedBySomebody ==
  \A d \in DOMAIN byDevice :
    byDevice[d].status = "authorized" => byDevice[d].sub \in Subs \union {NoSub}

DeviceInv == StoreTypes /\ HistoryTypes /\ ApprovedBySomebody /\ CodeFindsItsDevice

LEMMA ConstantsAreNat ==
  /\ ExpiresIn \in Nat /\ Interval \in Nat /\ SlowDownExtra \in Nat
  /\ MaxTime \in Nat /\ MaxInterval \in Nat
  BY DeviceAssumption, RuntimeAssumption

-----------------------------------------------------------------------------
(* What the operations of the store do to its invariant *)

\* An entry that is written and indexed under its code keeps the index right.
LEMMA IndexedWrite ==
  ASSUME DeviceInv, NEW d \in Devices, NEW entry \in Entries,
         entry.status = "authorized" => entry.sub \in Subs \union {NoSub},
         d \in DOMAIN byDevice => byDevice[d].userCode = entry.userCode,
         byDevice' = MapSet(byDevice, d, entry),
         byUser' = MapSet(byUser, entry.userCode, d),
         DOMAIN byDevice \union {d} \subseteq drawn'
  PROVE  StoreTypes' /\ ApprovedBySomebody' /\ CodeFindsItsDevice'
<1> USE DEF DeviceInv
<1>1. /\ DOMAIN byDevice' = DOMAIN byDevice \union {d}
      /\ \A e \in DOMAIN byDevice' : byDevice'[e] = IF e = d THEN entry ELSE byDevice[e]
      /\ DOMAIN byUser' = DOMAIN byUser \union {entry.userCode}
      /\ \A k \in DOMAIN byUser' : byUser'[k] = IF k = entry.userCode THEN d ELSE byUser[k]
      /\ byDevice' = [e \in DOMAIN byDevice' |-> byDevice'[e]]
      /\ byUser' = [k \in DOMAIN byUser' |-> byUser'[k]]
  BY DEF MapSet
<1>2. entry.userCode \in UserCodes
  BY DEF Entries
<1>3. StoreTypes'
  BY <1>1, <1>2 DEF StoreTypes
<1>4. ApprovedBySomebody'
  BY <1>1 DEF ApprovedBySomebody
<1>5. CodeFindsItsDevice'
  BY <1>1 DEF CodeFindsItsDevice
<1> QED BY <1>3, <1>4, <1>5

\* Removing an entry with its code leaves no code behind that leads to it.
LEMMA RemoveKeepsIndex ==
  ASSUME DeviceInv, NEW d \in DOMAIN byDevice, Remove(d), UNCHANGED drawn
  PROVE  /\ StoreTypes' /\ ApprovedBySomebody' /\ CodeFindsItsDevice'
         /\ DOMAIN byDevice' = DOMAIN byDevice \ {d}
         /\ \A e \in DOMAIN byDevice' : byDevice'[e] = byDevice[e]
<1> USE DEF DeviceInv
<1>1. /\ DOMAIN byDevice' = DOMAIN byDevice \ {d}
      /\ \A e \in DOMAIN byDevice' : byDevice'[e] = byDevice[e]
      /\ DOMAIN byUser' = DOMAIN byUser \ {byDevice[d].userCode}
      /\ \A k \in DOMAIN byUser' : byUser'[k] = byUser[k]
      /\ byDevice' = [e \in DOMAIN byDevice' |-> byDevice'[e]]
      /\ byUser' = [k \in DOMAIN byUser' |-> byUser'[k]]
  BY DEF Remove, MapDelete
<1>2. StoreTypes'
  BY <1>1 DEF StoreTypes
<1>3. ApprovedBySomebody' /\ CodeFindsItsDevice'
  BY <1>1 DEF ApprovedBySomebody, CodeFindsItsDevice
<1> QED BY <1>1, <1>2, <1>3

-----------------------------------------------------------------------------
(* What the operations do to the grants *)

\* A code whose entry and history stay keeps its grant.
LEMMA GrantKept ==
  ASSUME NEW e,
         e \in DOMAIN byDevice <=> e \in DOMAIN byDevice',
         e \in drawn <=> e \in drawn',
         e \in DOMAIN byDevice =>
           /\ byDevice'[e].status = byDevice[e].status
           /\ byDevice'[e].client = byDevice[e].client
           /\ byDevice'[e].sub = byDevice[e].sub
  PROVE  GrantOf(e)' = GrantOf(e)
  BY DEF GrantOf, Phase

\* The grant of a stored request and of one that is gone.
LEMMA GrantOfStored ==
  ASSUME NEW d \in DOMAIN byDevice
  PROVE  GrantOf(d) = [phase |-> Phase[byDevice[d].status],
                       client |-> byDevice[d].client, sub |-> byDevice[d].sub]
  BY DEF GrantOf

LEMMA GrantOfGone ==
  ASSUME NEW d \in drawn, d \notin DOMAIN byDevice
  PROVE  GrantOf(d) = DG!Closed
  BY DEF GrantOf, DG!Closed

LEMMA GrantOfUndrawn ==
  ASSUME NEW d, d \notin drawn, d \notin DOMAIN byDevice
  PROVE  GrantOf(d) = DG!Unasked
  BY DEF GrantOf, DG!Unasked

\* One grant changes, the map of all of them follows.
LEMMA OneGrantChanges ==
  ASSUME NEW d \in Devices, NEW g, GrantOf(d)' = g,
         \A e \in Devices \ {d} : GrantOf(e)' = GrantOf(e)
  PROVE  [e \in Devices |-> GrantOf(e)]' = [[e \in Devices |-> GrantOf(e)] EXCEPT ![d] = g]
  OBVIOUS

-----------------------------------------------------------------------------
(* The initial state and the steps *)

LEMMA InitDeviceInv == now = 0 /\ DeviceInit => DeviceInv
<1> SUFFICES ASSUME now = 0, DeviceInit PROVE DeviceInv
  OBVIOUS
<1>1. StoreTypes /\ ApprovedBySomebody /\ CodeFindsItsDevice
  BY DEF DeviceInit, EmptyMap, StoreTypes, ApprovedBySomebody, CodeFindsItsDevice
<1>2. HistoryTypes
  BY ConstantsAreNat DEF DeviceInit, EmptyMap, HistoryTypes
<1> QED BY <1>1, <1>2 DEF DeviceInv

LEMMA InitGrant == DeviceInit => DG!Init
<1> SUFFICES ASSUME DeviceInit PROVE DG!Init
  OBVIOUS
<1>1. \A d \in Devices : GrantOf(d) = DG!Unasked
  BY GrantOfUndrawn DEF DeviceInit, EmptyMap
<1> QED BY <1>1 DEF DeviceInit, DG!Init

\* A new code opens a grant, even if its user code is taken.
LEMMA CreateStep ==
  ASSUME DeviceInv, NEW d \in Devices, NEW code \in UserCodes, NEW client \in Clients,
         CreateDeviceAuthorization(d, code, client)
  PROVE  DeviceInv' /\ DG!Ask(d, client)
<1> DEFINE entry == [userCode |-> code, client |-> client, status |-> "pending",
                     sub |-> NULL, expiresAt |-> now + ExpiresIn, lastPollAt |-> NULL,
                     interval |-> Interval]
<1>1. /\ d \notin drawn
      /\ byDevice' = MapSet(byDevice, d, entry)
      /\ byUser' = MapSet(byUser, entry.userCode, d)
      /\ readyAt' = MapSet(readyAt, d, now)
      /\ drawn' = drawn \union {d}
      /\ shared' \subseteq UserCodes /\ UNCHANGED <<now, deviceTokens>>
  BY DEF CreateDeviceAuthorization, Save, DeviceInv, HistoryTypes
<1>2. entry \in Entries
  BY ConstantsAreNat DEF Entries, DeviceInv, HistoryTypes
<1>3. d \notin DOMAIN byDevice
  BY <1>1 DEF DeviceInv, StoreTypes
<1>4. StoreTypes' /\ ApprovedBySomebody' /\ CodeFindsItsDevice'
  BY <1>1, <1>2, <1>3, IndexedWrite DEF DeviceInv, StoreTypes
<1>5. HistoryTypes'
  BY <1>1, ConstantsAreNat DEF DeviceInv, HistoryTypes, MapSet
<1>6. /\ DOMAIN byDevice' = DOMAIN byDevice \union {d}
      /\ byDevice'[d] = entry
      /\ \A e \in DOMAIN byDevice : byDevice'[e] = byDevice[e]
  BY <1>1, <1>3 DEF MapSet
<1>7. \A e \in Devices \ {d} : GrantOf(e)' = GrantOf(e)
  BY <1>1, <1>6, GrantKept
<1>8. GrantOf(d) = DG!Unasked
  BY <1>1, <1>3, GrantOfUndrawn
<1>9. GrantOf(d)' = [phase |-> "open", client |-> client, sub |-> NULL]
  BY <1>6 DEF GrantOf, Phase
<1>10. [e \in Devices |-> GrantOf(e)]' =
         [[e \in Devices |-> GrantOf(e)] EXCEPT
            ![d] = [phase |-> "open", client |-> client, sub |-> NULL]]
  BY <1>7, <1>9, OneGrantChanges
<1>11. DG!Ask(d, client)
  BY <1>1, <1>8, <1>10 DEF DG!Ask, DG!Unasked
<1> QED BY <1>4, <1>5, <1>11 DEF DeviceInv

\* Writing back an entry that keeps its code and client keeps the invariant.
LEMMA UpdateStep ==
  ASSUME DeviceInv, NEW d \in DOMAIN byDevice, NEW entry \in Entries, Update(d, entry),
         entry.status = "authorized" => entry.sub \in Subs \union {NoSub},
         entry.userCode = byDevice[d].userCode,
         readyAt' \in [drawn -> Nat],
         UNCHANGED <<now, drawn, shared, deviceTokens>>
  PROVE  /\ DeviceInv'
         /\ d \in Devices
         /\ GrantOf(d)' = [phase |-> Phase[entry.status], client |-> entry.client,
                           sub |-> entry.sub]
         /\ \A e \in Devices \ {d} : GrantOf(e)' = GrantOf(e)
<1>1. d \in Devices /\ d \in drawn /\ DOMAIN byDevice \subseteq drawn'
  BY DEF DeviceInv, StoreTypes, HistoryTypes
<1>2. StoreTypes' /\ ApprovedBySomebody' /\ CodeFindsItsDevice'
  BY <1>1, IndexedWrite DEF Update
<1>3. HistoryTypes'
  BY DEF DeviceInv, HistoryTypes
<1>4. /\ DOMAIN byDevice' = DOMAIN byDevice
      /\ byDevice'[d] = entry
      /\ \A e \in DOMAIN byDevice \ {d} : byDevice'[e] = byDevice[e]
  BY DEF Update, MapSet
<1>5. \A e \in Devices \ {d} : GrantOf(e)' = GrantOf(e)
  BY <1>4, GrantKept
<1>6. GrantOf(d)' = [phase |-> Phase[entry.status], client |-> entry.client,
                     sub |-> entry.sub]
  BY <1>4 DEF GrantOf
<1> QED BY <1>1, <1>2, <1>3, <1>5, <1>6 DEF DeviceInv

\* An approval decides the grant of the device the code leads to.
LEMMA ApproveStep ==
  ASSUME DeviceInv, NEW code \in UserCodes, NEW sub \in Subs \union {NoSub},
         ApproveDeviceByUserCode(code, sub)
  PROVE  DeviceInv' /\ \E d \in Devices : DG!Approve(d, sub)
<1>1. PICK d \in DOMAIN byDevice : d = byUser[code] /\ byDevice[d] \in Entries
  BY DEF ApproveDeviceByUserCode, DeviceInv, CodeFindsItsDevice, StoreTypes
<1>2. /\ byDevice[d].status = "pending"
      /\ Update(d, [byDevice[d] EXCEPT !.status = "authorized", !.sub = sub])
      /\ UNCHANGED <<now, readyAt, drawn, shared, deviceTokens>>
  BY <1>1 DEF ApproveDeviceByUserCode
<1>3. PICK entry \in Entries :
        /\ entry.status = "authorized" /\ entry.sub = sub
        /\ entry.client = byDevice[d].client /\ entry.userCode = byDevice[d].userCode
        /\ Update(d, entry)
  <2> DEFINE decided == [byDevice[d] EXCEPT !.status = "authorized", !.sub = sub]
  <2>1. /\ decided \in Entries
        /\ decided.status = "authorized" /\ decided.sub = sub
        /\ decided.client = byDevice[d].client
        /\ decided.userCode = byDevice[d].userCode
    BY <1>1 DEF Entries
  <2>2. Update(d, decided)
    BY <1>2
  <2> HIDE DEF decided
  <2> QED BY <2>1, <2>2
<1>4. readyAt' \in [drawn -> Nat]
  BY <1>2 DEF DeviceInv, HistoryTypes
<1>5. /\ DeviceInv' /\ d \in Devices
      /\ GrantOf(d)' = [phase |-> Phase[entry.status], client |-> entry.client,
                        sub |-> entry.sub]
      /\ \A e \in Devices \ {d} : GrantOf(e)' = GrantOf(e)
  BY <1>2, <1>3, <1>4, UpdateStep
<1>6. GrantOf(d) = [phase |-> "open", client |-> byDevice[d].client, sub |-> byDevice[d].sub]
  BY <1>2, GrantOfStored DEF Phase
<1>7. GrantOf(d)' = [phase |-> "approved", client |-> byDevice[d].client, sub |-> sub]
  BY <1>3, <1>5 DEF Phase
<1>8. GrantOf(d)' = [phase |-> "approved", client |-> GrantOf(d).client, sub |-> sub]
  BY <1>6, <1>7
<1>9. [e \in Devices |-> GrantOf(e)]' =
        [[e \in Devices |-> GrantOf(e)] EXCEPT
           ![d] = [phase |-> "approved", client |-> GrantOf(d).client, sub |-> sub]]
  BY <1>5, <1>8, OneGrantChanges
<1>10. [e \in Devices |-> GrantOf(e)][d] = GrantOf(d) /\ GrantOf(d).phase = "open"
  BY <1>5, <1>6
<1>11. DG!Approve(d, sub)
  BY <1>2, <1>9, <1>10 DEF DG!Approve
<1> QED BY <1>5, <1>11

LEMMA DenyStep ==
  ASSUME DeviceInv, NEW code \in UserCodes, DenyDeviceByUserCode(code)
  PROVE  DeviceInv' /\ \E d \in Devices : DG!Deny(d)
<1>1. PICK d \in DOMAIN byDevice : d = byUser[code] /\ byDevice[d] \in Entries
  BY DEF DenyDeviceByUserCode, DeviceInv, CodeFindsItsDevice, StoreTypes
<1>2. /\ byDevice[d].status = "pending"
      /\ Update(d, [byDevice[d] EXCEPT !.status = "denied"])
      /\ UNCHANGED <<now, readyAt, drawn, shared, deviceTokens>>
  BY <1>1 DEF DenyDeviceByUserCode
<1>3. PICK entry \in Entries :
        /\ entry.status = "denied" /\ entry.sub = byDevice[d].sub
        /\ entry.client = byDevice[d].client /\ entry.userCode = byDevice[d].userCode
        /\ Update(d, entry)
  <2> DEFINE decided == [byDevice[d] EXCEPT !.status = "denied"]
  <2>1. /\ decided \in Entries
        /\ decided.status = "denied" /\ decided.sub = byDevice[d].sub
        /\ decided.client = byDevice[d].client
        /\ decided.userCode = byDevice[d].userCode
    BY <1>1 DEF Entries
  <2>2. Update(d, decided)
    BY <1>2
  <2> HIDE DEF decided
  <2> QED BY <2>1, <2>2
<1>4. readyAt' \in [drawn -> Nat]
  BY <1>2 DEF DeviceInv, HistoryTypes
<1>5. /\ DeviceInv' /\ d \in Devices
      /\ GrantOf(d)' = [phase |-> Phase[entry.status], client |-> entry.client,
                        sub |-> entry.sub]
      /\ \A e \in Devices \ {d} : GrantOf(e)' = GrantOf(e)
  BY <1>2, <1>3, <1>4, UpdateStep
<1>6. GrantOf(d) = [phase |-> "open", client |-> byDevice[d].client, sub |-> byDevice[d].sub]
  BY <1>2, GrantOfStored DEF Phase
<1>7. GrantOf(d)' = [phase |-> "denied", client |-> byDevice[d].client, sub |-> byDevice[d].sub]
  BY <1>3, <1>5 DEF Phase
<1>8. GrantOf(d)' = [GrantOf(d) EXCEPT !.phase = "denied"]
  BY <1>6, <1>7
<1>9. [e \in Devices |-> GrantOf(e)]' =
        [[e \in Devices |-> GrantOf(e)] EXCEPT ![d] = [GrantOf(d) EXCEPT !.phase = "denied"]]
  BY <1>5, <1>8, OneGrantChanges
<1>10. [e \in Devices |-> GrantOf(e)][d] = GrantOf(d) /\ GrantOf(d).phase = "open"
  BY <1>5, <1>6
<1>11. DG!Deny(d)
  BY <1>2, <1>9, <1>10 DEF DG!Deny
<1> QED BY <1>5, <1>11

\* A poll of a pending request changes its pace, and no grant.
LEMMA PollStep ==
  ASSUME DeviceInv, NEW d \in DOMAIN byDevice, ExchangeSlowDown(d) \/ ExchangePending(d)
  PROVE  DeviceInv' /\ UNCHANGED DG!vars
<1>1. byDevice[d] \in Entries /\ byDevice[d].interval \in Nat /\ now \in Nat
  BY DEF DeviceInv, StoreTypes, HistoryTypes, Entries
<1>2. PICK entry \in Entries :
        /\ Update(d, entry)
        /\ entry.status = byDevice[d].status /\ entry.sub = byDevice[d].sub
        /\ entry.client = byDevice[d].client /\ entry.userCode = byDevice[d].userCode
        /\ byDevice[d].status = "pending"
        /\ readyAt' \in [drawn -> Nat]
        /\ UNCHANGED <<now, drawn, shared, deviceTokens>>
  <2>1. CASE ExchangeSlowDown(d)
    <3> DEFINE slowed == [byDevice[d] EXCEPT !.lastPollAt = now,
                                             !.interval = @ + SlowDownExtra]
    <3>1. slowed \in Entries
      <4>1. byDevice[d].interval + SlowDownExtra \in Nat /\ now \in 0 .. MaxTime
        BY <1>1, ConstantsAreNat DEF DeviceInv, HistoryTypes
      <4> QED BY <1>1, <4>1 DEF Entries
    <3>2. now + byDevice[d].interval + SlowDownExtra \in Nat
      BY <1>1, ConstantsAreNat
    <3>3. readyAt' \in [drawn -> Nat]
      BY <2>1, <3>2 DEF ExchangeSlowDown, DeviceInv, HistoryTypes
    <3>4. /\ slowed.status = byDevice[d].status /\ slowed.sub = byDevice[d].sub
          /\ slowed.client = byDevice[d].client
          /\ slowed.userCode = byDevice[d].userCode
      BY <1>1 DEF Entries
    <3>5. /\ Update(d, slowed) /\ byDevice[d].status = "pending"
          /\ UNCHANGED <<now, drawn, shared, deviceTokens>>
      BY <2>1 DEF ExchangeSlowDown
    <3> HIDE DEF slowed
    <3> QED BY <3>1, <3>3, <3>4, <3>5
  <2>2. CASE ExchangePending(d)
    <3> DEFINE polled == [byDevice[d] EXCEPT !.lastPollAt = now]
    <3>1. polled \in Entries
      BY <1>1 DEF Entries, DeviceInv, HistoryTypes
    <3>2. now + byDevice[d].interval \in Nat
      BY <1>1
    <3>3. readyAt' \in [drawn -> Nat]
      BY <2>2, <3>2 DEF ExchangePending, DeviceInv, HistoryTypes
    <3>4. /\ polled.status = byDevice[d].status /\ polled.sub = byDevice[d].sub
          /\ polled.client = byDevice[d].client
          /\ polled.userCode = byDevice[d].userCode
      BY <1>1 DEF Entries
    <3>5. /\ Update(d, polled) /\ byDevice[d].status = "pending"
          /\ UNCHANGED <<now, drawn, shared, deviceTokens>>
      BY <2>2 DEF ExchangePending
    <3> HIDE DEF polled
    <3> QED BY <3>1, <3>3, <3>4, <3>5
  <2> QED BY <2>1, <2>2
<1>3. /\ DeviceInv' /\ d \in Devices
      /\ GrantOf(d)' = [phase |-> Phase[entry.status], client |-> entry.client,
                        sub |-> entry.sub]
      /\ \A e \in Devices \ {d} : GrantOf(e)' = GrantOf(e)
  BY <1>2, UpdateStep
<1>4. GrantOf(d)' = GrantOf(d)
  BY <1>2, <1>3, GrantOfStored
<1>5. \A e \in Devices : GrantOf(e)' = GrantOf(e)
  BY <1>3, <1>4
<1> QED BY <1>2, <1>3, <1>5 DEF DG!vars

\* Removing an entry closes its grant and no other.
LEMMA RemoveStep ==
  ASSUME DeviceInv, NEW d \in DOMAIN byDevice, Remove(d), UNCHANGED <<now, readyAt, drawn, shared>>,
         deviceTokens' \subseteq [device : Devices, client : Clients, sub : Subs]
  PROVE  /\ DeviceInv' /\ d \in Devices
         /\ GrantOf(d)' = DG!Closed
         /\ \A e \in Devices \ {d} : GrantOf(e)' = GrantOf(e)
<1>1. /\ StoreTypes' /\ ApprovedBySomebody' /\ CodeFindsItsDevice'
      /\ DOMAIN byDevice' = DOMAIN byDevice \ {d}
      /\ \A e \in DOMAIN byDevice' : byDevice'[e] = byDevice[e]
  BY RemoveKeepsIndex
<1>2. HistoryTypes' /\ d \in Devices /\ d \in drawn
  BY DEF DeviceInv, HistoryTypes, StoreTypes
<1>3. \A e \in Devices \ {d} : GrantOf(e)' = GrantOf(e)
  BY <1>1, GrantKept
<1>4. GrantOf(d)' = DG!Closed
  BY <1>1, <1>2 DEF GrantOf, DG!Closed
<1> QED BY <1>1, <1>2, <1>3, <1>4 DEF DeviceInv

LEMMA ClosedStep ==
  ASSUME DeviceInv, NEW d \in DOMAIN byDevice, ExchangeClosed(d)
  PROVE  DeviceInv' /\ d \in Devices /\ DG!Close(d)
<1>1. Remove(d) /\ UNCHANGED <<now, readyAt, drawn, shared, deviceTokens>>
  BY DEF ExchangeClosed
<1>2. /\ DeviceInv' /\ d \in Devices
      /\ GrantOf(d)' = DG!Closed
      /\ \A e \in Devices \ {d} : GrantOf(e)' = GrantOf(e)
  BY <1>1, RemoveStep DEF DeviceInv, HistoryTypes
<1>3. byDevice[d].status \in {"pending", "authorized", "denied"}
  BY DEF DeviceInv, StoreTypes, Entries
<1>4. GrantOf(d).phase \in {"open", "approved", "denied"}
  BY <1>3, GrantOfStored DEF Phase
<1> QED BY <1>1, <1>2, <1>4 DEF DG!Close

\* The token is for the client that asked and the user who approved.
LEMMA DeviceTokenStep ==
  ASSUME DeviceInv, NEW d \in DOMAIN byDevice, ExchangeToken(d)
  PROVE  DeviceInv' /\ d \in Devices /\ DG!Issue(d)
<1>1. /\ byDevice[d].status = "authorized" /\ byDevice[d].sub # NoSub
      /\ deviceTokens' = deviceTokens \union
           {[device |-> d, client |-> byDevice[d].client, sub |-> byDevice[d].sub]}
      /\ Remove(d)
      /\ UNCHANGED <<now, readyAt, drawn, shared>>
  BY DEF ExchangeToken
<1>2. byDevice[d].sub \in Subs /\ byDevice[d].client \in Clients /\ d \in Devices
  BY <1>1 DEF DeviceInv, ApprovedBySomebody, StoreTypes, Entries, HistoryTypes
<1>3. deviceTokens' \subseteq [device : Devices, client : Clients, sub : Subs]
  BY <1>1, <1>2 DEF DeviceInv, HistoryTypes
<1>4. /\ DeviceInv'
      /\ GrantOf(d)' = DG!Closed
      /\ \A e \in Devices \ {d} : GrantOf(e)' = GrantOf(e)
  BY <1>1, <1>3, RemoveStep
<1>5. GrantOf(d) = [phase |-> "approved", client |-> byDevice[d].client,
                    sub |-> byDevice[d].sub]
  BY <1>1, GrantOfStored DEF Phase
<1>6. [e \in Devices |-> GrantOf(e)]' =
        [[e \in Devices |-> GrantOf(e)] EXCEPT ![d] = DG!Closed]
  BY <1>2, <1>4, OneGrantChanges
<1>7. DG!Issue(d)
  BY <1>1, <1>2, <1>5, <1>6 DEF DG!Issue
<1> QED BY <1>2, <1>4, <1>7

\* Time, and steps that change nothing, move no grant.
LEMMA DeviceTick ==
  ASSUME DeviceInv, (Tick /\ UNCHANGED deviceVars) \/ UNCHANGED <<now, deviceVars>>
  PROVE  DeviceInv' /\ UNCHANGED DG!vars
<1>1. UNCHANGED <<byDevice, byUser, readyAt, drawn, shared, deviceTokens>> /\ now' \in 0 .. MaxTime
  BY ConstantsAreNat DEF Tick, deviceVars, DeviceInv, HistoryTypes
<1>2. DeviceInv'
  BY <1>1 DEF DeviceInv, StoreTypes, HistoryTypes, ApprovedBySomebody, CodeFindsItsDevice
<1>3. \A e \in Devices : GrantOf(e)' = GrantOf(e)
  BY <1>1, GrantKept
<1> QED BY <1>1, <1>2, <1>3 DEF DG!vars

LEMMA DeviceNextKeeps == DeviceInv /\ [DeviceNext]_<<now, deviceVars>> => DeviceInv' /\ [DG!Next]_(DG!vars)
<1> SUFFICES ASSUME DeviceInv, [DeviceNext]_<<now, deviceVars>> PROVE DeviceInv' /\ [DG!Next]_(DG!vars)
  OBVIOUS
<1>1. CASE \E d \in Devices, code \in UserCodes, client \in Clients :
             CreateDeviceAuthorization(d, code, client)
  BY <1>1, CreateStep DEF DG!Next
<1>2. CASE \E code \in UserCodes :
             \/ \E sub \in Subs \union {NoSub} : ApproveDeviceByUserCode(code, sub)
             \/ DenyDeviceByUserCode(code)
  BY <1>2, ApproveStep, DenyStep DEF DG!Next
<1>3. CASE \E d \in DOMAIN byDevice :
             ExchangeClosed(d) \/ ExchangeSlowDown(d) \/ ExchangePending(d)
               \/ ExchangeToken(d)
  BY <1>3, ClosedStep, PollStep, DeviceTokenStep DEF DG!Next
<1>4. CASE (Tick /\ UNCHANGED deviceVars) \/ UNCHANGED <<now, deviceVars>>
  BY <1>4, DeviceTick
<1> QED BY <1>1, <1>2, <1>3, <1>4 DEF DeviceNext

-----------------------------------------------------------------------------
(* The theorems *)

THEOREM DeviceInvariance == DeviceSpec => []DeviceInv
<1>1. DeviceInv /\ [DeviceNext]_<<now, deviceVars>> => DeviceInv'
  BY DeviceNextKeeps
<1> QED BY InitDeviceInv, <1>1, PTL DEF DeviceSpec

\* Both maps and the clients' clocks keep their types (createMemoryDeviceCodeStore).
THEOREM DevicesTyped == DeviceSpec => []DeviceTypes
<1>1. DeviceInv => DeviceTypes
  BY DEF DeviceInv, StoreTypes, HistoryTypes, DeviceTypes
<1> QED BY DeviceInvariance, <1>1, PTL

\* A typed code leads to a stored request that shows it, also when user codes
\* collide (save, update and remove of the store).
THEOREM CodesLead == DeviceSpec => []CodeFindsItsDevice
<1>1. DeviceInv => CodeFindsItsDevice
  BY DEF DeviceInv
<1> QED BY DeviceInvariance, <1>1, PTL

\* approve, deny and exchange implement the grant: one decision, which counts,
\* and at most one token, for the approving user and the asking client.
THEOREM ImplementsGrant == DeviceSpec => GrantSpec
<1>1. DeviceInv /\ [DeviceNext]_<<now, deviceVars>> => [DG!Next]_(DG!vars)
  BY DeviceNextKeeps
<1> QED BY InitGrant, DeviceInvariance, <1>1, PTL DEF DeviceSpec, GrantSpec, DG!Spec

-----------------------------------------------------------------------------
(* A request is found by its code *)

\* Two requests that show one code have shared it: the index names only one.
LEMMA UpdateKeepsFound ==
  ASSUME DeviceIsFoundByItsCode, NEW d \in DOMAIN byDevice, NEW entry,
         entry.userCode = byDevice[d].userCode, Update(d, entry), UNCHANGED shared
  PROVE  DeviceIsFoundByItsCode'
<1> SUFFICES ASSUME NEW e \in DOMAIN byDevice', byDevice'[e].userCode \notin shared
             PROVE  byDevice'[e].userCode \in DOMAIN byUser' /\ byUser'[byDevice'[e].userCode] = e
  BY DEF DeviceIsFoundByItsCode
<1>1. e \in DOMAIN byDevice /\ byDevice'[e].userCode = byDevice[e].userCode
  BY DEF Update, MapSet
<1>2. byDevice[e].userCode \in DOMAIN byUser /\ byUser[byDevice[e].userCode] = e
  BY <1>1 DEF DeviceIsFoundByItsCode
<1>3. CASE byDevice[e].userCode = byDevice[d].userCode
  BY <1>1, <1>2, <1>3 DEF DeviceIsFoundByItsCode, Update, MapSet
<1>4. CASE byDevice[e].userCode # byDevice[d].userCode
  BY <1>1, <1>2, <1>4 DEF Update, MapSet
<1> QED BY <1>3, <1>4

LEMMA RemoveKeepsFound ==
  ASSUME DeviceIsFoundByItsCode, NEW d \in DOMAIN byDevice, Remove(d), UNCHANGED shared
  PROVE  DeviceIsFoundByItsCode'
<1> SUFFICES ASSUME NEW e \in DOMAIN byDevice', byDevice'[e].userCode \notin shared
             PROVE  byDevice'[e].userCode \in DOMAIN byUser' /\ byUser'[byDevice'[e].userCode] = e
  BY DEF DeviceIsFoundByItsCode
<1>1. e \in DOMAIN byDevice \ {d} /\ byDevice'[e] = byDevice[e]
  BY DEF Remove, MapDelete
<1>2. byDevice[e].userCode \in DOMAIN byUser /\ byUser[byDevice[e].userCode] = e
  BY <1>1 DEF DeviceIsFoundByItsCode
<1>3. byDevice[e].userCode # byDevice[d].userCode
  BY <1>1, <1>2 DEF DeviceIsFoundByItsCode
<1> QED BY <1>1, <1>2, <1>3 DEF Remove, MapDelete

LEMMA CreateKeepsFound ==
  ASSUME DeviceInv, DeviceIsFoundByItsCode,
         NEW d \in Devices, NEW code \in UserCodes, NEW client \in Clients,
         CreateDeviceAuthorization(d, code, client)
  PROVE  DeviceIsFoundByItsCode'
<1> SUFFICES ASSUME NEW e \in DOMAIN byDevice', byDevice'[e].userCode \notin shared'
             PROVE  byDevice'[e].userCode \in DOMAIN byUser' /\ byUser'[byDevice'[e].userCode] = e
  BY DEF DeviceIsFoundByItsCode
<1>1. /\ byDevice'[d].userCode = code
      /\ DOMAIN byDevice' = DOMAIN byDevice \union {d}
      /\ \A k \in DOMAIN byDevice' \ {d} : byDevice'[k] = byDevice[k]
      /\ byUser' = MapSet(byUser, code, d)
      /\ shared' = shared \union ({code} \intersect {byDevice[k].userCode : k \in DOMAIN byDevice})
  BY DEF CreateDeviceAuthorization, Save, MapSet
<1>2. CASE e = d
  BY <1>1, <1>2 DEF MapSet
<1>3. CASE e # d
  <2>1. e \in DOMAIN byDevice /\ byDevice'[e] = byDevice[e] /\ byDevice[e].userCode # code
    BY <1>1, <1>3
  <2>2. byDevice[e].userCode \in DOMAIN byUser /\ byUser[byDevice[e].userCode] = e
    BY <1>1, <2>1 DEF DeviceIsFoundByItsCode
  <2> QED BY <1>1, <2>1, <2>2 DEF MapSet
<1> QED BY <1>2, <1>3

LEMMA NextKeepsFound ==
  DeviceInv /\ DeviceIsFoundByItsCode /\ [DeviceNext]_<<now, deviceVars>> => DeviceIsFoundByItsCode'
<1> SUFFICES ASSUME DeviceInv, DeviceIsFoundByItsCode, [DeviceNext]_<<now, deviceVars>>
             PROVE  DeviceIsFoundByItsCode'
  OBVIOUS
<1>1. CASE \E d \in Devices, code \in UserCodes, client \in Clients :
             CreateDeviceAuthorization(d, code, client)
  BY <1>1, CreateKeepsFound
<1>2. ASSUME NEW code \in UserCodes, NEW sub \in Subs \union {NoSub},
             ApproveDeviceByUserCode(code, sub)
      PROVE  DeviceIsFoundByItsCode'
  <2>1. PICK d \in DOMAIN byDevice : d = byUser[code] /\ byDevice[d] \in Entries
    BY <1>2 DEF ApproveDeviceByUserCode, DeviceInv, CodeFindsItsDevice, StoreTypes
  <2>2. Update(d, [byDevice[d] EXCEPT !.status = "authorized", !.sub = sub]) /\ UNCHANGED shared
    BY <1>2, <2>1 DEF ApproveDeviceByUserCode
  <2>3. [byDevice[d] EXCEPT !.status = "authorized", !.sub = sub].userCode = byDevice[d].userCode
    BY <2>1 DEF Entries
  <2> QED BY <2>2, <2>3, UpdateKeepsFound
<1>3. ASSUME NEW code \in UserCodes, DenyDeviceByUserCode(code)
      PROVE  DeviceIsFoundByItsCode'
  <2>1. PICK d \in DOMAIN byDevice : d = byUser[code] /\ byDevice[d] \in Entries
    BY <1>3 DEF DenyDeviceByUserCode, DeviceInv, CodeFindsItsDevice, StoreTypes
  <2>2. Update(d, [byDevice[d] EXCEPT !.status = "denied"]) /\ UNCHANGED shared
    BY <1>3, <2>1 DEF DenyDeviceByUserCode
  <2>3. [byDevice[d] EXCEPT !.status = "denied"].userCode = byDevice[d].userCode
    BY <2>1 DEF Entries
  <2> QED BY <2>2, <2>3, UpdateKeepsFound
<1>4. ASSUME NEW d \in DOMAIN byDevice, ExchangeSlowDown(d) \/ ExchangePending(d)
      PROVE  DeviceIsFoundByItsCode'
  <2>1. byDevice[d] \in Entries
    BY DEF DeviceInv, StoreTypes
  <2>2. [byDevice[d] EXCEPT !.lastPollAt = now, !.interval = @ + SlowDownExtra].userCode
          = byDevice[d].userCode
    BY <2>1 DEF Entries
  <2>3. [byDevice[d] EXCEPT !.lastPollAt = now].userCode = byDevice[d].userCode
    BY <2>1 DEF Entries
  <2>4. CASE ExchangeSlowDown(d)
    BY <2>2, <2>4, UpdateKeepsFound DEF ExchangeSlowDown
  <2>5. CASE ExchangePending(d)
    BY <2>3, <2>5, UpdateKeepsFound DEF ExchangePending
  <2> QED BY <1>4, <2>4, <2>5
<1>5. ASSUME NEW d \in DOMAIN byDevice, ExchangeClosed(d) \/ ExchangeToken(d)
      PROVE  DeviceIsFoundByItsCode'
  BY <1>5, RemoveKeepsFound DEF ExchangeClosed, ExchangeToken
<1>6. CASE (Tick /\ UNCHANGED deviceVars) \/ UNCHANGED <<now, deviceVars>>
  BY <1>6 DEF Tick, deviceVars, DeviceIsFoundByItsCode
<1> QED BY <1>1, <1>2, <1>3, <1>4, <1>5, <1>6 DEF DeviceNext

\* A stored request is found by the code its user was shown, unless that code was
\* drawn again while a request held it (save, update and remove of the store).
THEOREM CodesFind == DeviceSpec => []DeviceIsFoundByItsCode
<1>1. DeviceInit => DeviceIsFoundByItsCode
  BY DEF DeviceInit, EmptyMap, DeviceIsFoundByItsCode
<1> QED BY <1>1, DeviceInvariance, NextKeepsFound, PTL DEF DeviceSpec

\* Both at once: the index of user codes and the index of devices agree, through
\* every poll, decision, expiry and collision of codes.
THEOREM CodesMatch == DeviceSpec => []CodesMatchDevices
BY CodesLead, CodesFind, PTL DEF CodesMatchDevices

-----------------------------------------------------------------------------
(* Only a poll before the time a client was told lengthens its interval *)

\* What the client was told with the last answer is what the entry still says.
Told(entry, at) == entry.lastPollAt # NULL => at = entry.lastPollAt + entry.interval

ToldTheWait == \A d \in DOMAIN byDevice : Told(byDevice[d], readyAt[d])

SlowsOnlyTheEarly ==
  \A d \in DOMAIN byDevice \intersect DOMAIN byDevice' :
    byDevice'[d].interval # byDevice[d].interval => now < readyAt[d]

\* A write of one entry that tells its client the wait it keeps.
LEMMA WriteTells ==
  ASSUME ToldTheWait, NEW d, NEW entry, byDevice' = MapSet(byDevice, d, entry),
         Told(entry, readyAt'[d]),
         \A e \in DOMAIN byDevice \ {d} : readyAt'[e] = readyAt[e],
         d \in DOMAIN byDevice /\ entry.interval # byDevice[d].interval => now < readyAt[d]
  PROVE  ToldTheWait' /\ SlowsOnlyTheEarly
<1>1. /\ DOMAIN byDevice' = DOMAIN byDevice \union {d}
      /\ byDevice'[d] = entry
      /\ \A e \in DOMAIN byDevice \ {d} : byDevice'[e] = byDevice[e]
  BY DEF MapSet
<1>2. ToldTheWait'
  <2> SUFFICES ASSUME NEW e \in DOMAIN byDevice' PROVE Told(byDevice'[e], readyAt'[e])
    BY DEF ToldTheWait
  <2>1. CASE e = d
    BY <1>1, <2>1
  <2>2. CASE e # d
    BY <1>1, <2>2 DEF ToldTheWait
  <2> QED BY <2>1, <2>2
<1>3. SlowsOnlyTheEarly
  BY <1>1 DEF SlowsOnlyTheEarly
<1> QED BY <1>2, <1>3

LEMMA PollTells ==
  ASSUME DeviceInv, ToldTheWait, NEW d \in DOMAIN byDevice,
         ExchangeSlowDown(d) \/ ExchangePending(d)
  PROVE  ToldTheWait' /\ SlowsOnlyTheEarly
<1>1. /\ byDevice[d] \in Entries /\ byDevice[d].interval \in Nat /\ now \in Nat
      /\ byDevice[d].lastPollAt \in Nat \union {NULL} /\ d \in drawn
      /\ SlowDownExtra \in Nat
  BY ConstantsAreNat DEF DeviceInv, StoreTypes, HistoryTypes, Entries
<1>2. readyAt \in [drawn -> Nat] /\ DOMAIN byDevice \subseteq drawn
  BY DEF DeviceInv, StoreTypes, HistoryTypes
<1>3. CASE ExchangeSlowDown(d)
  <2> DEFINE slowed == [byDevice[d] EXCEPT !.lastPollAt = now, !.interval = @ + SlowDownExtra]
  <2>1. slowed.lastPollAt = now /\ slowed.interval = byDevice[d].interval + SlowDownExtra
    BY <1>1 DEF Entries
  <2>2. /\ byDevice' = MapSet(byDevice, d, slowed)
        /\ readyAt' = [readyAt EXCEPT ![d] = now + byDevice[d].interval + SlowDownExtra]
        /\ PolledTooSoon(byDevice[d])
    BY <1>3 DEF ExchangeSlowDown, Update
  <2> HIDE DEF slowed
  <2>3. Told(slowed, readyAt'[d])
    BY <1>1, <1>2, <2>1, <2>2 DEF Told
  <2>4. \A e \in DOMAIN byDevice \ {d} : readyAt'[e] = readyAt[e]
    BY <1>2, <2>2
  <2>5. now < readyAt[d]
    <3>1. byDevice[d].lastPollAt # NULL /\ now - byDevice[d].lastPollAt < byDevice[d].interval
      BY <2>2 DEF PolledTooSoon
    <3>2. readyAt[d] = byDevice[d].lastPollAt + byDevice[d].interval
      BY <3>1 DEF ToldTheWait, Told
    <3> QED BY <1>1, <3>1, <3>2
  <2> QED BY <2>2, <2>3, <2>4, <2>5, WriteTells
<1>4. CASE ExchangePending(d)
  <2> DEFINE polled == [byDevice[d] EXCEPT !.lastPollAt = now]
  <2>1. polled.lastPollAt = now /\ polled.interval = byDevice[d].interval
    BY <1>1 DEF Entries
  <2>2. /\ byDevice' = MapSet(byDevice, d, polled)
        /\ readyAt' = [readyAt EXCEPT ![d] = now + byDevice[d].interval]
    BY <1>4 DEF ExchangePending, Update
  <2> HIDE DEF polled
  <2>3. Told(polled, readyAt'[d])
    BY <1>1, <1>2, <2>1, <2>2 DEF Told
  <2>4. \A e \in DOMAIN byDevice \ {d} : readyAt'[e] = readyAt[e]
    BY <1>2, <2>2
  <2> QED BY <2>1, <2>2, <2>3, <2>4, WriteTells
<1> QED BY <1>3, <1>4

LEMMA DecisionTells ==
  ASSUME DeviceInv, ToldTheWait, NEW code \in UserCodes,
         \/ \E sub \in Subs \union {NoSub} : ApproveDeviceByUserCode(code, sub)
         \/ DenyDeviceByUserCode(code)
  PROVE  ToldTheWait' /\ SlowsOnlyTheEarly
<1>1. PICK d \in DOMAIN byDevice : d = byUser[code] /\ byDevice[d] \in Entries
  BY DEF ApproveDeviceByUserCode, DenyDeviceByUserCode, DeviceInv, CodeFindsItsDevice, StoreTypes
<1>2. PICK entry : /\ byDevice' = MapSet(byDevice, d, entry)
                   /\ entry.lastPollAt = byDevice[d].lastPollAt
                   /\ entry.interval = byDevice[d].interval
                   /\ UNCHANGED readyAt
  <2>1. CASE \E sub \in Subs \union {NoSub} : ApproveDeviceByUserCode(code, sub)
    <3>1. PICK sub : ApproveDeviceByUserCode(code, sub)
      BY <2>1
    <3> DEFINE approved == [byDevice[d] EXCEPT !.status = "authorized", !.sub = sub]
    <3>2. byDevice' = MapSet(byDevice, d, approved) /\ UNCHANGED readyAt
      BY <1>1, <3>1 DEF ApproveDeviceByUserCode, Update
    <3>3. approved.lastPollAt = byDevice[d].lastPollAt /\ approved.interval = byDevice[d].interval
      BY <1>1 DEF Entries
    <3> HIDE DEF approved
    <3> QED BY <3>2, <3>3
  <2>2. CASE DenyDeviceByUserCode(code)
    <3> DEFINE denied == [byDevice[d] EXCEPT !.status = "denied"]
    <3>1. byDevice' = MapSet(byDevice, d, denied) /\ UNCHANGED readyAt
      BY <1>1, <2>2 DEF DenyDeviceByUserCode, Update
    <3>2. denied.lastPollAt = byDevice[d].lastPollAt /\ denied.interval = byDevice[d].interval
      BY <1>1 DEF Entries
    <3> HIDE DEF denied
    <3> QED BY <3>1, <3>2
  <2> QED BY <2>1, <2>2
<1>3. Told(entry, readyAt'[d])
  BY <1>2 DEF ToldTheWait, Told
<1> QED BY <1>2, <1>3, WriteTells

LEMMA CreateTells ==
  ASSUME DeviceInv, ToldTheWait, NEW d \in Devices, NEW code \in UserCodes, NEW client \in Clients,
         CreateDeviceAuthorization(d, code, client)
  PROVE  ToldTheWait' /\ SlowsOnlyTheEarly
<1> DEFINE entry == [userCode |-> code, client |-> client, status |-> "pending", sub |-> NULL,
                     expiresAt |-> now + ExpiresIn, lastPollAt |-> NULL, interval |-> Interval]
<1>1. byDevice' = MapSet(byDevice, d, entry) /\ readyAt' = MapSet(readyAt, d, now) /\ d \notin drawn
  BY DEF CreateDeviceAuthorization, Save
<1>2. entry.lastPollAt = NULL
  OBVIOUS
<1> HIDE DEF entry
<1>3. DOMAIN byDevice \subseteq drawn /\ DOMAIN readyAt = drawn
  BY DEF DeviceInv, StoreTypes, HistoryTypes
<1>4. Told(entry, readyAt'[d])
  BY <1>2 DEF Told
<1>5. \A e \in DOMAIN byDevice \ {d} : readyAt'[e] = readyAt[e]
  BY <1>1, <1>3 DEF MapSet
<1> QED BY <1>1, <1>3, <1>4, <1>5, WriteTells

LEMMA RemoveTells ==
  ASSUME ToldTheWait, NEW d \in DOMAIN byDevice, Remove(d), UNCHANGED readyAt
  PROVE  ToldTheWait' /\ SlowsOnlyTheEarly
<1>1. /\ DOMAIN byDevice' = DOMAIN byDevice \ {d}
      /\ \A e \in DOMAIN byDevice' : byDevice'[e] = byDevice[e]
  BY DEF Remove, MapDelete
<1>2. ToldTheWait'
  <2> SUFFICES ASSUME NEW e \in DOMAIN byDevice' PROVE Told(byDevice'[e], readyAt'[e])
    BY DEF ToldTheWait
  <2> QED BY <1>1 DEF ToldTheWait
<1> QED BY <1>1, <1>2 DEF SlowsOnlyTheEarly

LEMMA NextTells ==
  DeviceInv /\ ToldTheWait /\ [DeviceNext]_<<now, deviceVars>> => ToldTheWait' /\ SlowsOnlyTheEarly
<1> SUFFICES ASSUME DeviceInv, ToldTheWait, [DeviceNext]_<<now, deviceVars>>
             PROVE  ToldTheWait' /\ SlowsOnlyTheEarly
  OBVIOUS
<1>1. CASE \E d \in Devices, code \in UserCodes, client \in Clients :
             CreateDeviceAuthorization(d, code, client)
  BY <1>1, CreateTells
<1>2. CASE \E code \in UserCodes :
             \/ \E sub \in Subs \union {NoSub} : ApproveDeviceByUserCode(code, sub)
             \/ DenyDeviceByUserCode(code)
  BY <1>2, DecisionTells
<1>3. ASSUME NEW d \in DOMAIN byDevice, ExchangeSlowDown(d) \/ ExchangePending(d)
      PROVE  ToldTheWait' /\ SlowsOnlyTheEarly
  BY <1>3, PollTells
<1>4. ASSUME NEW d \in DOMAIN byDevice, ExchangeClosed(d) \/ ExchangeToken(d)
      PROVE  ToldTheWait' /\ SlowsOnlyTheEarly
  BY <1>4, RemoveTells DEF ExchangeClosed, ExchangeToken
<1>5. CASE (Tick /\ UNCHANGED deviceVars) \/ UNCHANGED <<now, deviceVars>>
  BY <1>5 DEF deviceVars, ToldTheWait, SlowsOnlyTheEarly
<1> QED BY <1>1, <1>2, <1>3, <1>4, <1>5 DEF DeviceNext

\* Only a poll before the time the client was told lengthens its interval: a client
\* that waits as told is never slowed down, whatever other devices and users do
\* (exchangeDeviceCode and SLOW_DOWN_EXTRA_SEC).
THEOREM PatienceIsKept == DeviceSpec => PatientClientNeverSlowed
<1>1. now = 0 /\ DeviceInit => ToldTheWait
  BY DEF DeviceInit, EmptyMap, ToldTheWait
<1>2. SlowsOnlyTheEarly => [\A d \in DOMAIN byDevice \intersect DOMAIN byDevice' :
         byDevice'[d].interval # byDevice[d].interval => now < readyAt[d]]_deviceVars
  BY DEF SlowsOnlyTheEarly
<1> QED BY <1>1, <1>2, DeviceInvariance, NextTells, PTL DEF DeviceSpec, PatientClientNeverSlowed

(***************************************************************************)
(* Codes, refresh tokens and keys: an authorization has one credential and *)
(* keys outlive the tokens that name them, for any lifetimes.              *)
(***************************************************************************)

Claim == [kind : {"code", "refresh"}, grant : Nat, exp : Int, key : Nat, kid : Nat \union {NULL}]
KeyRecord == [id : Nat, createdAt : Int]

ClaimExpiryMs(t) == issued[t].exp * Second

SpentStore(t) == IF issued[t].kind = "code" THEN spentCodes ELSE spentRefresh

TypeInv ==
  /\ now \in Int
  /\ issued \in Seq(Claim) /\ Len(issued) <= MaxTokens
  /\ keys \in Seq(KeyRecord)
  /\ uses \in [1 .. MaxTokens -> Nat]

\* A token names a grant that has begun, and has not been used before it exists.
Begun ==
  /\ \A t \in DOMAIN issued : issued[t].grant <= Len(issued)
  /\ \A t \in 1 .. MaxTokens : t > Len(issued) => uses[t] = 0

\* The stores remember a used token until its expiry is in the past, so a second
\* use only happens after that.
SpentRemembered ==
  \A t \in DOMAIN issued :
    /\ uses[t] > 0 /\ now <= ClaimExpiryMs(t) =>
         t \in DOMAIN SpentStore(t) /\ SpentStore(t)[t] = ClaimExpiryMs(t)
    /\ uses[t] > 1 => now > ClaimExpiryMs(t)

\* Every use replaces the one unused token of its grant by at most one.
OneUnused ==
  \A t, u \in DOMAIN issued :
    issued[t].grant = issued[u].grant /\ uses[t] = 0 /\ uses[u] = 0 /\ t # u =>
      \E v \in DOMAIN issued : issued[v].grant = issued[t].grant /\ uses[v] > 1

\* A token names the current key, or the one before and was signed before the
\* current one was made, or is past its expiry; a key set is never empty.
KeyInv ==
  /\ Len(keys) \in 0 .. 2 /\ (settings.secret # "own" => Len(keys) > 0)
  /\ \A t \in DOMAIN issued : issued[t].kid # NULL =>
       /\ Len(keys) > 0
       /\ issued[t].exp <= now \div Second + RefreshTtl
       /\ \/ issued[t].kid = keys[1].id
          \/ /\ Len(keys) = 2 /\ issued[t].kid = keys[2].id
             /\ issued[t].exp <= keys[1].createdAt \div Second + RefreshTtl
          \/ issued[t].exp < now \div Second

EndpointInv == TypeInv /\ Begun /\ SpentRemembered /\ OneUnused /\ KeyInv

-----------------------------------------------------------------------------
(* Seconds *)

LEMMA EndpointConstants ==
  /\ Second \in Int /\ Second > 0 /\ MaxTime \in Nat
  /\ MaxTokens \in Nat /\ CodeTtl \in Nat /\ RefreshTtl \in Nat /\ RotationInterval \in Nat
  /\ RotationInterval >= (RefreshTtl + 1) * Second
  BY RuntimeAssumption, TokenAssumption

LEMMA WholeSeconds ==
  ASSUME NEW a \in Int
  PROVE  /\ a \div Second \in Int
         /\ (a \div Second) * Second <= a
         /\ a < (a \div Second) * Second + Second
<1>1. Second \in Int /\ Second > 0
  BY EndpointConstants
<1> QED BY <1>1, Z3

\* Seconds pass with the clock.
LEMMA SecondsGrow ==
  ASSUME NEW a \in Int, NEW b \in Int, a <= b
  PROVE  a \div Second <= b \div Second
<1> DEFINE p == a \div Second
           q == b \div Second
<1>1. /\ p \in Int /\ q \in Int /\ p * Second <= a /\ b < q * Second + Second
      /\ Second \in Int /\ Second > 0
  BY WholeSeconds, EndpointConstants
<1>2. p * Second < q * Second + Second
  BY <1>1
<1> HIDE DEF p, q
<1>3. ASSUME p > q PROVE FALSE
  <2>1. p >= q + 1
    BY <1>1, <1>3
  <2>2. p * Second >= (q + 1) * Second
    BY <2>1, <1>1
  <2> QED BY <2>2, <1>2, <1>1
<1> QED BY <1>1, <1>3 DEF p, q

\* A second whose expiry is not past has not begun to be past.
LEMMA KeyLifetime ==
  ASSUME NEW a \in Int, NEW b \in Int, b - a >= RotationInterval
  PROVE  a \div Second + RefreshTtl < b \div Second
<1> DEFINE p == a \div Second
           q == b \div Second
<1>1. /\ p \in Int /\ q \in Int /\ p * Second <= a /\ b < q * Second + Second
      /\ Second \in Int /\ Second > 0 /\ RefreshTtl \in Int
  BY WholeSeconds, EndpointConstants
<1>2. p * Second + (RefreshTtl + 1) * Second < q * Second + Second
  BY <1>1, EndpointConstants
<1> HIDE DEF p, q
<1>3. ASSUME p + RefreshTtl >= q PROVE FALSE
  <2>1. (p + RefreshTtl + 1) * Second >= (q + 1) * Second
    BY <1>1, <1>3
  <2> QED BY <2>1, <1>2, <1>1
<1> QED BY <1>1, <1>3 DEF p, q

-----------------------------------------------------------------------------
(* What the operations do to the part of the state they are about *)

LEMMA InitEndpointInv == now = 0 /\ TokenInit => EndpointInv
<1> SUFFICES ASSUME now = 0, TokenInit PROVE EndpointInv
  OBVIOUS
<1>1. /\ issued = <<>> /\ Len(issued) = 0 /\ DOMAIN issued = {}
      /\ issued \in Seq(Claim)
      /\ uses = [t \in 1 .. MaxTokens |-> 0]
  BY DEF TokenInit
<1>2. keys \in Seq(KeyRecord) /\ Len(keys) \in 0 .. 2 /\ (settings.secret # "own" => Len(keys) > 0)
  <2>1. CASE settings.secret = "own"
    BY <2>1 DEF TokenInit
  <2>2. CASE settings.secret # "own"
    <3>1. keys = <<[id |-> 1, createdAt |-> 0]>>
      BY <2>2 DEF TokenInit
    <3>2. [id |-> 1, createdAt |-> 0] \in KeyRecord
      BY DEF KeyRecord
    <3> QED BY <3>1, <3>2
  <2> QED BY <2>1, <2>2
<1>3. TypeInv
  BY <1>1, <1>2, EndpointConstants DEF TypeInv
<1> QED BY <1>1, <1>2, <1>3 DEF EndpointInv, Begun, SpentRemembered, OneUnused, KeyInv

LEMMA ClaimsAreTyped ==
  ASSUME TypeInv, NEW t \in DOMAIN issued
  PROVE  /\ issued[t] \in Claim /\ issued[t].exp \in Int /\ issued[t].grant \in Nat
         /\ ClaimExpiryMs(t) \in Int
         /\ t \in 1 .. MaxTokens /\ uses[t] \in Nat
<1>1. issued[t] \in Claim
  BY DEF TypeInv
<1>2. issued[t].exp \in Int /\ Second \in Int
  BY <1>1, EndpointConstants DEF Claim
<1>3. ClaimExpiryMs(t) \in Int
  BY <1>2 DEF ClaimExpiryMs
<1>4. t \in 1 .. MaxTokens
  BY EndpointConstants DEF TypeInv
<1> QED BY <1>1, <1>2, <1>3, <1>4 DEF TypeInv, Claim

\* A step that leaves the tokens, their uses and the stores alone, while time
\* does not go back, disturbs at most the keys.
LEMMA QuietStep ==
  ASSUME EndpointInv, now' \in Int, now <= now', keys' \in Seq(KeyRecord),
         UNCHANGED <<issued, spentCodes, spentRefresh, uses>>
  PROVE  TypeInv' /\ Begun' /\ SpentRemembered' /\ OneUnused'
<1> USE DEF EndpointInv
<1>1. TypeInv' /\ Begun' /\ OneUnused'
  BY DEF TypeInv, Begun, OneUnused
<1>2. \A t \in DOMAIN issued : ClaimExpiryMs(t) \in Int /\ ClaimExpiryMs(t)' = ClaimExpiryMs(t)
  BY ClaimsAreTyped DEF ClaimExpiryMs
<1>3. \A t : SpentStore(t)' = SpentStore(t)
  BY DEF SpentStore
<1>4. ASSUME NEW t \in DOMAIN issued
      PROVE  /\ uses'[t] > 0 /\ now' <= ClaimExpiryMs(t)' =>
                  t \in DOMAIN SpentStore(t)' /\ SpentStore(t)'[t] = ClaimExpiryMs(t)'
             /\ uses'[t] > 1 => now' > ClaimExpiryMs(t)'
  <2>1. now <= now' /\ now \in Int /\ now' \in Int /\ uses' = uses
    BY DEF TypeInv
  <2> QED BY <2>1, <1>2, <1>3 DEF SpentRemembered
<1>5. SpentRemembered'
  BY <1>4 DEF SpentRemembered
<1> QED BY <1>1, <1>5

LEMMA EndpointTick ==
  ASSUME EndpointInv, (Tick /\ UNCHANGED tokenVars) \/ UNCHANGED <<now, tokenVars>>
  PROVE  EndpointInv'
<1>1. now' \in Int /\ now <= now' /\ now \in Int
  BY DEF EndpointInv, TypeInv, Tick
<1>2. UNCHANGED <<settings, issued, keys, spentCodes, spentRefresh, uses>>
  BY DEF tokenVars
<1>3. TypeInv' /\ Begun' /\ SpentRemembered' /\ OneUnused'
  BY <1>1, <1>2, QuietStep DEF EndpointInv, TypeInv
<1>4. /\ now \div Second <= now' \div Second
      /\ now \div Second \in Int /\ now' \div Second \in Int
  BY <1>1, SecondsGrow, WholeSeconds
<1>5. \A t \in DOMAIN issued : issued[t].exp \in Int
  BY ClaimsAreTyped DEF EndpointInv
<1>6. ASSUME NEW t \in DOMAIN issued, issued[t].kid # NULL
      PROVE  /\ Len(keys) > 0
             /\ issued[t].exp <= now' \div Second + RefreshTtl
             /\ \/ issued[t].kid = keys[1].id
                \/ /\ Len(keys) = 2 /\ issued[t].kid = keys[2].id
                   /\ issued[t].exp <= keys[1].createdAt \div Second + RefreshTtl
                \/ issued[t].exp < now' \div Second
  <2> DEFINE p == now \div Second
             q == now' \div Second
  <2>1. /\ Len(keys) > 0 /\ issued[t].exp <= p + RefreshTtl
        /\ \/ issued[t].kid = keys[1].id
           \/ /\ Len(keys) = 2 /\ issued[t].kid = keys[2].id
              /\ issued[t].exp <= keys[1].createdAt \div Second + RefreshTtl
           \/ issued[t].exp < p
    BY <1>6 DEF EndpointInv, KeyInv
  <2>2. p <= q /\ p \in Int /\ q \in Int /\ issued[t].exp \in Int /\ RefreshTtl \in Int
    BY <1>4, <1>5, EndpointConstants
  <2> HIDE DEF p, q
  <2>3. issued[t].exp <= q + RefreshTtl /\ (issued[t].exp < p => issued[t].exp < q)
    BY <2>1, <2>2
  <2> QED BY <2>1, <2>3 DEF q
<1>7. KeyInv'
  BY <1>2, <1>6 DEF EndpointInv, KeyInv
<1> QED BY <1>3, <1>7 DEF EndpointInv

\* The tokens stay or grow by one, of grant g.
Grows(g) ==
  /\ issued' \in Seq(Claim) /\ Len(issued') <= MaxTokens
  /\ Len(issued') \in {Len(issued), Len(issued) + 1}
  /\ \A u \in DOMAIN issued : issued'[u] = issued[u]
  /\ Len(issued') # Len(issued) => issued'[Len(issued) + 1].grant = g

LEMMA IssueGrows ==
  ASSUME TypeInv, NEW claims \in Claim, Issue(claims)
  PROVE  /\ Grows(claims.grant)
         /\ Len(issued') = Len(issued) + 1 /\ issued'[Len(issued) + 1] = claims
<1>1. issued \in Seq(Claim) /\ Len(issued) \in Nat /\ issued' = Append(issued, claims)
  BY DEF TypeInv, Issue
<1>2. /\ issued' \in Seq(Claim) /\ Len(issued') = Len(issued) + 1
      /\ \A u \in 1 .. Len(issued) : issued'[u] = issued[u]
      /\ issued'[Len(issued) + 1] = claims
  BY <1>1, AppendProperties
<1>3. Len(issued') <= MaxTokens
  BY <1>1, <1>2, EndpointConstants DEF Issue
<1> QED BY <1>1, <1>2, <1>3 DEF Grows

\* The use of a token that its store did not hold, and now does.
Used(t) ==
  /\ UNCHANGED <<now, keys>>
  /\ uses' = [uses EXCEPT ![t] = @ + 1]
  /\ ~IsSpent(SpentStore(t), t)
  /\ IF issued[t].kind = "code"
     THEN spentCodes' = MarkSpent(spentCodes, t) /\ UNCHANGED spentRefresh
     ELSE spentRefresh' = MarkSpent(spentRefresh, t) /\ UNCHANGED spentCodes

LEMMA UseStep ==
  ASSUME EndpointInv, NEW t \in DOMAIN issued, Grows(issued[t].grant), Used(t)
  PROVE  TypeInv' /\ Begun' /\ SpentRemembered' /\ OneUnused'
<1>a. /\ issued \in Seq(Claim) /\ issued' \in Seq(Claim)
      /\ Len(issued) \in Nat /\ Len(issued') \in Nat
      /\ DOMAIN issued = 1 .. Len(issued) /\ DOMAIN issued' = 1 .. Len(issued')
      /\ Len(issued') = Len(issued) \/ Len(issued') = Len(issued) + 1
      /\ Len(issued') <= MaxTokens /\ MaxTokens \in Nat
  BY EndpointConstants DEF EndpointInv, TypeInv, Grows
<1> DEFINE n == Len(issued)
           m == Len(issued')
           old == DOMAIN issued
           new == DOMAIN issued'
<1>b. /\ n \in Nat /\ m \in Nat /\ (m = n \/ m = n + 1) /\ m <= MaxTokens /\ MaxTokens \in Nat
      /\ old = 1 .. n /\ new = 1 .. m /\ t \in old
  BY <1>a
<1>0. /\ TypeInv
      /\ \A u \in old :
           /\ issued[u].grant \in Nat /\ issued[u].grant <= n
           /\ ClaimExpiryMs(u) \in Int /\ u \in 1 .. MaxTokens
  <2>1. TypeInv /\ Begun
    BY DEF EndpointInv
  <2> QED BY <2>1, ClaimsAreTyped DEF Begun
<1>1. \A u \in old : issued'[u] = issued[u]
  BY DEF Grows
<1>c. /\ \A u \in 1 .. MaxTokens : u > n => uses[u] = 0
      /\ m # n => issued'[n + 1].grant = issued[t].grant
  BY DEF EndpointInv, Begun, Grows
<1> HIDE DEF n, m, old, new
<1>2. /\ t \in 1 .. MaxTokens /\ uses \in [1 .. MaxTokens -> Nat] /\ uses[t] \in Nat
      /\ uses'[t] = uses[t] + 1
      /\ \A u \in (1 .. MaxTokens) \ {t} : uses'[u] = uses[u]
  <2>1. t \in 1 .. MaxTokens /\ uses \in [1 .. MaxTokens -> Nat]
    BY <1>0, <1>b DEF TypeInv
  <2>2. uses' = [uses EXCEPT ![t] = @ + 1]
    BY DEF Used
  <2> QED BY <2>1, <2>2
<1>3. TypeInv'
  <2>1. now' \in Int /\ keys' \in Seq(KeyRecord)
    BY <1>0 DEF TypeInv, Used
  <2>2. uses' \in [1 .. MaxTokens -> Nat]
    <3>1. uses' = [uses EXCEPT ![t] = uses[t] + 1] /\ uses[t] + 1 \in Nat
      BY <1>2 DEF Used
    <3> QED BY <3>1, <1>2
  <2> QED BY <2>1, <2>2, <1>a DEF TypeInv
<1>d. old \subseteq new
  BY <1>b
<1>4. ASSUME NEW x \in new, x \notin old
      PROVE  /\ x = n + 1 /\ x \in 1 .. MaxTokens /\ x # t
             /\ issued'[x].grant = issued[t].grant
             /\ uses'[x] = 0
  <2>1. x = n + 1 /\ x \in 1 .. MaxTokens /\ x # t /\ m # n
    BY <1>b, <1>4
  <2>2. uses[x] = 0
    BY <2>1, <1>b, <1>c
  <2> QED BY <2>1, <2>2, <1>2, <1>c
<1>5. Begun'
  <2>1. \A u \in new : issued'[u].grant <= m
    <3>1. ASSUME NEW u \in old PROVE issued[u].grant <= m
      BY <1>b, <1>0
    <3>2. ASSUME NEW u \in new, u \notin old PROVE issued'[u].grant <= m
      BY <3>2, <3>1, <1>4, <1>b
    <3> QED BY <3>1, <3>2, <1>1
  <2>2. \A u \in 1 .. MaxTokens : u > m => uses'[u] = 0
    BY <1>b, <1>c, <1>2
  <2> QED BY <2>1, <2>2 DEF Begun, new, m
<1>6. now \in Int /\ now' = now
  BY <1>0 DEF TypeInv, Used
<1>7. uses[t] > 0 => now > ClaimExpiryMs(t)
  <2> SUFFICES ASSUME uses[t] > 0, now <= ClaimExpiryMs(t) PROVE FALSE
    BY <1>0, <1>6, <1>b
  <2>1. t \in DOMAIN SpentStore(t) /\ SpentStore(t)[t] = ClaimExpiryMs(t)
    BY DEF EndpointInv, SpentRemembered
  <2> QED BY <2>1, <1>0, <1>6, <1>b DEF Used, IsSpent
<1>8. \A u \in old : ClaimExpiryMs(u)' = ClaimExpiryMs(u)
  BY <1>1 DEF ClaimExpiryMs
<1>9. /\ t \in DOMAIN SpentStore(t)' /\ SpentStore(t)'[t] = ClaimExpiryMs(t)
      /\ \A u \in old \ {t} : u \in DOMAIN SpentStore(u) =>
           u \in DOMAIN SpentStore(u)' /\ SpentStore(u)'[u] = SpentStore(u)[u]
  <2>1. t \in old /\ \A u \in old : issued'[u] = issued[u]
    BY <1>1, <1>b
  <2>2. CASE issued[t].kind = "code"
    <3>1. spentCodes' = MapSet(spentCodes, t, ClaimExpiryMs(t)) /\ spentRefresh' = spentRefresh
      BY <2>2 DEF Used, MarkSpent, ClaimExpiryMs
    <3> QED BY <3>1, <2>1, <2>2 DEF SpentStore, MapSet
  <2>3. CASE issued[t].kind # "code"
    <3>1. spentRefresh' = MapSet(spentRefresh, t, ClaimExpiryMs(t)) /\ spentCodes' = spentCodes
      BY <2>3 DEF Used, MarkSpent, ClaimExpiryMs
    <3> QED BY <3>1, <2>1, <2>3 DEF SpentStore, MapSet
  <2> QED BY <2>2, <2>3
<1>10. SpentRemembered'
  <2> SUFFICES ASSUME NEW u \in new
               PROVE  /\ uses'[u] > 0 /\ now' <= ClaimExpiryMs(u)' =>
                           u \in DOMAIN SpentStore(u)' /\ SpentStore(u)'[u] = ClaimExpiryMs(u)'
                      /\ uses'[u] > 1 => now' > ClaimExpiryMs(u)'
    BY DEF SpentRemembered, new
  <2>1. CASE u = t
    BY <2>1, <1>b, <1>2, <1>6, <1>7, <1>8, <1>9
  <2>2. CASE u \in old /\ u # t
    <3>1. uses'[u] = uses[u] /\ ClaimExpiryMs(u)' = ClaimExpiryMs(u)
      BY <2>2, <1>0, <1>2, <1>8
    <3> QED BY <3>1, <2>2, <1>6, <1>9 DEF EndpointInv, SpentRemembered, old
  <2>3. CASE u \notin old
    <3>1. uses'[u] = 0
      BY <2>3, <1>4
    <3> QED BY <3>1
  <2> QED BY <2>1, <2>2, <2>3
<1>11. OneUnused'
  <2> SUFFICES ASSUME NEW u \in new, NEW w \in new,
                      issued'[u].grant = issued'[w].grant, uses'[u] = 0, uses'[w] = 0, u # w
               PROVE  \E v \in new : issued'[v].grant = issued'[u].grant /\ uses'[v] > 1
    BY DEF OneUnused, new
  <2>1. u # t /\ w # t
    BY <1>2
  <2>3. \A v \in old : v \in 1 .. MaxTokens /\ uses[v] \in Nat /\ uses'[v] \in Nat /\ uses'[v] >= uses[v]
    BY <1>0, <1>2
  <2>4. ASSUME NEW x \in old, x # t, issued[x].grant = issued[t].grant, uses'[x] = 0
        PROVE  \E v \in new : issued'[v].grant = issued[t].grant /\ uses'[v] > 1
    <3>1. uses[x] = 0
      BY <2>4, <1>0, <1>2
    <3>2. CASE uses[t] = 0
      <4>1. PICK v \in old : issued[v].grant = issued[t].grant /\ uses[v] > 1
        BY <3>1, <3>2, <2>4, <1>b DEF EndpointInv, OneUnused, old
      <4>2. uses'[v] > 1
        <5>1. uses[v] \in Nat /\ uses'[v] >= uses[v] /\ uses[v] > 1
          BY <4>1, <2>3
        <5>2. uses'[v] \in Nat
          BY <2>3
        <5> QED BY <5>1, <5>2
      <4> QED BY <4>1, <4>2, <1>d, <1>1
    <3>3. CASE uses[t] # 0
      <4>1. uses'[t] > 1
        BY <3>3, <1>2
      <4> QED BY <4>1, <1>b, <1>d, <1>1
    <3> QED BY <3>2, <3>3
  <2>5. CASE u \in old /\ w \in old
    <3>1. uses[u] = 0 /\ uses[w] = 0
      BY <2>1, <2>5, <1>0, <1>2
    <3>2. PICK v \in old : issued[v].grant = issued[u].grant /\ uses[v] > 1
      BY <3>1, <2>5, <1>1 DEF EndpointInv, OneUnused, old
    <3>3. uses'[v] > 1
      <4>1. uses[v] \in Nat /\ uses'[v] \in Nat /\ uses'[v] >= uses[v] /\ uses[v] > 1
        BY <3>2, <2>3
      <4> QED BY <4>1
    <3> QED BY <3>2, <3>3, <2>5, <1>d, <1>1
  <2>6. CASE u \in old /\ w \notin old
    BY <2>1, <2>4, <2>6, <1>1, <1>4
  <2>7. CASE u \notin old /\ w \in old
    BY <2>1, <2>4, <2>7, <1>1, <1>4
  <2>8. CASE u \notin old /\ w \notin old
    <3>1. u = Len(issued) + 1 /\ w = Len(issued) + 1
      BY <2>8, <1>4
    <3> QED BY <3>1
  <2> QED BY <2>5, <2>6, <2>7, <2>8
<1> QED BY <1>3, <1>5, <1>10, <1>11

\* The keys serve the tokens that are there and one that names the current key.
LEMMA KeyStep ==
  ASSUME EndpointInv, NEW g, Grows(g), UNCHANGED <<now, keys, settings>>,
         NEW claims, Len(issued') # Len(issued) => issued'[Len(issued) + 1] = claims,
         claims.kid # NULL =>
           /\ Len(keys) > 0 /\ claims.kid = keys[1].id
           /\ claims.exp <= now \div Second + RefreshTtl
  PROVE  KeyInv'
<1>1. /\ issued \in Seq(Claim) /\ issued' \in Seq(Claim)
      /\ Len(issued) \in Nat /\ Len(issued') \in Nat
      /\ DOMAIN issued = 1 .. Len(issued) /\ DOMAIN issued' = 1 .. Len(issued')
      /\ Len(issued') = Len(issued) \/ Len(issued') = Len(issued) + 1
  BY DEF EndpointInv, TypeInv, Grows
<1> DEFINE Served(c) ==
             /\ Len(keys) > 0
             /\ c.exp <= now \div Second + RefreshTtl
             /\ \/ c.kid = keys[1].id
                \/ /\ Len(keys) = 2 /\ c.kid = keys[2].id
                   /\ c.exp <= keys[1].createdAt \div Second + RefreshTtl
                \/ c.exp < now \div Second
<1>2. \A t \in DOMAIN issued : issued[t].kid # NULL => Served(issued[t])
  BY DEF EndpointInv, KeyInv
<1>3. claims.kid # NULL => Served(claims)
  OBVIOUS
<1> HIDE DEF Served
<1>4. \A t \in DOMAIN issued' : issued'[t].kid # NULL => Served(issued'[t])
  <2> SUFFICES ASSUME NEW t \in DOMAIN issued', issued'[t].kid # NULL PROVE Served(issued'[t])
    OBVIOUS
  <2>1. CASE t \in DOMAIN issued
    BY <2>1, <1>2 DEF Grows
  <2>2. CASE t \notin DOMAIN issued
    <3> DEFINE n == Len(issued)
               m == Len(issued')
    <3>0. n \in Nat /\ m \in Nat /\ (m = n \/ m = n + 1) /\ t \in 1 .. m /\ t \notin 1 .. n
      BY <2>2, <1>1
    <3> HIDE DEF n, m
    <3>1. t = n + 1 /\ m # n
      BY <3>0
    <3> USE DEF n, m
    <3> QED BY <3>1, <1>3
  <2> QED BY <2>1, <2>2
<1> QED BY <1>4 DEF EndpointInv, KeyInv, Served

-----------------------------------------------------------------------------
(* The steps *)

LEMMA CurrentKey ==
  ASSUME EndpointInv, keys # <<>>
  PROVE  keys[1] \in KeyRecord /\ keys[1].id \in Nat /\ keys[1].createdAt \in Int /\ Len(keys) > 0
<1>1. keys \in Seq(KeyRecord) /\ Len(keys) > 0
  BY DEF EndpointInv, TypeInv
<1>2. keys[1] \in KeyRecord
  BY <1>1
<1> QED BY <1>1, <1>2 DEF KeyRecord

LEMMA SecretIsTyped ==
  ASSUME EndpointInv
  PROVE  EndpointSecret \in Nat
<1>1. CASE settings.secret = "current"
  <2>1. keys # <<>>
    BY <1>1 DEF EndpointInv, KeyInv
  <2> QED BY <2>1, <1>1, CurrentKey DEF EndpointSecret
<1>2. CASE settings.secret # "current"
  BY <1>2 DEF EndpointSecret, OwnSecret
<1> QED BY <1>1, <1>2

LEMMA AuthorizeStep ==
  ASSUME EndpointInv, Authorize
  PROVE  EndpointInv'
<1> DEFINE claims == [kind |-> "code", grant |-> Len(issued) + 1,
                      exp |-> (now + CodeTtl) \div Second, key |-> EndpointSecret, kid |-> NULL]
<1>1. /\ TypeInv /\ now \in Int /\ Len(issued) \in Nat
      /\ (now + CodeTtl) \div Second \in Int
  BY WholeSeconds, EndpointConstants DEF EndpointInv, TypeInv
<1>2. EndpointSecret \in Nat
  BY SecretIsTyped
<1>3. claims \in Claim
  BY <1>1, <1>2 DEF Claim
<1>4. Issue(claims) /\ UNCHANGED <<now, settings, keys, spentCodes, spentRefresh, uses>>
  BY DEF Authorize
<1>5. claims.grant = Len(issued) + 1 /\ claims.kid = NULL
  OBVIOUS
<1> HIDE DEF claims
<1>6. /\ Grows(Len(issued) + 1) /\ Len(issued') = Len(issued) + 1
      /\ issued'[Len(issued) + 1] = claims
  BY <1>1, <1>3, <1>4, <1>5, IssueGrows
<1>7. KeyInv'
  BY <1>4, <1>5, <1>6, KeyStep
<1>8. TypeInv'
  BY <1>1, <1>4, <1>6 DEF TypeInv, Grows
<1> DEFINE n == Len(issued)
           old == DOMAIN issued
           new == DOMAIN issued'
<1>9. /\ n \in Nat /\ old = 1 .. n /\ new = 1 .. (n + 1) /\ n + 1 <= MaxTokens
      /\ \A u \in old : issued'[u] = issued[u]
      /\ issued'[n + 1].grant = n + 1
      /\ Len(issued') = n + 1
  BY <1>1, <1>5, <1>6, <1>8 DEF TypeInv, Grows
<1>10. /\ \A u \in old : /\ issued[u].grant \in Nat /\ issued[u].grant <= n
                         /\ uses[u] \in Nat
       /\ \A u \in 1 .. MaxTokens : u > n => uses[u] = 0
  BY <1>1, ClaimsAreTyped DEF EndpointInv, Begun
<1>11. uses' = uses /\ now' = now /\ \A u \in old : SpentStore(u)' = SpentStore(u) /\ ClaimExpiryMs(u)' = ClaimExpiryMs(u)
  BY <1>4, <1>9 DEF SpentStore, ClaimExpiryMs
<1> HIDE DEF n, old, new
<1>12. new = old \union {n + 1} /\ n + 1 \notin old /\ uses[n + 1] = 0
  <2>1. n + 1 \in 1 .. MaxTokens
    BY <1>9, EndpointConstants
  <2> QED BY <2>1, <1>9, <1>10
<1>13. Begun'
  <2>1. \A u \in new : issued'[u].grant <= n + 1
    BY <1>9, <1>10, <1>12
  <2>2. \A u \in 1 .. MaxTokens : u > n + 1 => uses'[u] = 0
    BY <1>9, <1>10, <1>11
  <2> QED BY <2>1, <2>2, <1>9 DEF Begun, new
<1>14. SpentRemembered'
  <2>1. \A u \in old :
          /\ uses'[u] > 0 /\ now' <= ClaimExpiryMs(u)' =>
               u \in DOMAIN SpentStore(u)' /\ SpentStore(u)'[u] = ClaimExpiryMs(u)'
          /\ uses'[u] > 1 => now' > ClaimExpiryMs(u)'
    BY <1>11 DEF EndpointInv, SpentRemembered, old
  <2>2. uses'[n + 1] = 0
    BY <1>11, <1>12
  <2>3. ~(uses'[n + 1] > 0) /\ ~(uses'[n + 1] > 1)
    BY <2>2
  <2> QED BY <2>1, <2>3, <1>12 DEF SpentRemembered, new
<1>15. OneUnused'
  <2> SUFFICES ASSUME NEW u \in new, NEW w \in new,
                      issued'[u].grant = issued'[w].grant, uses'[u] = 0, uses'[w] = 0, u # w
               PROVE  \E v \in new : issued'[v].grant = issued'[u].grant /\ uses'[v] > 1
    BY DEF OneUnused, new
  <2>1. u \in old /\ w \in old
    <3>1. \A x \in old : issued'[x].grant # n + 1
      BY <1>9, <1>10
    <3> QED BY <3>1, <1>9, <1>12
  <2>2. PICK v \in old : issued[v].grant = issued[u].grant /\ uses[v] > 1
    BY <2>1, <1>9, <1>11 DEF EndpointInv, OneUnused, old
  <2> QED BY <2>1, <2>2, <1>9, <1>11, <1>12
<1> QED BY <1>7, <1>8, <1>13, <1>14, <1>15 DEF EndpointInv

\* A refresh token that a use issues.
LEMMA RefreshClaimsAreTyped ==
  ASSUME EndpointInv, NEW t \in DOMAIN issued, NEW key \in Nat, NEW kid \in Nat \union {NULL}
  PROVE  /\ RefreshClaims(t, key, kid) \in Claim
         /\ RefreshClaims(t, key, kid).grant = issued[t].grant
         /\ RefreshClaims(t, key, kid).kid = kid
         /\ RefreshClaims(t, key, kid).exp = now \div Second + RefreshTtl
<1>1. issued[t].grant \in Nat
  BY ClaimsAreTyped DEF EndpointInv
<1>2. now \div Second + RefreshTtl \in Int
  <2>1. now \div Second \in Int /\ RefreshTtl \in Int
    BY WholeSeconds, EndpointConstants DEF EndpointInv, TypeInv
  <2> QED BY <2>1
<1> QED BY <1>1, <1>2 DEF RefreshClaims, Claim

LEMMA CodeStep ==
  ASSUME EndpointInv, NEW t \in DOMAIN issued, ExchangeAuthorizationCode(t)
  PROVE  EndpointInv'
<1> DEFINE claims == RefreshClaims(t, EndpointSecret, NULL)
<1>1. claims \in Claim /\ claims.grant = issued[t].grant /\ claims.kid = NULL
  <2>1. EndpointSecret \in Nat /\ NULL \in Nat \union {NULL}
    BY SecretIsTyped
  <2> QED BY <2>1, RefreshClaimsAreTyped
<1>2. Issue(claims) /\ TypeInv
  BY DEF ExchangeAuthorizationCode, EndpointInv
<1> HIDE DEF claims
<1>3. /\ Grows(issued[t].grant)
      /\ issued'[Len(issued) + 1] = claims
  BY <1>1, <1>2, IssueGrows
<1>4. SpentStore(t) = spentCodes
  BY DEF ExchangeAuthorizationCode, ConsumeCode, CodeStands, SpentStore
<1>5. Used(t) /\ UNCHANGED <<now, keys, settings>>
  BY <1>4 DEF Used, ExchangeAuthorizationCode, ConsumeCode, CodeStands, Pay
<1> QED BY <1>1, <1>3, <1>5, UseStep, KeyStep DEF EndpointInv

LEMMA RefreshStep ==
  ASSUME EndpointInv, NEW t \in DOMAIN issued, ExchangeRefreshToken(t)
  PROVE  EndpointInv'
<1> DEFINE claims == RefreshClaims(t, SigningKey, SigningKid)
<1>1. SigningKey \in Nat /\ SigningKid \in Nat \union {NULL}
  BY CurrentKey DEF SigningKey, SigningKid, OwnSecret
<1>2. /\ claims \in Claim /\ claims.grant = issued[t].grant /\ claims.kid = SigningKid
      /\ claims.exp = now \div Second + RefreshTtl
  BY <1>1, RefreshClaimsAreTyped
<1>3. TypeInv /\ (Issue(claims) \/ UNCHANGED issued)
  BY DEF ExchangeRefreshToken, EndpointInv
<1> HIDE DEF claims
<1>4. /\ Grows(issued[t].grant)
      /\ Len(issued') # Len(issued) => issued'[Len(issued) + 1] = claims
  <2>1. CASE Issue(claims)
    BY <2>1, <1>2, <1>3, IssueGrows
  <2>2. CASE UNCHANGED issued
    BY <2>2, <1>3 DEF Grows, TypeInv
  <2> QED BY <2>1, <2>2, <1>3
<1>5. claims.kid # NULL =>
        /\ Len(keys) > 0 /\ claims.kid = keys[1].id
        /\ claims.exp <= now \div Second + RefreshTtl
  <2>1. now \div Second \in Int /\ RefreshTtl \in Int
    BY <1>3, WholeSeconds, EndpointConstants DEF TypeInv
  <2>2. claims.exp <= now \div Second + RefreshTtl
    BY <2>1, <1>2
  <2>3. claims.kid # NULL => keys # <<>> /\ claims.kid = keys[1].id
    BY <1>2 DEF SigningKid
  <2> QED BY <2>2, <2>3, CurrentKey
<1>6. SpentStore(t) = spentRefresh /\ issued[t].kind # "code"
  BY DEF ExchangeRefreshToken, RefreshStands, SpentStore
<1>7. Used(t) /\ UNCHANGED <<now, keys, settings>>
  BY <1>6 DEF Used, ExchangeRefreshToken, RefreshStands, Pay
<1> QED BY <1>4, <1>5, <1>7, UseStep, KeyStep DEF EndpointInv

LEMMA BurnStep ==
  ASSUME EndpointInv, NEW t \in DOMAIN issued, BurnCode(t)
  PROVE  EndpointInv'
<1>1. /\ UNCHANGED <<now, settings, keys, issued, spentRefresh, uses>>
      /\ issued[t].kind = "code"
      /\ spentCodes' = MapSet(spentCodes, t, ClaimExpiryMs(t))
  BY DEF BurnCode, ConsumeCode, CodeStands, MarkSpent, ClaimExpiryMs
<1>2. TypeInv' /\ Begun' /\ OneUnused' /\ KeyInv'
  BY <1>1 DEF EndpointInv, TypeInv, Begun, OneUnused, KeyInv
<1>3. SpentRemembered'
  <2> SUFFICES ASSUME NEW u \in DOMAIN issued
               PROVE  /\ uses[u] > 0 /\ now <= ClaimExpiryMs(u) =>
                           u \in DOMAIN SpentStore(u)' /\ SpentStore(u)'[u] = ClaimExpiryMs(u)
                      /\ uses[u] > 1 => now > ClaimExpiryMs(u)
    BY <1>1 DEF SpentRemembered, ClaimExpiryMs
  <2>1. u \in DOMAIN SpentStore(u) /\ SpentStore(u)[u] = ClaimExpiryMs(u) =>
          u \in DOMAIN SpentStore(u)' /\ SpentStore(u)'[u] = ClaimExpiryMs(u)
    BY <1>1 DEF SpentStore, MapSet
  <2> QED BY <2>1 DEF EndpointInv, SpentRemembered
<1> QED BY <1>2, <1>3 DEF EndpointInv

LEMMA RotateStep ==
  ASSUME EndpointInv, RotateIfNeeded
  PROVE  EndpointInv'
<1>1. /\ keys # <<>> /\ now - keys[1].createdAt >= RotationInterval
      /\ keys' = <<NewKey, keys[1]>>
      /\ UNCHANGED <<now, settings, issued, spentCodes, spentRefresh, uses>>
  BY DEF RotateIfNeeded, RotationDue
<1>2. /\ now \in Int /\ TypeInv
      /\ keys[1] \in KeyRecord /\ keys[1].id \in Nat /\ keys[1].createdAt \in Int
  BY <1>1, CurrentKey DEF EndpointInv, TypeInv
<1>3. NewKey \in KeyRecord /\ NewKey.createdAt = now
  BY <1>2 DEF NewKey, KeyRecord
<1>4. /\ keys' \in Seq(KeyRecord) /\ Len(keys') = 2
      /\ keys'[1].createdAt = now /\ keys'[2] = keys[1]
  BY <1>1, <1>2, <1>3
<1>5. TypeInv' /\ Begun' /\ SpentRemembered' /\ OneUnused'
  BY <1>1, <1>2, <1>4, QuietStep
<1>6. keys[1].createdAt \div Second + RefreshTtl < now \div Second
  BY <1>1, <1>2, KeyLifetime
<1>7. ASSUME NEW t \in DOMAIN issued, issued[t].kid # NULL
      PROVE  /\ issued[t].exp <= now \div Second + RefreshTtl
             /\ \/ issued[t].kid = keys[1].id
                \/ issued[t].exp < now \div Second
  <2> DEFINE e == issued[t].exp
             p == now \div Second
             c == keys[1].createdAt \div Second
  <2>1. e \in Int /\ p \in Int /\ c \in Int /\ RefreshTtl \in Int
    BY <1>2, ClaimsAreTyped, WholeSeconds, EndpointConstants
  <2>2. /\ e <= p + RefreshTtl
        /\ issued[t].kid = keys[1].id \/ e <= c + RefreshTtl \/ e < p
    BY <1>7 DEF EndpointInv, KeyInv
  <2>3. c + RefreshTtl < p
    BY <1>6
  <2> HIDE DEF e, p, c
  <2>4. e <= c + RefreshTtl => e < p
    BY <2>1, <2>3
  <2> QED BY <2>2, <2>4 DEF e, p
<1>8. KeyInv'
  BY <1>1, <1>4, <1>7 DEF KeyInv
<1> QED BY <1>5, <1>8 DEF EndpointInv

LEMMA EndpointNext == EndpointInv /\ [TokenNext]_<<now, tokenVars>> => EndpointInv'
<1> SUFFICES ASSUME EndpointInv, [TokenNext]_<<now, tokenVars>> PROVE EndpointInv'
  OBVIOUS
<1>1. CASE Authorize
  BY <1>1, AuthorizeStep
<1>2. CASE \E t \in DOMAIN issued :
             ExchangeAuthorizationCode(t) \/ BurnCode(t) \/ ExchangeRefreshToken(t)
  BY <1>2, CodeStep, BurnStep, RefreshStep
<1>3. CASE RotateIfNeeded
  BY <1>3, RotateStep
<1>4. CASE (Tick /\ UNCHANGED tokenVars) \/ UNCHANGED <<now, tokenVars>>
  BY <1>4, EndpointTick
<1> QED BY <1>1, <1>2, <1>3, <1>4 DEF TokenNext

-----------------------------------------------------------------------------
(* Theorems *)

LEMMA EndpointInvariance == TokenSpec => []EndpointInv
<1> QED BY InitEndpointInv, EndpointNext, PTL DEF TokenSpec

\* A code and a refresh token pay once until their expiry, because the store
\* remembers a used one as long: key-rotation and the clock change nothing.
THEOREM PaysOnce == TokenSpec => []PaysOnceBeforeExpiry
<1>1. EndpointInv => PaysOnceBeforeExpiry
  <2> SUFFICES ASSUME EndpointInv, NEW t \in DOMAIN issued, now <= ClaimExpiryMs(t) PROVE uses[t] <= 1
    BY DEF PaysOnceBeforeExpiry, ClaimExpiryMs
  <2>1. /\ now \in Int /\ ClaimExpiryMs(t) \in Int /\ uses[t] \in Nat
        /\ uses[t] > 1 => now > ClaimExpiryMs(t)
    BY ClaimsAreTyped DEF EndpointInv, TypeInv, SpentRemembered
  <2> QED BY <2>1
<1> QED BY <1>1, EndpointInvariance, PTL

\* One authorization never has two credentials that stand (createRefreshToken is
\* only called by a use that spends the credential before it), unless one of it
\* paid twice, which is after its expiry.
THEOREM OneCredential == TokenSpec => []OneCredentialPerGrant
<1>1. ASSUME EndpointInv, NEW t \in DOMAIN issued, Stands(t) PROVE uses[t] = 0
  <2>1. now <= ClaimExpiryMs(t) /\ ~IsSpent(SpentStore(t), t)
    BY <1>1 DEF Stands, CodeStands, RefreshStands, SpentStore, ClaimExpiryMs
  <2>2. now \in Int /\ ClaimExpiryMs(t) \in Int /\ uses[t] \in Nat
    BY <1>1, ClaimsAreTyped DEF EndpointInv, TypeInv
  <2>3. ASSUME uses[t] > 0 PROVE FALSE
    <3>1. t \in DOMAIN SpentStore(t) /\ SpentStore(t)[t] = ClaimExpiryMs(t)
      BY <1>1, <2>1, <2>3 DEF EndpointInv, SpentRemembered
    <3> QED BY <3>1, <2>1, <2>2 DEF IsSpent
  <2> QED BY <2>2, <2>3
<1>2. EndpointInv => OneCredentialPerGrant
  BY <1>1 DEF EndpointInv, OneUnused, OneCredentialPerGrant
<1> QED BY <1>2, EndpointInvariance, PTL

\* rotateIfNeeded keeps two keys, and that is enough: the key a refresh token
\* names is there as long as the token can be presented.
THEOREM KeysOutlive == TokenSpec => []KeyOutlivesToken
<1>1. EndpointInv => KeyOutlivesToken
  <2> SUFFICES ASSUME EndpointInv, NEW t \in DOMAIN issued,
                      issued[t].kid # NULL, issued[t].exp >= now \div Second
               PROVE  issued[t].kid \in KeyIds
    BY DEF KeyOutlivesToken
  <2>1. issued[t].exp \in Int /\ now \div Second \in Int
    BY ClaimsAreTyped, WholeSeconds DEF EndpointInv, TypeInv
  <2>2. ~(issued[t].exp < now \div Second)
    BY <2>1
  <2>3. /\ Len(keys) > 0
        /\ issued[t].kid = keys[1].id \/ (Len(keys) = 2 /\ issued[t].kid = keys[2].id)
    BY <2>2 DEF EndpointInv, KeyInv
  <2>4. keys \in Seq(KeyRecord) /\ Len(keys) \in Nat /\ DOMAIN keys = 1 .. Len(keys)
    BY DEF EndpointInv, TypeInv
  <2> QED BY <2>3, <2>4 DEF KeyIds
<1> QED BY <1>1, EndpointInvariance, PTL

(***************************************************************************)
(* The types of links and of what the token endpoint keeps.                *)
(***************************************************************************)

\* The seconds that begin while the clock runs.
LEMMA LateSeconds ==
  ASSUME NEW a \in Nat, NEW b \in Nat, a <= b
  PROVE  a \div Second \in 0 .. b \div Second
<1>1. a \div Second <= b \div Second /\ 0 \div Second <= a \div Second
  BY SecondsGrow
<1>2. 0 \div Second \in Int /\ a \div Second \in Int /\ b \div Second \in Int
  BY WholeSeconds
<1>3. 0 < (0 \div Second) * Second + Second /\ Second \in Int /\ Second > 0
  BY WholeSeconds, EndpointConstants
<1>4. 0 \div Second >= 0
  <2> DEFINE z == 0 \div Second
  <2>1. z \in Int /\ 0 < z * Second + Second
    BY <1>2, <1>3
  <2> HIDE DEF z
  <2>2. ASSUME z < 0 PROVE FALSE
    <3>1. z + 1 <= 0
      BY <2>1, <2>2
    <3>2. (z + 1) * Second <= 0
      BY <3>1, <2>1, <1>3
    <3> QED BY <3>2, <2>1, <1>3
  <2> QED BY <2>1, <2>2 DEF z
<1> QED BY <1>1, <1>2, <1>4

LEMMA LinkConstants == Ttl \in Nat /\ MaxRedemptions \in Nat /\ MaxTime \in Nat
  BY LinkAssumption, RuntimeAssumption

LEMMA SignKeepsLinkTypes ==
  ASSUME LinkTypes, NEW t \in Tokens, NEW kind \in Kinds, NEW bound \in BOOLEAN,
         SignLink(t, kind, bound)
  PROVE  LinkTypes'
<1>1. /\ UNCHANGED <<now, used, call, redemptions, acted>>
      /\ tokens' = MapSet(tokens, t,
                     [kind |-> kind, exp |-> (now + Ttl) \div Second, bound |-> bound])
  BY DEF SignLink
<1>2. (now + Ttl) \div Second \in 0 .. (MaxTime + Ttl) \div Second
  <2>1. now + Ttl \in Nat /\ MaxTime + Ttl \in Nat /\ now + Ttl <= MaxTime + Ttl
    BY LinkConstants DEF LinkTypes
  <2> QED BY <2>1, LateSeconds
<1>3. [kind |-> kind, exp |-> (now + Ttl) \div Second, bound |-> bound]
        \in [kind : Kinds, exp : 0 .. (MaxTime + Ttl) \div Second, bound : BOOLEAN]
  BY <1>2
<1>4. /\ DOMAIN tokens' = DOMAIN tokens \union {t}
      /\ tokens' \in [DOMAIN tokens' ->
           [kind : Kinds, exp : 0 .. (MaxTime + Ttl) \div Second, bound : BOOLEAN]]
  BY <1>1, <1>3 DEF LinkTypes, MapSet
<1> QED BY <1>1, <1>4 DEF LinkTypes

LEMMA RedeemElsewhereKeepsLinkTypes ==
  ASSUME LinkTypes, NEW t \in DOMAIN tokens, RedeemElsewhere(t)
  PROVE  LinkTypes'
<1>1. UNCHANGED <<now, tokens, call, redemptions, acted>> /\ used' = Purged(t)
  BY DEF RedeemElsewhere
<1>2. DOMAIN Purged(t) \subseteq DOMAIN used /\ Purged(t) \in [DOMAIN Purged(t) -> Nat]
  BY DEF Purged, MapDelete, LinkTypes
<1> QED BY <1>1, <1>2 DEF LinkTypes

LEMMA SpendKeepsLinkTypes ==
  ASSUME LinkTypes, NEW t \in DOMAIN tokens, NEW kind, Spend(t, kind),
         \/ UNCHANGED call
         \/ \E c \in Calls : call' = [call EXCEPT ![c] = <<t, redemptions[t] + 1>>]
  PROVE  LinkTypes'
<1>1. /\ UNCHANGED <<now, tokens, acted>>
      /\ used' = MapSet(Purged(t), t, tokens[t].exp * Second)
      /\ redemptions' = [redemptions EXCEPT ![t] = @ + 1] /\ redemptions[t] < MaxRedemptions
  BY DEF Spend
<1>2. DOMAIN Purged(t) \subseteq DOMAIN used /\ Purged(t) \in [DOMAIN Purged(t) -> Nat]
  BY DEF Purged, MapDelete, LinkTypes
<1>3. tokens[t].exp * Second \in Nat
  <2>1. tokens[t].exp \in Nat /\ Second \in Nat
    <3>1. tokens[t].exp \in 0 .. (MaxTime + Ttl) \div Second
      BY DEF LinkTypes
    <3> QED BY <3>1, RuntimeAssumption
  <2> QED BY <2>1
<1>4. /\ DOMAIN used' = DOMAIN Purged(t) \union {t}
      /\ used' \in [DOMAIN used' -> Nat]
  BY <1>1, <1>2, <1>3 DEF MapSet
<1>5. t \in Tokens /\ redemptions[t] + 1 \in 0 .. MaxRedemptions
  BY <1>1, LinkConstants DEF LinkTypes
<1>6. redemptions' \in [Tokens -> 0 .. MaxRedemptions]
  BY <1>1, <1>5 DEF LinkTypes
<1>7. <<t, redemptions[t] + 1>> \in Tokens \X Nat
  BY <1>5
<1>8. call' \in [Calls -> (Tokens \X Nat) \union {NULL}]
  BY <1>7 DEF LinkTypes
<1> QED BY <1>1, <1>2, <1>4, <1>6, <1>8 DEF LinkTypes

LEMMA EndsKeepsLinkTypes ==
  ASSUME LinkTypes, NEW c \in Calls, NEW kind, NEW effect \in SUBSET {call[c]},
         Ends(c, kind, effect)
  PROVE  LinkTypes'
<1>1. call[c] # NULL /\ acted' = acted \union effect
      /\ call' = [call EXCEPT ![c] = NULL] /\ UNCHANGED <<now, tokens, used, redemptions>>
  BY DEF Ends
<1>2. effect \subseteq Tokens \X Nat
  BY <1>1 DEF LinkTypes
<1>3. call' \in [Calls -> (Tokens \X Nat) \union {NULL}]
  BY <1>1 DEF LinkTypes
<1> QED BY <1>1, <1>2, <1>3 DEF LinkTypes

LEMMA NextKeepsLinkTypes == LinkTypes /\ [LinkNext]_<<now, linkVars>> => LinkTypes'
<1> SUFFICES ASSUME LinkTypes, [LinkNext]_<<now, linkVars>> PROVE LinkTypes'
  OBVIOUS
<1>1. CASE UNCHANGED <<now, linkVars>>
  BY <1>1 DEF linkVars, LinkTypes
<1>2. ASSUME NEW t \in Tokens,
             \/ \E bound \in BOOLEAN : RequestMagicLink(t, bound)
             \/ RequestPasswordReset(t)
             \/ SendEmailVerification(t)
             \/ CreateConfirmationToken(t)
      PROVE  LinkTypes'
  <2>1. /\ {"magicLink", "passwordReset", "emailVerification", "confirmation"} \subseteq Kinds
        /\ FALSE \in BOOLEAN
    BY DEF Kinds
  <2> QED BY <1>2, <2>1, SignKeepsLinkTypes
          DEF RequestMagicLink, RequestPasswordReset, SendEmailVerification,
              CreateMagicLinkToken, CreatePasswordResetToken, CreateEmailVerificationToken,
              CreateConfirmationToken
<1>3. ASSUME NEW t \in DOMAIN tokens, RedeemElsewhere(t) \/ ConfirmationMismatch(t)
      PROVE  LinkTypes'
  BY <1>3, RedeemElsewhereKeepsLinkTypes, SpendKeepsLinkTypes DEF ConfirmationMismatch
<1>4. ASSUME NEW c \in Calls, NEW t \in DOMAIN tokens, NEW kind, Redeem(c, t, kind)
      PROVE  LinkTypes'
  BY <1>4, SpendKeepsLinkTypes DEF Redeem
<1>5. ASSUME NEW c \in Calls, NEW t \in DOMAIN tokens,
             \/ VerifyMagicLinkToken(c, t)
             \/ VerifyPasswordResetToken(c, t)
             \/ VerifyEmailVerificationToken(c, t)
             \/ VerifyConfirmationToken(c, t)
      PROVE  LinkTypes'
  BY <1>4, <1>5 DEF VerifyMagicLinkToken, VerifyPasswordResetToken,
                    VerifyEmailVerificationToken, VerifyConfirmationToken
<1>6. ASSUME NEW c \in Calls,
             \/ VerifyMagicLink(c)
             \/ ResetPasswordWithToken(c)
             \/ VerifyEmailWithToken(c)
             \/ ExecuteSensitiveOperation(c)
      PROVE  LinkTypes'
  <2>1. {} \in SUBSET {call[c]} /\ {call[c]} \in SUBSET {call[c]}
    OBVIOUS
  <2> QED BY <1>6, <2>1, EndsKeepsLinkTypes
          DEF VerifyMagicLink, ResetPasswordWithToken, VerifyEmailWithToken,
              ExecuteSensitiveOperation
<1>7. ASSUME Tick, UNCHANGED linkVars PROVE LinkTypes'
  <2>1. now' \in 0 .. MaxTime
    BY <1>7, LinkConstants DEF Tick, LinkTypes
  <2> QED BY <1>7, <2>1 DEF linkVars, LinkTypes
<1> QED BY <1>1, <1>2, <1>3, <1>5, <1>6, <1>7 DEF LinkNext

LEMMA InitLinkTypes == now = 0 /\ LinkInit => LinkTypes
<1> SUFFICES ASSUME now = 0, LinkInit PROVE LinkTypes
  OBVIOUS
<1> QED BY LinkConstants DEF LinkInit, LinkTypes, EmptyMap

\* A configured key set is never empty.
EndpointTypes ==
  /\ TokenTypes /\ now \in 0 .. MaxTime
  /\ settings.secret # "own" => Len(keys) > 0

LEMMA TokenConstants ==
  /\ MaxTokens \in Nat /\ CodeTtl \in Nat /\ RefreshTtl \in Nat /\ MaxUses \in Nat
  /\ MaxKeys \in Nat /\ MaxKeys > 0 /\ MaxTime \in Nat
  BY TokenAssumption, RuntimeAssumption

LEMMA InitEndpointTypes == now = 0 /\ TokenInit => EndpointTypes
<1> SUFFICES ASSUME now = 0, TokenInit PROVE EndpointTypes
  OBVIOUS
<1>1. issued = <<>> /\ Len(issued) = 0 /\ issued \in Seq(Claims)
  BY DEF TokenInit
<1>2. DOMAIN spentCodes = {} /\ DOMAIN spentRefresh = {}
  BY DEF TokenInit, EmptyMap
<1>3. /\ settings \in [secret : {"own", "beside", "current"}, rotate : BOOLEAN]
      /\ uses \in [1 .. MaxTokens -> 0 .. MaxUses]
  BY TokenConstants DEF TokenInit
<1>4. /\ keys \in Seq([id : 1 .. MaxKeys, createdAt : 0 .. MaxTime]) /\ Len(keys) <= 2
      /\ settings.secret # "own" => Len(keys) > 0
  <2>1. CASE settings.secret = "own"
    BY <2>1 DEF TokenInit
  <2>2. CASE settings.secret # "own"
    <3>1. keys = <<[id |-> 1, createdAt |-> 0]>>
      BY <2>2 DEF TokenInit
    <3>2. [id |-> 1, createdAt |-> 0] \in [id : 1 .. MaxKeys, createdAt : 0 .. MaxTime]
      BY TokenConstants
    <3> QED BY <3>1, <3>2
  <2> QED BY <2>1, <2>2
<1> QED BY <1>1, <1>2, <1>3, <1>4, TokenConstants DEF EndpointTypes, TokenTypes

LEMMA FirstKeyTyped ==
  ASSUME EndpointTypes, keys # <<>>
  PROVE  keys[1] \in [id : 1 .. MaxKeys, createdAt : 0 .. MaxTime]
<1> DEFINE Key == [id : 1 .. MaxKeys, createdAt : 0 .. MaxTime]
<1>1. keys \in Seq(Key)
  BY DEF EndpointTypes, TokenTypes
<1> HIDE DEF Key
<1>2. 1 \in 1 .. Len(keys)
  BY <1>1
<1>3. keys[1] \in Key
  BY <1>1, <1>2, ElementOfSeq
<1> QED BY <1>3 DEF Key

\* Whatever the endpoint signs with is a key it has had, or its own secret.
LEMMA SecretsAreTyped ==
  ASSUME EndpointTypes
  PROVE  /\ EndpointSecret \in 0 .. MaxKeys
         /\ SigningKey \in 0 .. MaxKeys /\ SigningKid \in (1 .. MaxKeys) \union {NULL}
<1>1. Len(keys) > 0 => keys[1].id \in 1 .. MaxKeys
  BY FirstKeyTyped
<1>2. settings.secret = "current" => Len(keys) > 0
  BY DEF EndpointTypes
<1>3. keys # <<>> => Len(keys) > 0
  BY DEF EndpointTypes, TokenTypes
<1>4. 0 \in 0 .. MaxKeys /\ 1 .. MaxKeys \subseteq 0 .. MaxKeys
  BY TokenConstants
<1> QED BY <1>1, <1>2, <1>3, <1>4 DEF EndpointSecret, SigningKey, SigningKid, OwnSecret

\* Signing one more code or token, and remembering some as used, keeps the types.
LEMMA IssueKeepsTypes ==
  ASSUME EndpointTypes, UNCHANGED <<now, settings, keys>>,
         \/ UNCHANGED issued
         \/ \E claims \in Claims : Issue(claims),
         DOMAIN spentCodes' \union DOMAIN spentRefresh' \subseteq DOMAIN issued,
         uses' \in [1 .. MaxTokens -> 0 .. MaxUses]
  PROVE  EndpointTypes'
<1>1. issued \in Seq(Claims) /\ Len(issued) <= MaxTokens /\ Len(issued) \in Nat
  BY DEF EndpointTypes, TokenTypes
<1>2. /\ issued' \in Seq(Claims) /\ Len(issued') <= MaxTokens
      /\ DOMAIN issued \subseteq DOMAIN issued'
  <2>1. CASE UNCHANGED issued
    BY <2>1, <1>1
  <2>2. ASSUME NEW claims \in Claims, Issue(claims) 
        PROVE  /\ issued' \in Seq(Claims) /\ Len(issued') <= MaxTokens
               /\ DOMAIN issued \subseteq DOMAIN issued'
    <3>1. issued' = Append(issued, claims) /\ Len(issued) < MaxTokens
      BY <2>2 DEF Issue
    <3> QED BY <3>1, <1>1, TokenConstants, AppendProperties
  <2> QED BY <2>1, <2>2
<1> QED BY <1>1, <1>2 DEF EndpointTypes, TokenTypes

LEMMA RefreshClaimsTyped ==
  ASSUME EndpointTypes, NEW t \in DOMAIN issued,
         NEW key \in 0 .. MaxKeys, NEW kid \in (1 .. MaxKeys) \union {NULL}
  PROVE  RefreshClaims(t, key, kid) \in Claims
<1>1. issued[t].grant \in 1 .. MaxTokens
  <2>1. issued[t] \in Claims
    BY ElementOfSeq DEF EndpointTypes, TokenTypes
  <2> QED BY <2>1 DEF Claims
<1>2. now \div Second + RefreshTtl \in Nat
  <2>1. now \div Second \in Nat
    BY TokenConstants, LateSeconds DEF EndpointTypes
  <2> QED BY <2>1, TokenConstants
<1> QED BY <1>1, <1>2 DEF RefreshClaims, Claims

LEMMA PayKeepsTypes ==
  ASSUME EndpointTypes, NEW t \in DOMAIN issued, Pay(t)
  PROVE  uses' \in [1 .. MaxTokens -> 0 .. MaxUses]
<1>1. t \in 1 .. MaxTokens
  BY TokenConstants DEF EndpointTypes, TokenTypes
<1>2. uses[t] + 1 \in 0 .. MaxUses
  BY <1>1, TokenConstants DEF Pay, EndpointTypes, TokenTypes
<1> QED BY <1>1, <1>2 DEF Pay, EndpointTypes, TokenTypes

LEMMA NextKeepsEndpointTypes ==
  EndpointTypes /\ [TokenNext]_<<now, tokenVars>> => EndpointTypes'
<1> SUFFICES ASSUME EndpointTypes, [TokenNext]_<<now, tokenVars>> PROVE EndpointTypes'
  OBVIOUS
<1>0. /\ uses \in [1 .. MaxTokens -> 0 .. MaxUses]
      /\ DOMAIN spentCodes \union DOMAIN spentRefresh \subseteq DOMAIN issued
  BY DEF EndpointTypes, TokenTypes
<1>1. CASE Authorize
  <2> DEFINE claims == [kind |-> "code", grant |-> Len(issued) + 1,
                        exp |-> (now + CodeTtl) \div Second, key |-> EndpointSecret,
                        kid |-> NULL]
  <2>1. Len(issued) + 1 \in 1 .. MaxTokens
    BY <1>1, TokenConstants DEF Authorize, Issue, EndpointTypes, TokenTypes
  <2>2. (now + CodeTtl) \div Second \in Nat
    BY TokenConstants, LateSeconds DEF EndpointTypes
  <2>3. claims \in Claims
    BY <2>1, <2>2, SecretsAreTyped DEF Claims
  <2>4. Issue(claims) /\ UNCHANGED <<now, settings, keys, spentCodes, spentRefresh, uses>>
    BY <1>1 DEF Authorize
  <2> HIDE DEF claims
  <2> QED BY <2>3, <2>4, <1>0, IssueKeepsTypes
<1>2. ASSUME NEW t \in DOMAIN issued, ExchangeAuthorizationCode(t) PROVE EndpointTypes'
  <2>1. /\ ConsumeCode(t) /\ Pay(t) /\ Issue(RefreshClaims(t, EndpointSecret, NULL))
        /\ UNCHANGED <<now, settings, keys, spentRefresh>>
    BY <1>2 DEF ExchangeAuthorizationCode
  <2>2. RefreshClaims(t, EndpointSecret, NULL) \in Claims
    BY SecretsAreTyped, RefreshClaimsTyped
  <2>3. DOMAIN spentCodes' \union DOMAIN spentRefresh' \subseteq DOMAIN issued
    BY <2>1, <1>0 DEF ConsumeCode, MarkSpent, MapSet
  <2> QED BY <2>1, <2>2, <2>3, PayKeepsTypes, IssueKeepsTypes
<1>3. ASSUME NEW t \in DOMAIN issued, BurnCode(t) PROVE EndpointTypes'
  <2>1. ConsumeCode(t) /\ UNCHANGED <<now, settings, keys, issued, spentRefresh, uses>>
    BY <1>3 DEF BurnCode
  <2>2. DOMAIN spentCodes' \union DOMAIN spentRefresh' \subseteq DOMAIN issued
    BY <2>1, <1>0 DEF ConsumeCode, MarkSpent, MapSet
  <2> QED BY <2>1, <2>2, <1>0, IssueKeepsTypes
<1>4. ASSUME NEW t \in DOMAIN issued, ExchangeRefreshToken(t) PROVE EndpointTypes'
  <2>1. /\ Pay(t) /\ spentRefresh' = MarkSpent(spentRefresh, t)
        /\ IF settings.rotate THEN Issue(RefreshClaims(t, SigningKey, SigningKid))
           ELSE UNCHANGED issued
        /\ UNCHANGED <<now, settings, keys, spentCodes>>
    BY <1>4 DEF ExchangeRefreshToken
  <2>2. RefreshClaims(t, SigningKey, SigningKid) \in Claims
    BY SecretsAreTyped, RefreshClaimsTyped
  <2>3. DOMAIN spentCodes' \union DOMAIN spentRefresh' \subseteq DOMAIN issued
    BY <2>1, <1>0 DEF MarkSpent, MapSet
  <2> QED BY <2>1, <2>2, <2>3, PayKeepsTypes, IssueKeepsTypes
<1>5. CASE RotateIfNeeded
  <2>1. /\ keys # <<>> /\ keys[1].id < MaxKeys /\ keys' = <<NewKey, keys[1]>>
        /\ UNCHANGED <<now, settings, issued, spentCodes, spentRefresh, uses>>
    BY <1>5 DEF RotateIfNeeded, RotationDue
  <2>2. keys[1] \in [id : 1 .. MaxKeys, createdAt : 0 .. MaxTime]
    BY <2>1, FirstKeyTyped
  <2>3. NewKey \in [id : 1 .. MaxKeys, createdAt : 0 .. MaxTime]
    BY <2>1, <2>2, TokenConstants DEF NewKey, EndpointTypes
  <2>4. /\ keys' \in Seq([id : 1 .. MaxKeys, createdAt : 0 .. MaxTime])
        /\ Len(keys') = 2
    BY <2>1, <2>2, <2>3
  <2> QED BY <2>1, <2>4 DEF EndpointTypes, TokenTypes
<1>6. CASE (Tick /\ UNCHANGED tokenVars) \/ UNCHANGED <<now, tokenVars>>
  <2>1. now' \in 0 .. MaxTime
    BY <1>6, TokenConstants DEF Tick, EndpointTypes
  <2>2. UNCHANGED <<settings, keys, issued, spentCodes, spentRefresh, uses>>
    BY <1>6 DEF tokenVars
  <2> QED BY <2>1, <2>2 DEF EndpointTypes, TokenTypes
<1> QED BY <1>1, <1>2, <1>3, <1>4, <1>5, <1>6 DEF TokenNext

(***************************************************************************)
(* The synchronous components together, as the model checker runs them.    *)
(***************************************************************************)

\* The component that a behaviour follows has its invariant.
FollowedInv ==
  /\ focus \in {"limiter", "links", "devices", "tokens", "attempts", "mails"}
  /\ focus = "limiter" => LimiterInv
  /\ focus = "links" => LinkTypes
  /\ focus = "devices" => DeviceInv
  /\ focus = "tokens" => EndpointTypes
  /\ focus = "attempts" => WindowInv
  /\ focus = "mails" => ResendInv

LEMMA FollowedInvariance == Spec => []FollowedInv
<1>1. Init => FollowedInv
  BY InitLimiterInv, InitLinkTypes, InitDeviceInv, InitEndpointTypes, InitWindowInv,
     InitResendInv DEF Init, FollowedInv
<1>2. FollowedInv /\ [Next]_vars => FollowedInv'
  <2> SUFFICES ASSUME FollowedInv, [Next]_vars PROVE FollowedInv'
    OBVIOUS
  <2>1. UNCHANGED focus
    BY DEF Next, vars, LimiterStep, LinkStep, DeviceStep, TokenStep, AttemptStep, MailStep
  <2>2. /\ focus = "limiter" => [LimiterNext]_limiterVars
        /\ focus = "links" => [LinkNext]_<<now, linkVars>>
        /\ focus = "devices" => [DeviceNext]_<<now, deviceVars>>
        /\ focus = "tokens" => [TokenNext]_<<now, tokenVars>>
        /\ focus = "attempts" => [WindowNext]_<<now, windowVars>>
        /\ focus = "mails" => [ResendNext]_<<now, resendVars>>
    BY DEF Next, vars, LimiterStep, LinkStep, DeviceStep, TokenStep, AttemptStep, MailStep
  <2>3. CASE focus = "limiter"
    BY <2>1, <2>2, <2>3, NextKeepsLimiterInv DEF FollowedInv
  <2>4. CASE focus = "links"
    BY <2>1, <2>2, <2>4, NextKeepsLinkTypes DEF FollowedInv
  <2>5. CASE focus = "devices"
    BY <2>1, <2>2, <2>5, DeviceNextKeeps DEF FollowedInv
  <2>6. CASE focus = "tokens"
    BY <2>1, <2>2, <2>6, NextKeepsEndpointTypes DEF FollowedInv
  <2>7. CASE focus = "attempts"
    BY <2>1, <2>2, <2>7, NextKeepsWindowInv DEF FollowedInv
  <2>8. CASE focus = "mails"
    BY <2>1, <2>2, <2>8, NextKeepsResendInv DEF FollowedInv
  <2> QED BY <2>3, <2>4, <2>5, <2>6, <2>7, <2>8 DEF FollowedInv
<1> QED BY <1>1, <1>2, PTL DEF Spec

\* Whichever component a behaviour follows keeps its types: the registry, links and
\* their used-token store, device codes, claims and keys, attempts, and mails.
THEOREM SynchronousTyped == Spec => []TypeOK
<1>1. LimiterInv => LimiterTypes
  BY TypesFollow
<1>2. DeviceInv => DeviceTypes
  BY DEF DeviceInv, StoreTypes, HistoryTypes, DeviceTypes
<1>3. EndpointTypes => TokenTypes
  BY DEF EndpointTypes
<1>4. WindowInv => WindowTypes
  BY DEF WindowInv, WindowTypes, Times
<1>5. ResendInv => ResendTypes
  BY ResendTypesFollow
<1>6. FollowedInv => TypeOK
  BY <1>1, <1>2, <1>3, <1>4, <1>5 DEF FollowedInv, TypeOK
<1> QED BY <1>6, FollowedInvariance, PTL
==============================================================================
