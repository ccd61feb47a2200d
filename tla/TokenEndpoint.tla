--------------------------- MODULE TokenEndpoint ---------------------------
(***************************************************************************)
(* The OAuth token endpoint: authorization codes (authorization-code-pkce, *)
(* authorization-code-exchange), refresh tokens (refresh-token) and the    *)
(* keys that sign them (key-rotation), as oauth-oidc-provider.ts puts them *)
(* together.  Every entry point is synchronous, so each is one step.       *)
(*                                                                         *)
(* Random ids are numbered in the order they are drawn, tokens from 1 and  *)
(* keys from 1; key 0 is a secret that is no key.  Wrong client            *)
(* credentials, a wrong code_verifier and a token the server did not sign  *)
(* change nothing and are left out.                                        *)
(***************************************************************************)
EXTENDS Runtime, Maps, Sequences

CONSTANTS
  MaxTokens,         \* bound on the codes and refresh tokens that are issued
  MaxKeys,           \* bound on the signing keys that are generated
  CodeTtl,           \* codeTtlMs
  RefreshTtl,        \* DEFAULT_REFRESH_TOKEN_EXPIRES_IN_SEC, in seconds
  RotationInterval,  \* rotationIntervalDays, in ticks
  MaxUses            \* bound on how often one token is accepted

ASSUME TokenAssumption ==
  /\ {MaxTokens, CodeTtl, RefreshTtl, MaxUses} \subseteq Nat /\ MaxKeys \in Nat \ {0}
  /\ RotationInterval \in Nat /\ RotationInterval >= (RefreshTtl + 1) * Second
  /\ NULL \notin Nat

VARIABLES
  settings,     \* [secret, rotate]: what the endpoint is configured with
  keys,         \* the signing key store, newest first
  issued,       \* the signed claims of every code and refresh token
  spentCodes,   \* the store of used codes: jti -> expiry in ticks
  spentRefresh, \* the store of used refresh tokens
  uses          \* jti -> how often it paid for an access token (history)

tokenVars == <<settings, keys, issued, spentCodes, spentRefresh, uses>>

\* The endpoint has a secret of its own, a key set beside it, or a key set whose
\* current key is its secret.
TokenInit ==
  /\ settings \in [secret : {"own", "beside", "current"}, rotate : BOOLEAN]
  /\ IF settings.secret = "own" THEN keys = <<>>
     ELSE keys = <<[id |-> 1, createdAt |-> now]>>
  /\ issued = <<>>
  /\ spentCodes = EmptyMap
  /\ spentRefresh = EmptyMap
  /\ uses = [t \in 1 .. MaxTokens |-> 0]

-----------------------------------------------------------------------------
(* Keys and used-token stores *)

OwnSecret == 0
KeyIds == {keys[i].id : i \in DOMAIN keys}

\* options.secret
EndpointSecret == IF settings.secret = "current" THEN keys[1].id ELSE OwnSecret

\* verifyRefreshTokenWithKeySet: the key the header names, else the current one;
\* without a key set, options.secret.
VerificationKey(kid) ==
  CASE keys = <<>>    -> OwnSecret
    [] kid \in KeyIds -> kid
    [] OTHER          -> keys[1].id

Verifies(t) ==
  /\ issued[t].exp >= now \div Second
  /\ issued[t].key = VerificationKey(issued[t].kid)

\* isUsed of either store forgets an entry past its expiry.
IsSpent(store, t) == t \in DOMAIN store /\ store[t] >= now

\* A plausible bug: the expiry is remembered in seconds.
MarkSpentInSeconds(store, t) == MapSet(store, t, issued[t].exp)

MarkSpent(store, t) == MapSet(store, t, issued[t].exp * Second)

\* createAuthorizationCode and createRefreshToken
Issue(claims) ==
  /\ Len(issued) < MaxTokens
  /\ issued' = Append(issued, claims)

RefreshClaims(t, key, kid) ==
  [kind |-> "refresh", grant |-> issued[t].grant,
   exp |-> now \div Second + RefreshTtl, key |-> key, kid |-> kid]

-----------------------------------------------------------------------------
(* The entry points *)

\* createAuthorizationRedirect for a valid request of a signed-in user.
Authorize ==
  /\ Issue([kind |-> "code", grant |-> Len(issued) + 1,
            exp |-> (now + CodeTtl) \div Second, key |-> EndpointSecret, kid |-> NULL])
  /\ UNCHANGED <<now, settings, keys, spentCodes, spentRefresh, uses>>

\* verifyAndConsumeAuthorizationCode up to the used-code store.
CodeStands(t) ==
  /\ issued[t].kind = "code"
  /\ issued[t].exp >= now \div Second
  /\ issued[t].key = EndpointSecret
  /\ ~IsSpent(spentCodes, t)

\* A plausible bug: the code is looked up and never marked.
ConsumeNothing(t) ==
  /\ CodeStands(t)
  /\ UNCHANGED spentCodes

ConsumeCode(t) ==
  /\ CodeStands(t)
  /\ spentCodes' = MarkSpent(spentCodes, t)

Pay(t) ==
  /\ uses[t] < MaxUses
  /\ uses' = [uses EXCEPT ![t] = @ + 1]

\* exchangeAuthorizationCode with issueRefreshToken: the refresh token names no
\* key.
ExchangeAuthorizationCode(t) ==
  /\ ConsumeCode(t)
  /\ Pay(t)
  /\ Issue(RefreshClaims(t, EndpointSecret, NULL))
  /\ UNCHANGED <<now, settings, keys, spentRefresh>>

\* Another redirect_uri or client is refused after the code is spent.
BurnCode(t) ==
  /\ ConsumeCode(t)
  /\ UNCHANGED <<now, settings, keys, issued, spentRefresh, uses>>

RefreshStands(t) ==
  /\ issued[t].kind = "refresh"
  /\ Verifies(t)
  /\ ~IsSpent(spentRefresh, t)

\* getSigningSecretAndKeyId
SigningKey == IF keys = <<>> THEN OwnSecret ELSE keys[1].id
SigningKid == IF keys = <<>> THEN NULL ELSE keys[1].id

\* handleRefreshTokenFlow, which refuses another client before anything is spent.
ExchangeRefreshToken(t) ==
  /\ RefreshStands(t)
  /\ Pay(t)
  /\ spentRefresh' = MarkSpent(spentRefresh, t)
  /\ IF settings.rotate THEN Issue(RefreshClaims(t, SigningKey, SigningKid)) ELSE UNCHANGED issued
  /\ UNCHANGED <<now, settings, keys, spentCodes>>

\* generateSigningKey
NewKey == [id |-> keys[1].id + 1, createdAt |-> now]

RotationDue ==
  /\ keys # <<>> /\ keys[1].id < MaxKeys
  /\ now - keys[1].createdAt >= RotationInterval

\* A plausible bug: only the newest key is kept.
RotateKeepsOne ==
  /\ RotationDue
  /\ keys' = <<NewKey>>
  /\ UNCHANGED <<now, settings, issued, spentCodes, spentRefresh, uses>>

\* rotateIfNeeded, from the timer or by a caller: two keys stay.
RotateIfNeeded ==
  /\ RotationDue
  /\ keys' = <<NewKey, keys[1]>>
  /\ UNCHANGED <<now, settings, issued, spentCodes, spentRefresh, uses>>

TokenNext ==
  \/ Authorize
  \/ \E t \in DOMAIN issued :
       ExchangeAuthorizationCode(t) \/ BurnCode(t) \/ ExchangeRefreshToken(t)
  \/ RotateIfNeeded
  \/ Tick /\ UNCHANGED tokenVars

TokenSpec == now = 0 /\ TokenInit /\ [][TokenNext]_<<now, tokenVars>>

-----------------------------------------------------------------------------
(* Correctness *)

Claims ==
  [kind : {"code", "refresh"}, grant : 1 .. MaxTokens, exp : Nat,
   key : 0 .. MaxKeys, kid : (1 .. MaxKeys) \union {NULL}]

\* The key store, the claims, both stores of used tokens and the counts keep
\* their types, and the key store holds two keys at most.
TokenTypes ==
  /\ settings \in [secret : {"own", "beside", "current"}, rotate : BOOLEAN]
  /\ Len(keys) <= 2 /\ keys \in Seq([id : 1 .. MaxKeys, createdAt : 0 .. MaxTime])
  /\ Len(issued) <= MaxTokens /\ issued \in Seq(Claims)
  /\ DOMAIN spentCodes \union DOMAIN spentRefresh \subseteq DOMAIN issued
  /\ uses \in [1 .. MaxTokens -> 0 .. MaxUses]

\* Until the second of its expiry has begun, a code or a refresh token pays once,
\* whatever keys come and go between.
PaysOnceBeforeExpiry ==
  \A t \in DOMAIN issued : now <= issued[t].exp * Second => uses[t] <= 1

Stands(t) ==
  /\ CodeStands(t) \/ RefreshStands(t)
  /\ now <= issued[t].exp * Second

\* However codes and refresh tokens are presented, one authorization never has
\* two credentials that stand, unless one of it paid twice in its last second.
OneCredentialPerGrant ==
  \A t, u \in DOMAIN issued :
    issued[t].grant = issued[u].grant /\ Stands(t) /\ Stands(u) /\ t # u =>
      \E v \in DOMAIN issued : issued[v].grant = issued[t].grant /\ uses[v] > 1

\* A key that a refresh token names is kept as long as the token can be
\* presented, although only two keys are: rotation is slower than expiry.
KeyOutlivesToken ==
  \A t \in DOMAIN issued :
    issued[t].kid # NULL /\ issued[t].exp >= now \div Second => issued[t].kid \in KeyIds
=============================================================================
