------------------------------ MODULE Passkeys ------------------------------
(***************************************************************************)
(* The passkeys of one user: passkeys.ts over a store of credentials and a *)
(* store of challenges that forgets nothing.  A request is a slot of       *)
(* PasskeyCalls; a step runs from one await to the next.                   *)
(*                                                                         *)
(* Signatures are verified by a library: a response counts if it answers   *)
(* the challenge expected, and an assertion if its counter is above the    *)
(* one stored or both are zero.  Names and devices are left out.           *)
(***************************************************************************)
EXTENDS Naturals, FiniteSets, Maps

CONSTANTS
  Keys,          \* bound: the credentials ever made
  Counterless,   \* those whose authenticator always signs with a counter of 0
  Challenges,    \* bound: the challenges ever generated
  PasskeyCalls,  \* bound: requests in flight
  MaxSignatures, \* bound on the assertions a credential makes
  MaxPaid,       \* bound on how often one assertion is accepted
  NULL

ASSUME PasskeyAssumption ==
  /\ Counterless \subseteq Keys
  /\ NULL \notin Challenges
  /\ MaxSignatures \in Nat /\ MaxPaid \in Nat

VARIABLES
  counters,   \* the credentials stored, each with its signature counter
  regChallenge, authChallenge, \* the user's latest options, or NULL
  openChallenges, \* the options of discoverable sign-ins, kept by challenge
  attested,   \* the credentials made, each with the challenge it answers
  asserted,   \* the assertions made: key, challenge, count
  paid,       \* how often each assertion was accepted since its key was stored (history)
  rewritten,  \* keys whose counter a request wrote that was not as it had read it (history)
  passkeyCall \* the local variables of every request

challengeVars == <<regChallenge, authChallenge, openChallenges>>
authenticatorVars == <<attested, asserted>>
passkeyHistory == <<paid, rewritten>>
passkeyVars ==
  <<counters, challengeVars, authenticatorVars, passkeyHistory, passkeyCall>>

Assertions == [key : Keys, challenge : Challenges, count : 0 .. MaxSignatures]
NoCall == [pc |-> "idle"]

PasskeyInit ==
  /\ counters = EmptyMap
  /\ regChallenge = NULL /\ authChallenge = NULL /\ openChallenges = {}
  /\ attested = EmptyMap /\ asserted = {}
  /\ paid = [a \in Assertions |-> 0] /\ rewritten = {}
  /\ passkeyCall = [c \in PasskeyCalls |-> NoCall]

KeyAt(c, pc) == passkeyCall[c].pc = pc
KeyGoesOn(c, locals) == passkeyCall' = [passkeyCall EXCEPT ![c] = locals]
KeyEnds(c) == KeyGoesOn(c, NoCall)

-----------------------------------------------------------------------------
(* Challenges, and the authenticators that answer them *)

Issued ==
  {regChallenge, authChallenge} \union openChallenges
    \union {attested[k] : k \in DOMAIN attested} \union {a.challenge : a \in asserted}

\* startRegistration: the list it reads first only tells the browser what not to offer.
StartRegistration(ch) ==
  /\ ch \notin Issued
  /\ regChallenge' = ch
  /\ UNCHANGED <<counters, authChallenge, openChallenges, authenticatorVars, passkeyHistory,
                 passkeyCall>>

\* startAuthentication of a known user.
StartAuthentication(ch) ==
  /\ ch \notin Issued
  /\ authChallenge' = ch
  /\ UNCHANGED <<counters, regChallenge, openChallenges, authenticatorVars, passkeyHistory,
                 passkeyCall>>

\* startAuthentication with useDiscoverableCredentials.
StartDiscoverable(ch) ==
  /\ ch \notin Issued
  /\ openChallenges' = openChallenges \union {ch}
  /\ UNCHANGED <<counters, regChallenge, authChallenge, authenticatorVars, passkeyHistory,
                 passkeyCall>>

\* navigator.credentials.create
Attest(k) ==
  /\ k \notin DOMAIN attested /\ regChallenge # NULL
  /\ attested' = MapSet(attested, k, regChallenge)
  /\ UNCHANGED <<counters, challengeVars, asserted, passkeyHistory, passkeyCall>>

\* navigator.credentials.get: the authenticator counts its signatures.
SignAssertion(k, ch) ==
  LET made == Cardinality({a \in asserted : a.key = k})
  IN  /\ k \in DOMAIN attested /\ made < MaxSignatures
      /\ ch \in (openChallenges \union {authChallenge}) \ {NULL}
      /\ asserted' = asserted \union
           {[key |-> k, challenge |-> ch, count |-> IF k \in Counterless THEN 0 ELSE made + 1]}
      /\ UNCHANGED <<counters, challengeVars, attested, passkeyHistory, passkeyCall>>

-----------------------------------------------------------------------------
(* The methods of the credential store *)

\* save: a credential already stored stays as it is.  Signatures are counted from
\* the counter the credential was made with, which the code stores as it comes.
SaveKey(k) ==
  IF k \in DOMAIN counters
  THEN UNCHANGED <<counters, paid>>
  ELSE /\ counters' = MapSet(counters, k, 0)
       /\ paid' = [a \in Assertions |-> IF a.key = k THEN 0 ELSE paid[a]]

\* updateCounter: nothing where the credential is gone.
CountKey(k, n) ==
  counters' = IF k \in DOMAIN counters THEN MapSet(counters, k, n) ELSE counters

DeleteKey(k) == counters' = MapDelete(counters, {k})

-----------------------------------------------------------------------------
(* finishRegistration and revokePasskey *)

RegisterBegin(c, k) ==
  /\ KeyAt(c, "idle")
  /\ k \in DOMAIN attested /\ attested[k] = regChallenge
  /\ KeyGoesOn(c, [pc |-> "save", key |-> k])
  /\ UNCHANGED <<counters, challengeVars, authenticatorVars, passkeyHistory>>

\* There is another factor to fall back on.
RegisterSave(c) ==
  /\ KeyAt(c, "save")
  /\ SaveKey(passkeyCall[c].key)
  /\ KeyEnds(c)
  /\ UNCHANGED <<challengeVars, authenticatorVars, rewritten>>

RevokeKeyBegin(c, k) ==
  /\ KeyAt(c, "idle")
  /\ k \in DOMAIN counters
  /\ KeyGoesOn(c, [pc |-> "delete", key |-> k])
  /\ UNCHANGED <<counters, challengeVars, authenticatorVars, passkeyHistory>>

RevokeKeyDelete(c) ==
  /\ KeyAt(c, "delete")
  /\ DeleteKey(passkeyCall[c].key)
  /\ KeyEnds(c)
  /\ UNCHANGED <<challengeVars, authenticatorVars, passkeyHistory>>

-----------------------------------------------------------------------------
(* finishAuthentication *)

\* The options of the user, or those kept under the challenge that was signed.
AuthenticateBegin(c, a) ==
  /\ KeyAt(c, "idle")
  /\ a \in asserted /\ paid[a] < MaxPaid
  /\ a.challenge \in openChallenges \union {authChallenge}
  /\ KeyGoesOn(c, [pc |-> "find", assertion |-> a])
  /\ UNCHANGED <<counters, challengeVars, authenticatorVars, passkeyHistory>>

\* A plausible bug: a counter equal to the one stored is let through.
AcceptedAgain(a) == a.key \in DOMAIN counters /\ a.count >= counters[a.key]

\* verifyAuthenticationResponse against the credential found.
Accepted(a) ==
  /\ a.key \in DOMAIN counters
  /\ \/ a.count > counters[a.key]
     \/ a.count = 0 /\ counters[a.key] = 0

AuthenticateFind(c) ==
  LET a == passkeyCall[c].assertion
  IN  /\ KeyAt(c, "find")
      /\ IF Accepted(a)
         THEN KeyGoesOn(c, [pc |-> "count", assertion |-> a, seen |-> counters[a.key]])
         ELSE KeyEnds(c)
      /\ UNCHANGED <<counters, challengeVars, authenticatorVars, passkeyHistory>>

\* updateCounter; updateLastUsed after it changes nothing that is read here.  The
\* assertion counts as accepted, also where the request then dies unanswered.
AuthenticateCount(c) ==
  LET a == passkeyCall[c].assertion
      asRead == a.key \in DOMAIN counters /\ counters[a.key] = passkeyCall[c].seen
  IN  /\ KeyAt(c, "count")
      /\ CountKey(a.key, a.count)
      /\ paid' = [paid EXCEPT ![a] = @ + 1]
      /\ rewritten' = IF asRead THEN rewritten ELSE rewritten \union {a.key}
      /\ KeyEnds(c)
      /\ UNCHANGED <<challengeVars, authenticatorVars>>

\* The other factor is missing, a store rejects, the process dies.
PasskeyAbort(c) ==
  /\ ~KeyAt(c, "idle")
  /\ KeyEnds(c)
  /\ UNCHANGED <<counters, challengeVars, authenticatorVars, passkeyHistory>>

PasskeyNext ==
  \/ \E ch \in Challenges :
       StartRegistration(ch) \/ StartAuthentication(ch) \/ StartDiscoverable(ch)
  \/ \E k \in Keys : Attest(k)
  \/ \E k \in Keys, ch \in Challenges : SignAssertion(k, ch)
  \/ \E c \in PasskeyCalls :
       \/ \E k \in Keys : RegisterBegin(c, k) \/ RevokeKeyBegin(c, k)
       \/ \E a \in asserted : AuthenticateBegin(c, a)
       \/ RegisterSave(c) \/ RevokeKeyDelete(c) \/ AuthenticateFind(c) \/ AuthenticateCount(c)
       \/ PasskeyAbort(c)

PasskeySpec == PasskeyInit /\ [][PasskeyNext]_passkeyVars

-----------------------------------------------------------------------------
(* Correctness *)

PasskeyLocals ==
  {NoCall} \union [pc : {"save", "delete"}, key : Keys]
    \union [pc : {"find"}, assertion : Assertions]
    \union [pc : {"count"}, assertion : Assertions, seen : 0 .. MaxSignatures]

\* Stores, authenticators, histories and locals keep their types.
PasskeyTypes ==
  /\ DOMAIN counters \subseteq Keys
  /\ counters \in [DOMAIN counters -> 0 .. MaxSignatures]
  /\ {regChallenge, authChallenge} \subseteq Challenges \union {NULL}
  /\ openChallenges \subseteq Challenges
  /\ DOMAIN attested \subseteq Keys /\ attested \in [DOMAIN attested -> Challenges]
  /\ asserted \subseteq Assertions
  /\ paid \in [Assertions -> Nat] /\ rewritten \subseteq Keys
  /\ passkeyCall \in [PasskeyCalls -> PasskeyLocals]

\* PRD.md: "Check sign count for replay detection".  An assertion with a counter
\* is accepted once while its key is stored, however often and in whatever order
\* assertions are sent, unless a request wrote a counter over one it had not read.
AssertionPaysOnce ==
  \A a \in Assertions : a.count > 0 /\ a.key \notin rewritten => paid[a] <= 1

\* ... for the stored counter is then at least that of every accepted assertion.
CounterCoversPaid ==
  \A a \in Assertions :
    a.key \in DOMAIN counters \ rewritten /\ paid[a] > 0 => a.count <= counters[a.key]
=============================================================================
