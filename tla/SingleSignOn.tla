---------------------------- MODULE SingleSignOn ----------------------------
(***************************************************************************)
(* The SAML sessions of one user at an identity provider and at a service, *)
(* both built from this code: assertions (idp-initiated-sso.ts,            *)
(* sp-initiated-sso.ts) and single logout in both directions               *)
(* (single-logout.ts).  Messages travel by the browser: they are lost,     *)
(* repeated and reordered.  A handler is a slot of SsoCalls; a step runs   *)
(* from one await to the next.                                             *)
(*                                                                         *)
(* Sessions are kept by the applications: the provider's opens one before  *)
(* it asserts it, the service's when an assertion has been validated, and  *)
(* either ends them where it is asked to (invalidateSession).  Nobody      *)
(* compares an assertion with the request it answers, so requests to sign  *)
(* in, and what an assertion says it answers, are left out; so are issuers *)
(* and signatures, of which those of the two sides are the right ones.     *)
(***************************************************************************)
EXTENDS Naturals, FiniteSets

CONSTANTS
  Indexes,    \* bound: the session indexes ever drawn
  MaxLogouts, \* bound on the different logout requests
  SsoCalls    \* bound: handlers in flight

ASSUME SsoAssumption == "all" \notin Indexes /\ MaxLogouts \in Nat

Sides == {"provider", "service"}

VARIABLES
  sessionsAt,      \* side -> the indexes of the user's sessions
  drawn,           \* the indexes drawn so far
  assertions,      \* the indexes asserted by responses that have not expired
  logoutRequests,  \* those made: the side they are for, and an index or "all"
  answered,        \* side -> its sessions that its LogoutResponses were about (history)
  reopened,        \* sessions the service opened that a logout had covered (history)
  ssoCall          \* the local variables of every handler

ssoVars ==
  <<sessionsAt, drawn, assertions, logoutRequests, answered, reopened, ssoCall>>

NoHandler == [pc |-> "idle"]

SsoInit ==
  /\ sessionsAt = [side \in Sides |-> {}]
  /\ drawn = {} /\ assertions = {}
  /\ logoutRequests = {}
  /\ answered = [side \in Sides |-> {}] /\ reopened = {}
  /\ ssoCall = [c \in SsoCalls |-> NoHandler]

HandlerAt(c, pc) == ssoCall[c].pc = pc
HandlerGoesOn(c, locals) == ssoCall' = [ssoCall EXCEPT ![c] = locals]
HandlerEnds(c) == HandlerGoesOn(c, NoHandler)

-----------------------------------------------------------------------------
(* Signing in *)

\* createIdpInitiatedResponse, for a session that is new or goes on: the assertion
\* is signed, and sent once it has been encrypted.
AssertSession(c, i) ==
  /\ HandlerAt(c, "idle")
  /\ i \in sessionsAt["provider"] \/ i \notin drawn
  /\ drawn' = drawn \union {i}
  /\ sessionsAt' = [sessionsAt EXCEPT !["provider"] = @ \union {i}]
  /\ HandlerGoesOn(c, [pc |-> "encrypt", index |-> i])
  /\ UNCHANGED <<assertions, logoutRequests, answered, reopened>>

SendAssertion(c) ==
  /\ HandlerAt(c, "encrypt")
  /\ assertions' = assertions \union {ssoCall[c].index}
  /\ HandlerEnds(c)
  /\ UNCHANGED <<sessionsAt, drawn, logoutRequests, answered, reopened>>

\* notOnOrAfterSeconds have passed.
AssertionExpires(i) ==
  /\ i \in assertions
  /\ assertions' = assertions \ {i}
  /\ UNCHANGED <<sessionsAt, drawn, logoutRequests, answered, reopened, ssoCall>>

\* validateSpInitiatedPostResponse: signed by the provider, and still current.
Valid(i) == i \in assertions

\* handleSpInitiatedAssertEndpoint or handleIdpInitiatedAssertEndpoint: a response
\* is as good the second time.
ReceiveAssertion(c, i) ==
  /\ HandlerAt(c, "idle")
  /\ Valid(i)
  /\ HandlerGoesOn(c, [pc |-> "open", index |-> i])
  /\ UNCHANGED <<sessionsAt, drawn, assertions, logoutRequests, answered, reopened>>

\* The sessions of a side that a logout request has named to it.
Covered(side) ==
  answered[side]
    \union UNION {ssoCall[c].covers : c \in {d \in SsoCalls :
                    ssoCall[d].pc \in {"invalidate", "answer"} /\ ssoCall[d].side = side}}

OpenSession(c) ==
  LET i == ssoCall[c].index
  IN  /\ HandlerAt(c, "open")
      /\ sessionsAt' = [sessionsAt EXCEPT !["service"] = @ \union {i}]
      /\ reopened' = reopened \union ({i} \intersect Covered("service"))
      /\ HandlerEnds(c)
      /\ UNCHANGED <<drawn, assertions, logoutRequests, answered>>

-----------------------------------------------------------------------------
(* Logging out *)

Ask(side, i) ==
  /\ Cardinality(logoutRequests) < MaxLogouts
  /\ logoutRequests' = logoutRequests \union {[side |-> side, index |-> i]}
  /\ UNCHANGED <<sessionsAt, drawn, assertions, answered, reopened, ssoCall>>

\* createSpInitiatedLogoutRequestUrl: without an index every session is meant.
AskProvider(i) == i \in sessionsAt["service"] \union {"all"} /\ Ask("provider", i)

\* createLogoutRequest
AskService(i) == i \in sessionsAt["provider"] \union {"all"} /\ Ask("service", i)

Named(i, side) == IF i = "all" THEN sessionsAt[side] ELSE {i}

\* parseLogoutRequest, and the first step of the handlers; a request may come twice.
Receive(c, side) ==
  /\ HandlerAt(c, "idle")
  /\ \E request \in logoutRequests :
       /\ request.side = side
       /\ HandlerGoesOn(c, [pc |-> "invalidate", side |-> side, index |-> request.index,
                            covers |-> Named(request.index, side)])
  /\ UNCHANGED <<sessionsAt, drawn, assertions, logoutRequests, answered, reopened>>

\* handleSpInitiatedSloEndpoint
ReceiveAtProvider(c) == Receive(c, "provider")

\* handleIdpInitiatedSloEndpoint
ReceiveAtService(c) == Receive(c, "service")

InvalidateSession(c) ==
  LET call == ssoCall[c]
  IN  /\ HandlerAt(c, "invalidate")
      /\ sessionsAt' = [sessionsAt EXCEPT ![call.side] = @ \ Named(call.index, call.side)]
      /\ HandlerGoesOn(c, [call EXCEPT !.pc = "answer"])
      /\ UNCHANGED <<drawn, assertions, logoutRequests, answered, reopened>>

\* A plausible bug: the answer does not wait for the sessions to be ended.
AnswerFirst(c) ==
  LET call == ssoCall[c]
  IN  /\ call.pc \in {"invalidate", "answer"}
      /\ answered' = [answered EXCEPT ![call.side] = @ \union call.covers]
      /\ HandlerEnds(c)
      /\ UNCHANGED <<sessionsAt, drawn, assertions, logoutRequests, reopened>>

\* createLogoutResponse, once invalidateSession has resolved.
Answer(c) ==
  LET call == ssoCall[c]
  IN  /\ HandlerAt(c, "answer")
      /\ answered' = [answered EXCEPT ![call.side] = @ \union call.covers]
      /\ HandlerEnds(c)
      /\ UNCHANGED <<sessionsAt, drawn, assertions, logoutRequests, reopened>>

\* Encryption or validation fails, invalidateSession rejects, the process dies: no
\* message is sent.
SsoFails(c) ==
  /\ ~HandlerAt(c, "idle")
  /\ HandlerEnds(c)
  /\ UNCHANGED <<sessionsAt, drawn, assertions, logoutRequests, answered, reopened>>

SsoNext ==
  \/ \E i \in Indexes : AssertionExpires(i)
  \/ \E i \in Indexes \union {"all"} : AskProvider(i) \/ AskService(i)
  \/ \E c \in SsoCalls :
       \/ \E i \in Indexes : AssertSession(c, i) \/ ReceiveAssertion(c, i)
       \/ ReceiveAtProvider(c) \/ ReceiveAtService(c)
       \/ SendAssertion(c) \/ OpenSession(c)
       \/ InvalidateSession(c) \/ Answer(c)
       \/ SsoFails(c)

SsoSpec == SsoInit /\ [][SsoNext]_ssoVars

-----------------------------------------------------------------------------
(* Correctness *)

HandlerLocals ==
  {NoHandler} \union [pc : {"encrypt", "open"}, index : drawn]
    \union [pc : {"invalidate", "answer"}, side : Sides, index : drawn \union {"all"},
            covers : SUBSET drawn]

\* Sessions, messages and locals keep their types.
SsoTypes ==
  /\ sessionsAt \in [Sides -> SUBSET drawn] /\ drawn \subseteq Indexes
  /\ assertions \subseteq drawn
  /\ logoutRequests \subseteq [side : Sides, index : drawn \union {"all"}]
  /\ answered \in [Sides -> SUBSET drawn] /\ reopened \subseteq drawn
  /\ ssoCall \in [SsoCalls -> HandlerLocals]

\* A side that answered a logout has ended the sessions it covers, for good: only
\* the service may have one of them again, by an assertion it acted on after the
\* logout had come.
AnsweredLogoutHolds ==
  /\ answered["provider"] \intersect sessionsAt["provider"] = {}
  /\ answered["service"] \intersect sessionsAt["service"] \subseteq reopened
=============================================================================
