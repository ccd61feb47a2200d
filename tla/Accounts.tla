------------------------------ MODULE Accounts ------------------------------
(***************************************************************************)
(* How a person becomes a user: registration, a provider's account         *)
(* (social-login.ts) and an identity provider's assertion                  *)
(* (jit-provisioning.ts), over the tables of db/migrations.  A request is  *)
(* a slot of AccountCalls; a step runs from one await to the next.  The    *)
(* exchange with a provider keeps no state here: a callback starts with    *)
(* its profile, whose address may differ from the last time.               *)
(***************************************************************************)
EXTENDS Naturals, FiniteSets, Maps

CONSTANTS
  UserIds,          \* bound: the users ever created
  Addresses,        \* e-mail addresses
  ProviderAccounts, \* <<provider, providerAccountId>>
  NameIds,          \* the names an identity provider gives
  LinkTokens,       \* bound: the links ever kept for confirmation
  AccountCalls      \* bound: requests in flight

ASSUME AccountAssumption == IsFiniteSet(AccountCalls)

VARIABLES
  strategy,     \* accountLinkingStrategy
  users,        \* the rows of users: email, verified, hasPassword, nameId
  links,        \* oauth_accounts: the user of a provider's account
  pendingLinks, \* token -> the user and the account to link
  everUsers, everTokens, \* ids and tokens given out (history)
  granted,      \* <<user, account>>: sign-ins a callback or a confirmation granted (history)
  setByRegister,\* how often register set the password of a user that existed (history)
  accountCall   \* the local variables of every request

tables == <<users, links, pendingLinks>>
accountHistory == <<everUsers, everTokens, granted, setByRegister>>
accountVars == <<strategy, tables, accountHistory, accountCall>>

NoName == "none"
NoRequest == [pc |-> "idle"]

AccountInit ==
  /\ strategy \in {"automatic", "prompt_user", "disabled"}
  /\ users = EmptyMap /\ links = EmptyMap /\ pendingLinks = EmptyMap
  /\ everUsers = {} /\ everTokens = {} /\ granted = {}
  /\ setByRegister = [u \in UserIds |-> 0]
  /\ accountCall = [c \in AccountCalls |-> NoRequest]

AccountAt(c, pc) == accountCall[c].pc = pc
AccountGoesOn(c, locals) == accountCall' = [accountCall EXCEPT ![c] = locals]
AccountEnds(c) == AccountGoesOn(c, NoRequest)

\* findUserByEmail: the address is unique.
Owners(e) == {u \in DOMAIN users : users[u].email = e}

\* INSERT INTO users, which rejects an address that is taken.
InsertUser(u, e, hasPassword, name) ==
  /\ Owners(e) = {}
  /\ u \notin everUsers
  /\ users' = MapSet(users, u,
       [email |-> e, verified |-> FALSE, hasPassword |-> hasPassword, nameId |-> name])
  /\ everUsers' = everUsers \union {u}

\* A plausible bug: the account's row is written over.
InsertLinkOver(a, u) ==
  /\ u \in DOMAIN users
  /\ links' = MapSet(links, a, u)
  /\ granted' = granted \union {<<u, a>>}

\* createOAuthAccount: the account is unique and its user must exist.
InsertLink(a, u) ==
  /\ a \notin DOMAIN links /\ u \in DOMAIN users
  /\ links' = MapSet(links, a, u)
  /\ granted' = granted \union {<<u, a>>}

-----------------------------------------------------------------------------
(* handleSocialLoginCallback *)

\* fetchSocialLoginProfile: an account, and the address the provider gives for it now.
Profiles == [account : ProviderAccounts, email : Addresses]

\* The state was signed here, the provider took the code, the address is allowed.
CallbackBegin(c, profile) ==
  /\ AccountAt(c, "idle")
  /\ AccountGoesOn(c, [pc |-> "findLink", account |-> profile.account, email |-> profile.email])
  /\ UNCHANGED <<strategy, tables, accountHistory>>

CallbackFindLink(c) ==
  LET call == accountCall[c]
  IN  /\ AccountAt(c, "findLink")
      /\ IF call.account \in DOMAIN links
         THEN AccountGoesOn(c, [pc |-> "updateLink", account |-> call.account,
                                user |-> links[call.account]])
         ELSE AccountGoesOn(c, [call EXCEPT !.pc = "findUser"])
      /\ UNCHANGED <<strategy, tables, accountHistory>>

\* updateOAuthAccount changes tokens only, and nothing where the row is gone.
CallbackUpdateLink(c) ==
  LET call == accountCall[c]
  IN  /\ AccountAt(c, "updateLink")
      /\ granted' = granted \union {<<call.user, call.account>>}
      /\ AccountEnds(c)
      /\ UNCHANGED <<strategy, tables, everUsers, everTokens, setByRegister>>

\* The provider's address counts as verified.
AutoLinks(u) == strategy = "automatic" /\ users[u].verified

CallbackFindUser(c) ==
  LET call == accountCall[c]
      goOn(pc, u) == AccountGoesOn(c, [pc |-> pc, account |-> call.account, user |-> u])
  IN  /\ AccountAt(c, "findUser")
      /\ \/ Owners(call.email) = {} /\ AccountGoesOn(c, [call EXCEPT !.pc = "createUser"])
         \/ \E u \in Owners(call.email) :
              \/ strategy = "disabled" /\ AccountEnds(c)
              \/ AutoLinks(u) /\ goOn("link", u)
              \/ strategy # "disabled" /\ ~AutoLinks(u) /\ goOn("savePending", u)
      /\ UNCHANGED <<strategy, tables, accountHistory>>

CallbackSavePending(c, t) ==
  LET call == accountCall[c]
  IN  /\ AccountAt(c, "savePending") /\ t \notin everTokens
      /\ everTokens' = everTokens \union {t}
      /\ pendingLinks' = MapSet(pendingLinks, t, [user |-> call.user, account |-> call.account])
      /\ AccountEnds(c)
      /\ UNCHANGED <<strategy, users, links, everUsers, granted, setByRegister>>

CallbackCreateUser(c, u) ==
  LET call == accountCall[c]
  IN  /\ AccountAt(c, "createUser")
      /\ InsertUser(u, call.email, FALSE, NoName)
      /\ AccountGoesOn(c, [pc |-> "link", account |-> call.account, user |-> u])
      /\ UNCHANGED <<strategy, links, pendingLinks, everTokens, granted, setByRegister>>

\* The last step of a callback and of a confirmation.
CreateLink(c) ==
  /\ AccountAt(c, "link")
  /\ InsertLink(accountCall[c].account, accountCall[c].user)
  /\ AccountEnds(c)
  /\ UNCHANGED <<strategy, users, pendingLinks, everUsers, everTokens, setByRegister>>

-----------------------------------------------------------------------------
(* confirmAccountLink *)

\* getAndDeletePendingLink; the link may also have expired by now.
ConfirmTake(c, t) ==
  /\ AccountAt(c, "idle")
  /\ t \in DOMAIN pendingLinks
  /\ pendingLinks' = MapDelete(pendingLinks, {t})
  /\ LET pending == pendingLinks[t]
     IN  AccountGoesOn(c, [pc |-> "findAgain", account |-> pending.account,
                           user |-> pending.user])
  /\ UNCHANGED <<strategy, users, links, accountHistory>>

ConfirmFindAgain(c) ==
  /\ AccountAt(c, "findAgain")
  /\ IF accountCall[c].account \in DOMAIN links
     THEN AccountEnds(c)
     ELSE AccountGoesOn(c, [accountCall[c] EXCEPT !.pc = "link"])
  /\ UNCHANGED <<strategy, tables, accountHistory>>

-----------------------------------------------------------------------------
(* getOrProvisionUser, for a valid assertion with an address *)

ProvisionBegin(c, n, e) ==
  /\ AccountAt(c, "idle")
  /\ AccountGoesOn(c, [pc |-> "findName", name |-> n, email |-> e])
  /\ UNCHANGED <<strategy, tables, accountHistory>>

ProvisionFindName(c) ==
  LET call == accountCall[c]
  IN  /\ AccountAt(c, "findName")
      /\ IF \E u \in DOMAIN users : users[u].nameId = call.name
         THEN AccountEnds(c)
         ELSE AccountGoesOn(c, [call EXCEPT !.pc = "findEmail"])
      /\ UNCHANGED <<strategy, tables, accountHistory>>

\* Found by address; or jitEnabled is off; or a user is to be created.
ProvisionFindEmail(c) ==
  LET call == accountCall[c]
  IN  /\ AccountAt(c, "findEmail")
      /\ \/ AccountEnds(c)
         \/ Owners(call.email) = {} /\ AccountGoesOn(c, [call EXCEPT !.pc = "provision"])
      /\ UNCHANGED <<strategy, tables, accountHistory>>

ProvisionCreate(c, u) ==
  LET call == accountCall[c]
  IN  /\ AccountAt(c, "provision")
      /\ InsertUser(u, call.email, FALSE, call.name)
      /\ AccountEnds(c)
      /\ UNCHANGED <<strategy, links, pendingLinks, everTokens, granted, setByRegister>>

-----------------------------------------------------------------------------
(* register *)

RegisterStart(c, e) ==
  /\ AccountAt(c, "idle")
  /\ AccountGoesOn(c, [pc |-> "findExisting", email |-> e])
  /\ UNCHANGED <<strategy, tables, accountHistory>>

\* A plausible bug: a user who has a password is not turned away.
RegisterFindAny(c) ==
  LET e == accountCall[c].email
  IN  /\ AccountAt(c, "findExisting")
      /\ \/ Owners(e) = {} /\ AccountGoesOn(c, [pc |-> "register", email |-> e])
         \/ \E u \in Owners(e) : AccountGoesOn(c, [pc |-> "setPassword", user |-> u])
      /\ UNCHANGED <<strategy, tables, accountHistory>>

\* What is found here is acted on after the password has been hashed.
RegisterFind(c) ==
  LET e == accountCall[c].email
  IN  /\ AccountAt(c, "findExisting")
      /\ \/ Owners(e) = {} /\ AccountGoesOn(c, [pc |-> "register", email |-> e])
         \/ \E u \in Owners(e) :
              IF users[u].hasPassword
              THEN AccountEnds(c)
              ELSE AccountGoesOn(c, [pc |-> "setPassword", user |-> u])
      /\ UNCHANGED <<strategy, tables, accountHistory>>

\* UPDATE users: nothing where the row is gone.
RegisterSetPassword(c) ==
  LET u == accountCall[c].user
  IN  /\ AccountAt(c, "setPassword")
      /\ IF u \in DOMAIN users
         THEN /\ users' = [users EXCEPT ![u].hasPassword = TRUE]
              /\ setByRegister' = [setByRegister EXCEPT ![u] = @ + 1]
         ELSE UNCHANGED <<users, setByRegister>>
      /\ AccountEnds(c)
      /\ UNCHANGED <<strategy, links, pendingLinks, everUsers, everTokens, granted>>

RegisterCreate(c, u) ==
  /\ AccountAt(c, "register")
  /\ InsertUser(u, accountCall[c].email, TRUE, NoName)
  /\ AccountEnds(c)
  /\ UNCHANGED <<strategy, links, pendingLinks, everTokens, granted, setByRegister>>

-----------------------------------------------------------------------------
(* The rest of the server, and what may go wrong *)

VerifyAddress(u) ==
  /\ u \in DOMAIN users
  /\ users' = [users EXCEPT ![u].verified = TRUE]
  /\ UNCHANGED <<strategy, links, pendingLinks, accountHistory, accountCall>>

\* A plausible bug: the links of the user are left.
DeleteKeepsLinks(u) ==
  /\ u \in DOMAIN users
  /\ users' = MapDelete(users, {u})
  /\ UNCHANGED <<strategy, links, pendingLinks, accountHistory, accountCall>>

\* hardDelete: the user's links go with the row, what waits for confirmation stays.
DeleteUser(u) ==
  /\ u \in DOMAIN users
  /\ users' = MapDelete(users, {u})
  /\ links' = MapDelete(links, {a \in DOMAIN links : links[a] = u})
  /\ UNCHANGED <<strategy, pendingLinks, accountHistory, accountCall>>

\* A store rejects what is not unique, or for its own reasons; the process dies.
AccountAbort(c) ==
  /\ ~AccountAt(c, "idle")
  /\ AccountEnds(c)
  /\ UNCHANGED <<strategy, tables, accountHistory>>

AccountNext ==
  \/ \E u \in UserIds : VerifyAddress(u) \/ DeleteUser(u)
  \/ \E c \in AccountCalls :
       \/ \E profile \in Profiles : CallbackBegin(c, profile)
       \/ CallbackFindLink(c) \/ CallbackUpdateLink(c) \/ CallbackFindUser(c) \/ CreateLink(c)
       \/ \E t \in LinkTokens : CallbackSavePending(c, t) \/ ConfirmTake(c, t)
       \/ ConfirmFindAgain(c)
       \/ \E n \in NameIds, e \in Addresses : ProvisionBegin(c, n, e)
       \/ ProvisionFindName(c) \/ ProvisionFindEmail(c)
       \/ \E e \in Addresses : RegisterStart(c, e)
       \/ RegisterFind(c) \/ RegisterSetPassword(c)
       \/ \E u \in UserIds :
            CallbackCreateUser(c, u) \/ ProvisionCreate(c, u) \/ RegisterCreate(c, u)
       \/ AccountAbort(c)

AccountSpec == AccountInit /\ [][AccountNext]_accountVars

-----------------------------------------------------------------------------
(* Correctness *)

AccountLocals ==
  {NoRequest}
    \union [pc : {"findLink", "findUser", "createUser"},
            account : ProviderAccounts, email : Addresses]
    \union [pc : {"updateLink", "link", "savePending", "findAgain"},
            account : ProviderAccounts, user : UserIds]
    \union [pc : {"findName", "findEmail", "provision"}, name : NameIds, email : Addresses]
    \union [pc : {"findExisting", "register"}, email : Addresses]
    \union [pc : {"setPassword"}, user : UserIds]

\* The tables and the requests keep their types; a link's user has a row, and no
\* address has two.
AccountTypes ==
  /\ DOMAIN users \subseteq everUsers /\ everUsers \subseteq UserIds
  /\ \A u \in DOMAIN users :
       users[u] \in [email : Addresses, verified : BOOLEAN, hasPassword : BOOLEAN,
                     nameId : NameIds \union {NoName}]
  /\ \A u, v \in DOMAIN users : users[u].email = users[v].email => u = v
  /\ DOMAIN links \subseteq ProviderAccounts
  /\ links \in [DOMAIN links -> DOMAIN users]
  /\ DOMAIN pendingLinks \subseteq everTokens /\ everTokens \subseteq LinkTokens
  /\ pendingLinks \in [DOMAIN pendingLinks -> [user : UserIds, account : ProviderAccounts]]
  /\ granted \subseteq everUsers \X ProviderAccounts
  /\ accountCall \in [AccountCalls -> AccountLocals]

\* A provider's account signs in one user: whatever address it came with, whoever
\* registered or confirmed in between, a user it was let in as still has the link.
OneUserPerAccount ==
  \A g \in granted : g[1] \in DOMAIN users => g[2] \in DOMAIN links /\ links[g[2]] = g[1]

\* register turns away an address that has a password ("email_taken"): it sets one
\* for a user that existed once, or once by each of the calls that were in flight.
PasswordsWithinOverlap ==
  \A u \in UserIds : setByRegister[u] <= Cardinality(AccountCalls)
=============================================================================
