--------------------------- MODULE AccountsProofs ---------------------------
(***************************************************************************)
(* The components about one user's account, each for any number of         *)
(* requests: who owns a provider's account and who has a password          *)
(* (Accounts), what an erasure leaves behind (Erasure), what an answered   *)
(* logout has ended (SingleSignOn), how often an assertion pays (Passkeys) *)
(* and what the page shows of them (PasskeyList); then all of them at once.*)
(***************************************************************************)
EXTENDS MCAccounts, FiniteSetTheorems, TLAPS

(***************************************************************************)
(* Accounts: for any number of users, accounts and links by mail.          *)
(***************************************************************************)

\* The types, table by table.
UserRows == [email : Addresses, verified : BOOLEAN, hasPassword : BOOLEAN,
             nameId : NameIds \union {NoName}]

UserTypes ==
  /\ DOMAIN users \subseteq everUsers /\ everUsers \subseteq UserIds
  /\ \A u \in DOMAIN users : users[u] \in UserRows
  /\ \A u, v \in DOMAIN users : users[u].email = users[v].email => u = v

LinkTypes ==
  /\ DOMAIN links \subseteq ProviderAccounts
  /\ links \in [DOMAIN links -> DOMAIN users]
  /\ granted \subseteq everUsers \X ProviderAccounts

PendingTypes ==
  /\ DOMAIN pendingLinks \subseteq everTokens /\ everTokens \subseteq LinkTokens
  /\ pendingLinks \in [DOMAIN pendingLinks -> [user : UserIds, account : ProviderAccounts]]

CallTypes == accountCall \in [AccountCalls -> AccountLocals]

LEMMA TypesAre == AccountTypes <=> UserTypes /\ LinkTypes /\ PendingTypes /\ CallTypes
BY DEF AccountTypes, UserTypes, UserRows, LinkTypes, PendingTypes, CallTypes

\* A callback that found a link knows its user: the link is there as long as the
\* user is.
FoundLink(r) ==
  r.pc = "updateLink" =>
    /\ r.user \in everUsers
    /\ r.user \in DOMAIN users => r.account \in DOMAIN links /\ links[r.account] = r.user

FoundLinks == \A c \in AccountCalls : FoundLink(accountCall[c])

LinksInv ==
  /\ UserTypes /\ LinkTypes /\ PendingTypes /\ CallTypes
  /\ FoundLinks
  /\ OneUserPerAccount

-----------------------------------------------------------------------------
(* Parts of a step *)

\* A request goes on with other locals, and the tables stay.
LEMMA CallStep ==
  ASSUME LinksInv, NEW c \in AccountCalls, NEW r \in AccountLocals, AccountGoesOn(c, r),
         FoundLink(r), PendingTypes', UNCHANGED <<users, links, everUsers, granted>>
  PROVE  LinksInv'
<1>1. /\ \A d \in AccountCalls : accountCall'[d] = IF d = c THEN r ELSE accountCall[d]
      /\ CallTypes'
  BY DEF LinksInv, CallTypes, AccountGoesOn
<1>2. FoundLinks'
  BY <1>1 DEF LinksInv, FoundLinks, FoundLink
<1>3. UserTypes' /\ LinkTypes' /\ OneUserPerAccount'
  BY DEF LinksInv, UserTypes, LinkTypes, OneUserPerAccount
<1> QED BY <1>1, <1>2, <1>3 DEF LinksInv

LEMMA PendingStays ==
  ASSUME LinksInv, UNCHANGED <<pendingLinks, everTokens>>
  PROVE  PendingTypes'
BY DEF LinksInv, PendingTypes

LEMMA QuietIsWell == NoRequest \in AccountLocals /\ FoundLink(NoRequest)
BY DEF NoRequest, AccountLocals, FoundLink

\* Rows of users come with ids never given out, and change without a trace in the
\* links.
LEMMA UsersStep ==
  ASSUME LinksInv, UserTypes', DOMAIN users \subseteq DOMAIN users',
         everUsers \subseteq everUsers',
         (DOMAIN users' \ DOMAIN users) \intersect everUsers = {},
         UNCHANGED <<links, granted, pendingLinks, everTokens>>, CallTypes',
         \A d \in AccountCalls :
           accountCall'[d] = accountCall[d] \/ accountCall'[d].pc # "updateLink"
  PROVE  LinksInv'
<1>1. LinkTypes'
  BY DEF LinksInv, LinkTypes
<1>2. FoundLinks'
  BY DEF LinksInv, FoundLinks, FoundLink
<1>3. OneUserPerAccount'
  BY DEF LinksInv, OneUserPerAccount, LinkTypes
<1> QED BY <1>1, <1>2, <1>3, PendingStays DEF LinksInv

LEMMA GoesOnElsewhere ==
  ASSUME LinksInv, NEW c \in AccountCalls, NEW r \in AccountLocals, r.pc # "updateLink",
         AccountGoesOn(c, r)
  PROVE  /\ CallTypes'
         /\ \A d \in AccountCalls :
              accountCall'[d] = accountCall[d] \/ accountCall'[d].pc # "updateLink"
BY DEF LinksInv, CallTypes, AccountGoesOn

LEMMA InsertStep ==
  ASSUME LinksInv, NEW c \in AccountCalls, NEW r \in AccountLocals, r.pc # "updateLink",
         AccountGoesOn(c, r), NEW u \in UserIds, NEW e \in Addresses,
         NEW hasPassword \in BOOLEAN, NEW name \in NameIds \union {NoName},
         InsertUser(u, e, hasPassword, name),
         UNCHANGED <<links, granted, pendingLinks, everTokens>>
  PROVE  LinksInv'
<1>1. /\ DOMAIN users' = DOMAIN users \union {u} /\ everUsers' = everUsers \union {u}
      /\ u \notin everUsers
      /\ \A v \in DOMAIN users : users[v].email # e
      /\ users'[u] = [email |-> e, verified |-> FALSE, hasPassword |-> hasPassword, nameId |-> name]
      /\ \A v \in DOMAIN users : v # u => users'[v] = users[v]
  BY DEF InsertUser, MapSet, Owners
<1>2. u \notin DOMAIN users
  BY <1>1 DEF LinksInv, UserTypes
<1> DEFINE row == [email |-> e, verified |-> FALSE, hasPassword |-> hasPassword, nameId |-> name]
<1>3. row \in UserRows /\ row.email = e
  BY DEF UserRows
<1> HIDE DEF row
<1>4. \A v \in DOMAIN users' : users'[v] = IF v = u THEN row ELSE users[v]
  BY <1>1 DEF row
<1>5. \A v \in DOMAIN users' : users'[v] \in UserRows
  BY <1>1, <1>3, <1>4 DEF LinksInv, UserTypes
<1>6. \A v, w \in DOMAIN users' : users'[v].email = users'[w].email => v = w
  BY <1>1, <1>2, <1>3, <1>4 DEF LinksInv, UserTypes
<1>7. UserTypes'
  BY <1>1, <1>5, <1>6 DEF LinksInv, UserTypes
<1> QED BY <1>1, <1>7, UsersStep, GoesOnElsewhere

-----------------------------------------------------------------------------
(* The steps *)

LEMMA LinkStep ==
  ASSUME LinksInv, NEW c \in AccountCalls, CreateLink(c)
  PROVE  LinksInv'
<1> DEFINE a == accountCall[c].account
           u == accountCall[c].user
<1>1. /\ a \notin DOMAIN links /\ u \in DOMAIN users
      /\ links' = MapSet(links, a, u) /\ granted' = granted \union {<<u, a>>}
      /\ UNCHANGED <<users, everUsers, pendingLinks, everTokens>> /\ AccountEnds(c)
  BY DEF CreateLink, InsertLink
<1>2. a \in ProviderAccounts
  BY DEF LinksInv, CallTypes, CreateLink, AccountAt, AccountLocals, NoRequest
<1> HIDE DEF a, u
<1>3. /\ DOMAIN links' = DOMAIN links \union {a} /\ links'[a] = u
      /\ \A b \in DOMAIN links : links'[b] = links[b]
  BY <1>1 DEF MapSet
<1>4. LinkTypes'
  BY <1>1, <1>2, <1>3 DEF LinksInv, LinkTypes, UserTypes, MapSet
<1>5. /\ \A d \in AccountCalls : accountCall'[d] = IF d = c THEN NoRequest ELSE accountCall[d]
      /\ CallTypes'
  BY <1>1, QuietIsWell DEF LinksInv, CallTypes, AccountEnds, AccountGoesOn
<1>6. FoundLinks'
  BY <1>5, <1>1, <1>3 DEF LinksInv, FoundLinks, FoundLink, NoRequest
<1>7. OneUserPerAccount'
  BY <1>1, <1>3 DEF LinksInv, OneUserPerAccount
<1> QED BY <1>1, <1>4, <1>5, <1>6, <1>7, PendingStays DEF LinksInv, UserTypes

\* The links of the user go with the row, and the id is never given out again.
LEMMA DeleteStep ==
  ASSUME LinksInv, NEW u, DeleteUser(u)
  PROVE  LinksInv'
<1>1. /\ DOMAIN users' = DOMAIN users \ {u}
      /\ \A v \in DOMAIN users' : users'[v] = users[v]
      /\ DOMAIN links' = {a \in DOMAIN links : links[a] # u}
      /\ links' = [a \in DOMAIN links' |-> links[a]]
      /\ UNCHANGED <<everUsers, granted, accountCall, pendingLinks, everTokens>>
  BY DEF DeleteUser, MapDelete, accountHistory
<1>2. UserTypes'
  BY <1>1 DEF LinksInv, UserTypes
<1>3. LinkTypes'
  BY <1>1 DEF LinksInv, LinkTypes
<1>4. CallTypes' /\ PendingTypes'
  BY <1>1 DEF LinksInv, CallTypes, PendingTypes
<1>5. FoundLinks'
  BY <1>1 DEF LinksInv, FoundLinks, FoundLink
<1>6. OneUserPerAccount'
  BY <1>1 DEF LinksInv, OneUserPerAccount
<1> QED BY <1>2, <1>3, <1>4, <1>5, <1>6 DEF LinksInv

\* What a callback finds.
LEMMA FindLinkStep ==
  ASSUME LinksInv, NEW c \in AccountCalls, CallbackFindLink(c)
  PROVE  LinksInv'
<1> DEFINE r == accountCall[c]
           found == [pc |-> "updateLink", account |-> r.account, user |-> links[r.account]]
           other == [r EXCEPT !.pc = "findUser"]
<1>1. UNCHANGED <<users, links, everUsers, granted>> /\ PendingTypes'
  BY PendingStays DEF CallbackFindLink, tables, accountHistory
<1>2. r \in [pc : {"findLink"}, account : ProviderAccounts, email : Addresses]
  BY DEF LinksInv, CallTypes, CallbackFindLink, AccountAt, AccountLocals, NoRequest
<1>3. CASE r.account \in DOMAIN links
  <2>1. AccountGoesOn(c, found)
    BY <1>3 DEF CallbackFindLink
  <2>2. found \in AccountLocals /\ FoundLink(found)
    BY <1>2, <1>3 DEF FoundLink, LinksInv, LinkTypes, UserTypes, AccountLocals
  <2> QED BY <1>1, <2>1, <2>2, CallStep
<1>4. CASE r.account \notin DOMAIN links
  <2>1. AccountGoesOn(c, other)
    BY <1>4 DEF CallbackFindLink
  <2>2. other \in AccountLocals /\ FoundLink(other)
    BY <1>2 DEF FoundLink, AccountLocals
  <2> QED BY <1>1, <2>1, <2>2, CallStep
<1> QED BY <1>3, <1>4

LEMMA UpdateLinkStep ==
  ASSUME LinksInv, NEW c \in AccountCalls, CallbackUpdateLink(c)
  PROVE  LinksInv'
<1> DEFINE r == accountCall[c]
<1>1. /\ r.pc = "updateLink" /\ granted' = granted \union {<<r.user, r.account>>}
      /\ AccountEnds(c) /\ UNCHANGED <<users, links, everUsers>> /\ PendingTypes'
  BY PendingStays DEF CallbackUpdateLink, AccountAt, tables
<1>2. FoundLink(r) /\ r.account \in ProviderAccounts
  BY <1>1 DEF LinksInv, FoundLinks, CallTypes, AccountLocals, NoRequest
<1>3. UserTypes' /\ LinkTypes'
  BY <1>1, <1>2 DEF LinksInv, FoundLink, UserTypes, LinkTypes
<1>4. OneUserPerAccount'
  BY <1>1, <1>2 DEF LinksInv, FoundLink, OneUserPerAccount
<1>5. /\ \A d \in AccountCalls : accountCall'[d] = IF d = c THEN NoRequest ELSE accountCall[d]
      /\ CallTypes'
  BY <1>1, QuietIsWell DEF LinksInv, CallTypes, AccountEnds, AccountGoesOn
<1>6. FoundLinks'
  BY <1>5, <1>1 DEF LinksInv, FoundLinks, FoundLink, NoRequest
<1> QED BY <1>1, <1>3, <1>4, <1>5, <1>6 DEF LinksInv

LEMMA FindUserStep ==
  ASSUME LinksInv, NEW c \in AccountCalls, CallbackFindUser(c)
  PROVE  LinksInv'
<1> DEFINE r == accountCall[c]
<1>1. UNCHANGED <<users, links, everUsers, granted>> /\ PendingTypes'
  BY PendingStays DEF CallbackFindUser, tables, accountHistory
<1>2. r \in [pc : {"findUser"}, account : ProviderAccounts, email : Addresses]
  BY DEF LinksInv, CallTypes, CallbackFindUser, AccountAt, AccountLocals, NoRequest
<1>3. ASSUME AccountGoesOn(c, [r EXCEPT !.pc = "createUser"]) PROVE LinksInv'
  BY <1>1, <1>2, <1>3, CallStep DEF AccountLocals, FoundLink
<1>4. ASSUME NEW u \in DOMAIN users, NEW pc \in {"link", "savePending"},
             AccountGoesOn(c, [pc |-> pc, account |-> r.account, user |-> u])
      PROVE  LinksInv'
  <2>1. u \in UserIds
    BY DEF LinksInv, UserTypes
  <2> QED BY <1>1, <1>2, <1>4, <2>1, CallStep DEF AccountLocals, FoundLink
<1>5. ASSUME AccountEnds(c) PROVE LinksInv'
  BY <1>1, <1>5, CallStep, QuietIsWell DEF AccountEnds
<1> QED BY <1>3, <1>4, <1>5 DEF CallbackFindUser, Owners

LEMMA SavePendingStep ==
  ASSUME LinksInv, NEW c \in AccountCalls, NEW t \in LinkTokens, CallbackSavePending(c, t)
  PROVE  LinksInv'
<1> DEFINE r == accountCall[c]
<1>1. r \in [pc : {"savePending"}, account : ProviderAccounts, user : UserIds]
  BY DEF LinksInv, CallTypes, CallbackSavePending, AccountAt, AccountLocals, NoRequest
<1>2. PendingTypes'
  BY <1>1 DEF CallbackSavePending, LinksInv, PendingTypes, MapSet
<1> QED BY <1>2, CallStep, QuietIsWell DEF CallbackSavePending, AccountEnds

LEMMA ConfirmSteps ==
  ASSUME LinksInv, NEW c \in AccountCalls,
         (\E t \in LinkTokens : ConfirmTake(c, t)) \/ ConfirmFindAgain(c)
  PROVE  LinksInv'
<1>1. ASSUME NEW t \in LinkTokens, ConfirmTake(c, t) PROVE LinksInv'
  <2> DEFINE r == [pc |-> "findAgain", account |-> pendingLinks[t].account,
                   user |-> pendingLinks[t].user]
  <2>1. r \in AccountLocals /\ FoundLink(r)
    BY <1>1 DEF ConfirmTake, LinksInv, PendingTypes, AccountLocals, FoundLink
  <2>2. PendingTypes'
    BY <1>1 DEF ConfirmTake, LinksInv, PendingTypes, MapDelete, accountHistory
  <2>3. AccountGoesOn(c, r) /\ UNCHANGED <<users, links, everUsers, granted>>
    BY <1>1 DEF ConfirmTake, accountHistory
  <2> QED BY <2>1, <2>2, <2>3, CallStep
<1>2. CASE ConfirmFindAgain(c)
  <2>1. UNCHANGED <<users, links, everUsers, granted>> /\ PendingTypes'
    BY <1>2, PendingStays DEF ConfirmFindAgain, tables, accountHistory
  <2>2. accountCall[c] \in [pc : {"findAgain"}, account : ProviderAccounts, user : UserIds]
    BY <1>2 DEF LinksInv, CallTypes, ConfirmFindAgain, AccountAt, AccountLocals, NoRequest
  <2>3. CASE AccountEnds(c)
    BY <2>1, <2>3, CallStep, QuietIsWell DEF AccountEnds
  <2>4. CASE AccountGoesOn(c, [accountCall[c] EXCEPT !.pc = "link"])
    BY <2>1, <2>2, <2>4, CallStep DEF AccountLocals, FoundLink
  <2> QED BY <1>2, <2>3, <2>4 DEF ConfirmFindAgain
<1> QED BY <1>1, <1>2

\* A request begins, or looks and goes on.
LEMMA BeginSteps ==
  ASSUME LinksInv, NEW c \in AccountCalls,
         \/ \E profile \in Profiles : CallbackBegin(c, profile)
         \/ \E n \in NameIds, e \in Addresses : ProvisionBegin(c, n, e)
         \/ \E e \in Addresses : RegisterStart(c, e)
         \/ AccountAbort(c)
  PROVE  LinksInv'
<1>1. UNCHANGED <<users, links, everUsers, granted>> /\ PendingTypes'
  BY PendingStays DEF CallbackBegin, ProvisionBegin, RegisterStart, AccountAbort, tables,
                      accountHistory
<1>2. ASSUME NEW profile \in Profiles, CallbackBegin(c, profile) PROVE LinksInv'
  BY <1>1, <1>2, CallStep DEF CallbackBegin, Profiles, AccountLocals, FoundLink
<1>3. ASSUME NEW n \in NameIds, NEW e \in Addresses, ProvisionBegin(c, n, e) PROVE LinksInv'
  BY <1>1, <1>3, CallStep DEF ProvisionBegin, AccountLocals, FoundLink
<1>4. ASSUME NEW e \in Addresses, RegisterStart(c, e) PROVE LinksInv'
  BY <1>1, <1>4, CallStep DEF RegisterStart, AccountLocals, FoundLink
<1>5. CASE AccountAbort(c)
  BY <1>1, <1>5, CallStep, QuietIsWell DEF AccountAbort, AccountEnds
<1> QED BY <1>2, <1>3, <1>4, <1>5

LEMMA LookSteps ==
  ASSUME LinksInv, NEW c \in AccountCalls,
         ProvisionFindName(c) \/ ProvisionFindEmail(c) \/ RegisterFind(c)
  PROVE  LinksInv'
<1> DEFINE r == accountCall[c]
<1>1. UNCHANGED <<users, links, everUsers, granted>> /\ PendingTypes'
  BY PendingStays DEF ProvisionFindName, ProvisionFindEmail, RegisterFind, tables, accountHistory
<1>2. ASSUME AccountEnds(c) PROVE LinksInv'
  BY <1>1, <1>2, CallStep, QuietIsWell DEF AccountEnds
<1>3. CASE ProvisionFindName(c)
  <2>1. r \in [pc : {"findName"}, name : NameIds, email : Addresses]
    BY <1>3 DEF LinksInv, CallTypes, ProvisionFindName, AccountAt, AccountLocals, NoRequest
  <2>2. ASSUME AccountGoesOn(c, [r EXCEPT !.pc = "findEmail"]) PROVE LinksInv'
    BY <1>1, <2>1, <2>2, CallStep DEF AccountLocals, FoundLink
  <2> QED BY <1>2, <1>3, <2>2 DEF ProvisionFindName
<1>4. CASE ProvisionFindEmail(c)
  <2>1. r \in [pc : {"findEmail"}, name : NameIds, email : Addresses]
    BY <1>4 DEF LinksInv, CallTypes, ProvisionFindEmail, AccountAt, AccountLocals, NoRequest
  <2>2. ASSUME AccountGoesOn(c, [r EXCEPT !.pc = "provision"]) PROVE LinksInv'
    BY <1>1, <2>1, <2>2, CallStep DEF AccountLocals, FoundLink
  <2> QED BY <1>2, <1>4, <2>2 DEF ProvisionFindEmail
<1>5. CASE RegisterFind(c)
  <2>1. r.email \in Addresses
    BY <1>5 DEF LinksInv, CallTypes, RegisterFind, AccountAt, AccountLocals, NoRequest
  <2>2. ASSUME AccountGoesOn(c, [pc |-> "register", email |-> r.email]) PROVE LinksInv'
    BY <1>1, <2>1, <2>2, CallStep DEF AccountLocals, FoundLink
  <2>3. ASSUME NEW u \in DOMAIN users, AccountGoesOn(c, [pc |-> "setPassword", user |-> u])
        PROVE  LinksInv'
    <3>1. u \in UserIds
      BY DEF LinksInv, UserTypes
    <3> QED BY <1>1, <2>3, <3>1, CallStep DEF AccountLocals, FoundLink
  <2> QED BY <1>2, <1>5, <2>2, <2>3 DEF RegisterFind, Owners
<1> QED BY <1>3, <1>4, <1>5

\* Requests that create a user.
LEMMA CreateSteps ==
  ASSUME LinksInv, NEW c \in AccountCalls, NEW u \in UserIds,
         CallbackCreateUser(c, u) \/ ProvisionCreate(c, u) \/ RegisterCreate(c, u)
  PROVE  LinksInv'
<1> DEFINE r == accountCall[c]
<1>1. NoRequest \in AccountLocals /\ NoRequest.pc # "updateLink"
  BY QuietIsWell DEF NoRequest
<1>2. CASE CallbackCreateUser(c, u)
  <2>1. r \in [pc : {"createUser"}, account : ProviderAccounts, email : Addresses]
    BY <1>2 DEF LinksInv, CallTypes, CallbackCreateUser, AccountAt, AccountLocals, NoRequest
  <2>2. [pc |-> "link", account |-> r.account, user |-> u] \in AccountLocals
    BY <2>1 DEF AccountLocals
  <2>3. NoName \in NameIds \union {NoName} /\ FALSE \in BOOLEAN
    OBVIOUS
  <2> QED BY <1>2, <2>1, <2>2, <2>3, InsertStep DEF CallbackCreateUser
<1>3. CASE ProvisionCreate(c, u)
  <2>1. r \in [pc : {"provision"}, name : NameIds, email : Addresses]
    BY <1>3 DEF LinksInv, CallTypes, ProvisionCreate, AccountAt, AccountLocals, NoRequest
  <2> QED BY <1>1, <1>3, <2>1, InsertStep DEF ProvisionCreate, AccountEnds
<1>4. CASE RegisterCreate(c, u)
  <2>1. r.email \in Addresses
    BY <1>4 DEF LinksInv, CallTypes, RegisterCreate, AccountAt, AccountLocals, NoRequest
  <2>2. NoName \in NameIds \union {NoName} /\ TRUE \in BOOLEAN
    OBVIOUS
  <2> QED BY <1>1, <1>4, <2>1, <2>2, InsertStep DEF RegisterCreate, AccountEnds
<1> QED BY <1>2, <1>3, <1>4

\* A user who is there is changed.
LEMMA ChangeSteps ==
  ASSUME LinksInv,
         \/ \E c \in AccountCalls : RegisterSetPassword(c)
         \/ \E u \in UserIds : VerifyAddress(u)
  PROVE  LinksInv'
<1>1. /\ UNCHANGED <<links, pendingLinks, everUsers, everTokens, granted>>
      /\ DOMAIN users' = DOMAIN users /\ UserTypes'
  <2>0. ASSUME DOMAIN users' = DOMAIN users, UNCHANGED everUsers,
               \A v \in DOMAIN users : users'[v] \in UserRows /\ users'[v].email = users[v].email
        PROVE  UserTypes'
    BY <2>0 DEF LinksInv, UserTypes
  <2>1. ASSUME NEW u, users' = [users EXCEPT ![u].hasPassword = TRUE], UNCHANGED everUsers
        PROVE  DOMAIN users' = DOMAIN users /\ UserTypes'
    <3>1. \A v \in DOMAIN users : users'[v] \in UserRows /\ users'[v].email = users[v].email
      BY <2>1 DEF LinksInv, UserTypes, UserRows
    <3> QED BY <2>0, <2>1, <3>1
  <2>2. ASSUME NEW u, users' = [users EXCEPT ![u].verified = TRUE], UNCHANGED everUsers
        PROVE  DOMAIN users' = DOMAIN users /\ UserTypes'
    <3>1. \A v \in DOMAIN users : users'[v] \in UserRows /\ users'[v].email = users[v].email
      BY <2>2 DEF LinksInv, UserTypes, UserRows
    <3> QED BY <2>0, <2>2, <3>1
  <2>3. ASSUME UNCHANGED <<users, everUsers>> PROVE DOMAIN users' = DOMAIN users /\ UserTypes'
    BY <2>3 DEF LinksInv, UserTypes
  <2> QED BY <2>1, <2>2, <2>3 DEF RegisterSetPassword, VerifyAddress, accountHistory
<1>2. ASSUME NEW c \in AccountCalls, RegisterSetPassword(c) PROVE LinksInv'
  <2>1. NoRequest \in AccountLocals /\ NoRequest.pc # "updateLink" /\ AccountGoesOn(c, NoRequest)
    BY <1>2, QuietIsWell DEF RegisterSetPassword, AccountEnds, NoRequest
  <2> QED BY <1>1, <2>1, GoesOnElsewhere, UsersStep
<1>3. ASSUME NEW u \in UserIds, VerifyAddress(u) PROVE LinksInv'
  <2>1. UNCHANGED accountCall /\ CallTypes'
    BY <1>3 DEF VerifyAddress, LinksInv, CallTypes
  <2> QED BY <1>1, <2>1, UsersStep
<1> QED BY <1>2, <1>3

-----------------------------------------------------------------------------

LEMMA InitLinksInv == AccountInit => LinksInv
BY QuietIsWell
   DEF AccountInit, LinksInv, UserTypes, LinkTypes, PendingTypes, CallTypes, FoundLinks,
       FoundLink, OneUserPerAccount, EmptyMap, NoRequest

LEMMA NextKeepsLinksInv == LinksInv /\ [AccountNext]_accountVars => LinksInv'
<1> SUFFICES ASSUME LinksInv, [AccountNext]_accountVars PROVE LinksInv'
  OBVIOUS
<1>1. CASE UNCHANGED accountVars
  BY <1>1 DEF accountVars, tables, accountHistory, LinksInv, UserTypes, LinkTypes, PendingTypes,
              CallTypes, FoundLinks, FoundLink, OneUserPerAccount
<1> QED
  BY <1>1, DeleteStep, ChangeSteps, BeginSteps, FindLinkStep, UpdateLinkStep, FindUserStep,
     SavePendingStep, CreateSteps, LinkStep, ConfirmSteps, LookSteps DEF AccountNext

LEMMA LinksInvariance == AccountSpec => []LinksInv
BY InitLinksInv, NextKeepsLinksInv, PTL DEF AccountSpec

\* The tables and the requests keep their types.
THEOREM TablesTyped == AccountSpec => []AccountTypes
<1>1. LinksInv => AccountTypes
  BY TypesAre DEF LinksInv
<1> QED BY <1>1, LinksInvariance, PTL

\* A provider's account signs in one user, whatever came in between.
THEOREM LinksHold == AccountSpec => []OneUserPerAccount
<1>1. LinksInv => OneUserPerAccount
  BY DEF LinksInv
<1> QED BY <1>1, LinksInvariance, PTL

-----------------------------------------------------------------------------
(* register sets the password of a user that existed once by each call at most *)

\* The calls about to set the user's password.
Setters(u) == {c \in AccountCalls : accountCall[c].pc = "setPassword" /\ accountCall[c].user = u}

\* The user is not made yet, or has no password.
Unset(u) == u \notin everUsers \/ (u \in DOMAIN users /\ users[u].hasPassword = FALSE)

\* Once the password of a user is set no call joins those about to set it.
PasswordInv ==
  /\ setByRegister \in [UserIds -> Nat]
  /\ \A u \in UserIds :
       /\ Unset(u) => setByRegister[u] = 0
       /\ setByRegister[u] + Cardinality(Setters(u)) <= Cardinality(AccountCalls)

LEMMA SettersAreFinite ==
  /\ Cardinality(AccountCalls) \in Nat
  /\ \A T \in SUBSET AccountCalls : /\ IsFiniteSet(T) /\ Cardinality(T) \in Nat
                                    /\ Cardinality(T) <= Cardinality(AccountCalls)
BY AccountAssumption, FS_Subset, FS_CardinalityType

\* A step after which nobody is about to set a password that was not before, unless
\* it was never set, and no user is without one who had one.
LEMMA QuietForPasswords ==
  ASSUME PasswordInv, UNCHANGED setByRegister,
         \A u \in UserIds : Unset(u)' => Unset(u),
         \A u \in UserIds : Unset(u) \/ Setters(u)' \subseteq Setters(u)
  PROVE  PasswordInv'
<1> SUFFICES ASSUME NEW u \in UserIds
             PROVE  /\ Unset(u)' => setByRegister[u] = 0
                    /\ setByRegister[u] + Cardinality(Setters(u)') <= Cardinality(AccountCalls)
  BY DEF PasswordInv
<1>1. Setters(u) \subseteq AccountCalls /\ Setters(u)' \subseteq AccountCalls
  BY DEF Setters
<1>2. /\ Cardinality(Setters(u)') \in Nat /\ Cardinality(Setters(u)) \in Nat
      /\ Cardinality(Setters(u)') <= Cardinality(AccountCalls)
      /\ Cardinality(AccountCalls) \in Nat /\ IsFiniteSet(Setters(u))
  BY <1>1, SettersAreFinite
<1>3. CASE Unset(u)
  BY <1>2, <1>3 DEF PasswordInv
<1>4. CASE Setters(u)' \subseteq Setters(u)
  <2>1. Cardinality(Setters(u)') <= Cardinality(Setters(u))
    BY <1>2, <1>4, FS_Subset
  <2>2. setByRegister[u] \in Nat /\ (Unset(u)' => setByRegister[u] = 0)
        /\ setByRegister[u] + Cardinality(Setters(u)) <= Cardinality(AccountCalls)
    BY DEF PasswordInv
  <2> QED BY <1>2, <2>1, <2>2
<1> QED BY <1>3, <1>4

LEMMA GoesOnWithout ==
  ASSUME LinksInv, NEW c \in AccountCalls, NEW r, AccountGoesOn(c, r), r.pc # "setPassword"
  PROVE  \A u \in UserIds : Setters(u)' \subseteq Setters(u)
<1>1. \A d \in AccountCalls : accountCall'[d] = IF d = c THEN r ELSE accountCall[d]
  BY DEF LinksInv, CallTypes, AccountGoesOn
<1> QED BY <1>1 DEF Setters

LEMMA LocalsPc == \A r \in AccountLocals : \A pc : [r EXCEPT !.pc = pc].pc = pc
BY DEF AccountLocals, NoRequest

\* A request that goes on, with the tables of users as they are.
LEMMA LooksQuietly ==
  ASSUME LinksInv, PasswordInv, NEW c \in AccountCalls, NEW r, AccountGoesOn(c, r),
         r.pc # "setPassword", UNCHANGED <<users, everUsers, setByRegister>>
  PROVE  PasswordInv'
<1>1. \A u \in UserIds : Unset(u)' => Unset(u)
  BY DEF Unset
<1> QED BY <1>1, GoesOnWithout, QuietForPasswords

LEMMA QuietSteps ==
  ASSUME LinksInv, PasswordInv, NEW c \in AccountCalls,
         \/ \E profile \in Profiles : CallbackBegin(c, profile)
         \/ CallbackFindLink(c) \/ CallbackUpdateLink(c) \/ CallbackFindUser(c) \/ CreateLink(c)
         \/ \E t \in LinkTokens : CallbackSavePending(c, t) \/ ConfirmTake(c, t)
         \/ ConfirmFindAgain(c)
         \/ \E n \in NameIds, e \in Addresses : ProvisionBegin(c, n, e)
         \/ ProvisionFindName(c) \/ ProvisionFindEmail(c)
         \/ \E e \in Addresses : RegisterStart(c, e)
         \/ AccountAbort(c)
  PROVE  PasswordInv'
<1> DEFINE call == accountCall[c]
<1>0. call \in AccountLocals
  BY DEF LinksInv, CallTypes
<1>1. UNCHANGED <<users, everUsers, setByRegister>>
  BY DEF CallbackBegin, CallbackFindLink, CallbackUpdateLink, CallbackFindUser, CreateLink,
         CallbackSavePending, ConfirmTake, ConfirmFindAgain, ProvisionBegin, ProvisionFindName,
         ProvisionFindEmail, RegisterStart, AccountAbort, tables, accountHistory
<1>2. ASSUME AccountEnds(c) PROVE PasswordInv'
  BY <1>1, <1>2, LooksQuietly DEF AccountEnds, NoRequest
<1>3. ASSUME NEW pc, pc # "setPassword", AccountGoesOn(c, [call EXCEPT !.pc = pc])
      PROVE  PasswordInv'
  BY <1>0, <1>1, <1>3, LocalsPc, LooksQuietly
<1>4. ASSUME NEW profile \in Profiles, CallbackBegin(c, profile) PROVE PasswordInv'
  BY <1>1, <1>4, LooksQuietly DEF CallbackBegin
<1>5. CASE CallbackFindLink(c)
  BY <1>1, <1>3, <1>5, LooksQuietly DEF CallbackFindLink
<1>6. CASE CallbackFindUser(c)
  BY <1>1, <1>2, <1>3, <1>6, LooksQuietly DEF CallbackFindUser
<1>7. ASSUME NEW t \in LinkTokens, CallbackSavePending(c, t) \/ ConfirmTake(c, t)
      PROVE  PasswordInv'
  BY <1>1, <1>2, <1>7, LooksQuietly DEF CallbackSavePending, ConfirmTake
<1>8. CASE ConfirmFindAgain(c) \/ CallbackUpdateLink(c) \/ CreateLink(c) \/ AccountAbort(c)
  BY <1>2, <1>3, <1>8 DEF ConfirmFindAgain, CallbackUpdateLink, CreateLink, AccountAbort
<1>9. ASSUME NEW n \in NameIds, NEW e \in Addresses, ProvisionBegin(c, n, e) PROVE PasswordInv'
  BY <1>1, <1>9, LooksQuietly DEF ProvisionBegin
<1>10. CASE ProvisionFindName(c) \/ ProvisionFindEmail(c)
  BY <1>2, <1>3, <1>10 DEF ProvisionFindName, ProvisionFindEmail
<1>11. ASSUME NEW e \in Addresses, RegisterStart(c, e) PROVE PasswordInv'
  BY <1>1, <1>11, LooksQuietly DEF RegisterStart
<1> QED BY <1>4, <1>5, <1>6, <1>7, <1>8, <1>9, <1>10, <1>11

\* Whoever registers an address joins only for a user whose password was never set.
LEMMA RegisterFindStep ==
  ASSUME LinksInv, PasswordInv, NEW c \in AccountCalls, RegisterFind(c)
  PROVE  PasswordInv'
<1>1. UNCHANGED <<users, everUsers, setByRegister>>
  BY DEF RegisterFind, tables, accountHistory
<1>2. ASSUME NEW u \in DOMAIN users, users[u].hasPassword = FALSE,
             AccountGoesOn(c, [pc |-> "setPassword", user |-> u])
      PROVE  PasswordInv'
  <2>1. \A d \in AccountCalls :
          accountCall'[d] = IF d = c THEN [pc |-> "setPassword", user |-> u] ELSE accountCall[d]
    BY <1>2 DEF LinksInv, CallTypes, AccountGoesOn
  <2>2. \A v \in UserIds : v = u \/ Setters(v)' \subseteq Setters(v)
    BY <2>1 DEF Setters
  <2>3. Unset(u) /\ \A v \in UserIds : Unset(v)' => Unset(v)
    BY <1>1, <1>2 DEF Unset
  <2> QED BY <1>1, <2>2, <2>3, QuietForPasswords
<1>3. ASSUME NEW r, r.pc # "setPassword", AccountGoesOn(c, r) PROVE PasswordInv'
  BY <1>1, <1>3, LooksQuietly
<1>4. \A u \in DOMAIN users : users[u].hasPassword \in BOOLEAN
  BY DEF LinksInv, UserTypes, UserRows
<1> QED BY <1>2, <1>3, <1>4 DEF RegisterFind, Owners, AccountEnds, NoRequest

\* A new user has no password that was set, and was nobody before.
LEMMA InsertQuietly ==
  ASSUME LinksInv, PasswordInv, NEW c \in AccountCalls, NEW u \in UserIds,
         CallbackCreateUser(c, u) \/ ProvisionCreate(c, u) \/ RegisterCreate(c, u)
  PROVE  PasswordInv'
<1>1. PICK row : /\ u \notin everUsers /\ everUsers' = everUsers \union {u}
                 /\ users' = MapSet(users, u, row) /\ UNCHANGED setByRegister
  BY DEF CallbackCreateUser, ProvisionCreate, RegisterCreate, InsertUser
<1>2. \A v \in UserIds : Unset(v)' => Unset(v)
  BY <1>1 DEF Unset, MapSet
<1>3. \A v \in UserIds : Setters(v)' \subseteq Setters(v)
  BY GoesOnWithout
     DEF CallbackCreateUser, ProvisionCreate, RegisterCreate, AccountEnds, NoRequest
<1> QED BY <1>1, <1>2, <1>3, QuietForPasswords

\* Verifying an address and deleting a user give nobody a user without a password.
LEMMA RowsQuietly ==
  ASSUME LinksInv, PasswordInv, NEW u \in UserIds, VerifyAddress(u) \/ DeleteUser(u)
  PROVE  PasswordInv'
<1>1. UNCHANGED <<everUsers, setByRegister, accountCall>>
  BY DEF VerifyAddress, DeleteUser, accountHistory
<1>2. \A v \in DOMAIN users' : v \in DOMAIN users /\ users'[v].hasPassword = users[v].hasPassword
  <2>1. CASE VerifyAddress(u)
    BY <2>1 DEF VerifyAddress, LinksInv, UserTypes, UserRows
  <2>2. CASE DeleteUser(u)
    BY <2>2 DEF DeleteUser, MapDelete
  <2> QED BY <2>1, <2>2
<1>3. \A v \in UserIds : Unset(v)' => Unset(v)
  BY <1>1, <1>2 DEF Unset
<1>4. \A v \in UserIds : Setters(v)' \subseteq Setters(v)
  BY <1>1 DEF Setters
<1> QED BY <1>1, <1>3, <1>4, QuietForPasswords

\* The password is set: one is no longer about to, and nobody can join.
LEMMA SetStep ==
  ASSUME LinksInv, PasswordInv, NEW c \in AccountCalls, RegisterSetPassword(c)
  PROVE  PasswordInv'
<1>1. PICK u : u = accountCall[c].user
  OBVIOUS
<1>2. u \in UserIds /\ accountCall[c].pc = "setPassword"
  BY <1>1 DEF LinksInv, CallTypes, RegisterSetPassword, AccountAt, AccountLocals, NoRequest
<1>3. AccountGoesOn(c, NoRequest) /\ UNCHANGED everUsers
  BY DEF RegisterSetPassword, AccountEnds
<1>4. \A v \in UserIds : Setters(v)' \subseteq Setters(v)
  BY <1>3, GoesOnWithout DEF NoRequest
<1>5. CASE u \notin DOMAIN users
  <2>1. UNCHANGED <<users, setByRegister>>
    BY <1>1, <1>5 DEF RegisterSetPassword
  <2>2. \A v \in UserIds : Unset(v)' => Unset(v)
    BY <1>3, <2>1 DEF Unset
  <2> QED BY <1>4, <2>1, <2>2, QuietForPasswords
<1>6. CASE u \in DOMAIN users
  <2>1. /\ users' = [users EXCEPT ![u].hasPassword = TRUE]
        /\ setByRegister' = [setByRegister EXCEPT ![u] = @ + 1]
    BY <1>1, <1>6 DEF RegisterSetPassword
  <2>2. /\ setByRegister \in [UserIds -> Nat] /\ setByRegister' \in [UserIds -> Nat]
        /\ setByRegister'[u] = setByRegister[u] + 1
        /\ \A v \in UserIds \ {u} : setByRegister'[v] = setByRegister[v]
    BY <1>2, <2>1 DEF PasswordInv
  <2>3. /\ DOMAIN users' = DOMAIN users /\ users'[u].hasPassword = TRUE
        /\ \A v \in DOMAIN users \ {u} : users'[v] = users[v]
    BY <1>6, <2>1 DEF LinksInv, UserTypes, UserRows
  <2>4. u \in everUsers
    BY <1>6 DEF LinksInv, UserTypes
  <2>5. Unset(u)' = FALSE /\ \A v \in UserIds \ {u} : Unset(v)' => Unset(v)
    BY <1>3, <2>3, <2>4 DEF Unset
  <2>6. c \in Setters(u) /\ Setters(u)' \subseteq Setters(u) \ {c}
    <3>1. \A d \in AccountCalls : accountCall'[d] = IF d = c THEN NoRequest ELSE accountCall[d]
      BY <1>3 DEF LinksInv, CallTypes, AccountGoesOn
    <3> QED BY <1>1, <1>2, <3>1 DEF Setters, NoRequest
  <2>7. Cardinality(Setters(u)') <= Cardinality(Setters(u)) - 1
    <3>1. IsFiniteSet(Setters(u))
      BY SettersAreFinite DEF Setters
    <3>2. /\ IsFiniteSet(Setters(u) \ {c})
          /\ Cardinality(Setters(u) \ {c}) = Cardinality(Setters(u)) - 1
      BY <2>6, <3>1, FS_RemoveElement
    <3> QED BY <2>6, <3>2, FS_Subset
  <2>8. \A v \in UserIds : Cardinality(Setters(v)) \in Nat /\ Cardinality(Setters(v)') \in Nat
    <3>1. \A v \in UserIds : Setters(v) \subseteq AccountCalls /\ Setters(v)' \subseteq AccountCalls
      BY DEF Setters
    <3> QED BY <3>1, SettersAreFinite
  <2>9. setByRegister'[u] + Cardinality(Setters(u)') <= Cardinality(AccountCalls)
    <3>1. setByRegister[u] + Cardinality(Setters(u)) <= Cardinality(AccountCalls)
      BY <1>2 DEF PasswordInv
    <3>2. setByRegister[u] \in Nat /\ Cardinality(AccountCalls) \in Nat
      BY <1>2, <2>2, SettersAreFinite
    <3> QED BY <1>2, <2>2, <2>7, <2>8, <3>1, <3>2
  <2>10. ASSUME NEW v \in UserIds, v # u
         PROVE  /\ Unset(v)' => setByRegister'[v] = 0
                /\ setByRegister'[v] + Cardinality(Setters(v)') <= Cardinality(AccountCalls)
    <3>1. Setters(v)' \subseteq Setters(v) /\ IsFiniteSet(Setters(v))
      BY <1>4, SettersAreFinite DEF Setters
    <3>2. Cardinality(Setters(v)') <= Cardinality(Setters(v))
      BY <3>1, FS_Subset
    <3>3. /\ Unset(v) => setByRegister[v] = 0
          /\ setByRegister[v] + Cardinality(Setters(v)) <= Cardinality(AccountCalls)
          /\ setByRegister[v] \in Nat
      BY DEF PasswordInv
    <3>4. Cardinality(AccountCalls) \in Nat
      BY SettersAreFinite
    <3> QED BY <2>2, <2>5, <2>8, <2>10, <3>2, <3>3, <3>4
  <2> QED BY <2>2, <2>5, <2>9, <2>10 DEF PasswordInv
<1> QED BY <1>5, <1>6

LEMMA NextKeepsPasswordInv ==
  LinksInv /\ PasswordInv /\ [AccountNext]_accountVars => PasswordInv'
<1> SUFFICES ASSUME LinksInv, PasswordInv, [AccountNext]_accountVars PROVE PasswordInv'
  OBVIOUS
<1>1. CASE UNCHANGED accountVars
  BY <1>1 DEF accountVars, tables, accountHistory, PasswordInv, Unset, Setters
<1>2. CASE \E u \in UserIds : VerifyAddress(u) \/ DeleteUser(u)
  BY <1>2, RowsQuietly
<1>3. ASSUME NEW c \in AccountCalls, RegisterFind(c) \/ RegisterSetPassword(c) PROVE PasswordInv'
  BY <1>3, RegisterFindStep, SetStep
<1>4. ASSUME NEW c \in AccountCalls, NEW u \in UserIds,
             CallbackCreateUser(c, u) \/ ProvisionCreate(c, u) \/ RegisterCreate(c, u)
      PROVE  PasswordInv'
  BY <1>4, InsertQuietly
<1> QED BY <1>1, <1>2, <1>3, <1>4, QuietSteps DEF AccountNext

LEMMA InitPasswordInv == AccountInit => PasswordInv
<1> SUFFICES ASSUME AccountInit PROVE PasswordInv
  OBVIOUS
<1>1. setByRegister \in [UserIds -> Nat] /\ \A u \in UserIds : setByRegister[u] = 0
  BY DEF AccountInit
<1>2. ASSUME NEW u \in UserIds
      PROVE  /\ Cardinality(Setters(u)) <= Cardinality(AccountCalls)
             /\ Cardinality(Setters(u)) \in Nat
  <2>1. Setters(u) \subseteq AccountCalls
    BY DEF Setters
  <2> QED BY <2>1, SettersAreFinite
<1>3. \A u \in UserIds : setByRegister[u] + Cardinality(Setters(u)) <= Cardinality(AccountCalls)
  BY <1>1, <1>2, SettersAreFinite
<1> QED BY <1>1, <1>3 DEF PasswordInv

\* register ("email_taken") sets the password of a user that existed once, or once by
\* each of the calls that overlapped, however they interleave with deletions,
\* callbacks and provisioning.
THEOREM PasswordsHold == AccountSpec => []PasswordsWithinOverlap
<1>1. PasswordInv => PasswordsWithinOverlap
  <2> SUFFICES ASSUME PasswordInv, NEW u \in UserIds
               PROVE  setByRegister[u] <= Cardinality(AccountCalls)
    BY DEF PasswordsWithinOverlap
  <2>1. Setters(u) \subseteq AccountCalls
    BY DEF Setters
  <2>2. /\ setByRegister[u] \in Nat
        /\ setByRegister[u] + Cardinality(Setters(u)) <= Cardinality(AccountCalls)
    BY DEF PasswordInv
  <2> QED BY <2>1, <2>2, SettersAreFinite
<1> QED BY <1>1, InitPasswordInv, NextKeepsPasswordInv, LinksInvariance, PTL DEF AccountSpec

-----------------------------------------------------------------------------
(***************************************************************************)
(* Erasure: for any number of passkeys.                                    *)
(***************************************************************************)

\* While an erasure is in flight, or once the row is gone, every request that is
\* still to write knows that it overlaps.
Threatened == ErasureInFlight \/ "row" \notin held

WritersMarked ==
  Threatened =>
    \A d \in ErasureCalls : erasureCall[d].pc \in Writing => erasureCall[d].overlaps

\* How far an erasure has come: what it has passed is gone, or was written late.
Passed(r, h, l) ==
  /\ r.pc \in {"list", "keys", "stage"} => h \intersect {"session"} \subseteq l
  /\ r.pc = "keys" => h \intersect UserKeys \subseteq l \union r.left
  /\ r.pc = "stage" =>
       /\ h \intersect UserKeys \subseteq l
       /\ r.nth > 1 => h \intersect {"codes"} \subseteq l
       /\ r.nth > 2 => h \intersect {"secret", "pending"} \subseteq l
       /\ r.nth > 3 => h \intersect {"password"} \subseteq l
       /\ r.nth > 4 => h \intersect {"phone"} \subseteq l
       /\ r.nth > 5 => h \intersect {"activity"} \subseteq l

ErasureInv ==
  /\ ErasureTypes
  /\ WritersMarked
  /\ \A c \in ErasureCalls : Passed(erasureCall[c], held, late)
  /\ NothingOutlivesTheRow

-----------------------------------------------------------------------------
(* What a step of one request does to the others *)

\* While an erasure is in flight a store never gains what is not written late.
LEMMA ChangesKeepLate ==
  ASSUME NEW adds, NEW removes, NEW o, StoreChanges(adds, removes, o), adds = {} \/ o,
         NEW S, held \intersect S \subseteq late
  PROVE  held' \intersect S \subseteq late'
BY DEF StoreChanges

LEMMA ChangesKeepPassed ==
  ASSUME NEW adds, NEW removes, NEW o, StoreChanges(adds, removes, o), adds = {} \/ o,
         NEW r, Passed(r, held, late)
  PROVE  Passed(r, held', late')
<1>1. r.pc = "keys" => held' \intersect UserKeys \subseteq late' \union r.left
  BY DEF Passed, StoreChanges
<1>2. \A S : held \intersect S \subseteq late => held' \intersect S \subseteq late'
  BY ChangesKeepLate
<1> QED BY <1>1, <1>2 DEF Passed

\* A request c changes the stores and goes on with the locals r.
LEMMA OneStep ==
  ASSUME ErasureInv, NEW c \in ErasureCalls, NEW r \in ErasureLocals,
         NEW adds \in SUBSET (Items \ {"row"}), NEW removes, NEW o,
         StoreChanges(adds, removes, o), ErasureGoesOn(c, r),
         Threatened => adds = {} \/ o,
         r.pc \in {"list", "keys", "stage"} => Erasing(c),
         r.pc \in Writing => r.overlaps \/ ~Threatened,
         Passed(r, held', late'),
         "row" \in removes => Erasing(c) /\ held' \subseteq late'
  PROVE  ErasureInv'
<1>1. ErasureTypes'
  BY DEF ErasureInv, ErasureTypes, StoreChanges, ErasureGoesOn
<1>2. \A d \in ErasureCalls : erasureCall'[d] = IF d = c THEN r ELSE erasureCall[d]
  BY DEF ErasureInv, ErasureTypes, ErasureGoesOn
<1>3. Threatened' => Threatened
  BY <1>2 DEF Threatened, ErasureInFlight, Erasing, StoreChanges
<1>4. WritersMarked'
  BY <1>2, <1>3 DEF ErasureInv, WritersMarked
<1>5. ASSUME NEW d \in ErasureCalls PROVE Passed(erasureCall'[d], held', late')
  <2>1. CASE d = c
    BY <2>1, <1>2
  <2>2. CASE d # c /\ Threatened
    BY <2>2, <1>2, ChangesKeepPassed DEF ErasureInv
  <2>3. CASE d # c /\ ~Threatened
    BY <2>3, <1>2 DEF Threatened, ErasureInFlight, Erasing, Passed
  <2> QED BY <2>1, <2>2, <2>3
<1>6. NothingOutlivesTheRow'
  BY DEF ErasureInv, NothingOutlivesTheRow, StoreChanges, Threatened
<1> QED BY <1>1, <1>4, <1>5, <1>6 DEF ErasureInv

LEMMA NoChange == UNCHANGED <<held, late>> => StoreChanges({}, {}, FALSE)
BY DEF StoreChanges

\* A step that leaves the stores alone.
LEMMA LocalStep ==
  ASSUME ErasureInv, UNCHANGED <<held, late>>, NEW c \in ErasureCalls, NEW r \in ErasureLocals,
         ErasureGoesOn(c, r),
         r.pc \in {"list", "keys", "stage"} => Erasing(c),
         r.pc \in Writing => r.overlaps \/ ~Threatened,
         Passed(r, held, late)
  PROVE  ErasureInv'
BY OneStep, NoChange

\* A request that is over has nothing to promise.
LEMMA QuietEraserIsWell ==
  /\ Quiet \in ErasureLocals /\ Quiet.pc \notin Writing \union {"list", "keys", "stage"}
  /\ \A h, l : Passed(Quiet, h, l)
BY DEF Quiet, ErasureLocals, Writing, Passed

-----------------------------------------------------------------------------
(* The steps of Next *)

\* A request that begins to write is marked if it overlaps.
LEMMA BeginStep ==
  ASSUME ErasureInv, NEW c \in ErasureCalls, NEW overlaps \in BOOLEAN, Threatened => overlaps,
         NEW adds \in SUBSET (Items \ {"row"}), NEW removes \in SUBSET (Items \ {"row"}),
         Starts(c, adds, removes, overlaps)
  PROVE  ErasureInv'
<1> DEFINE r == [pc |-> "write", adds |-> adds, removes |-> removes, overlaps |-> overlaps]
<1>1. r \in ErasureLocals /\ r.pc = "write" /\ r.overlaps = overlaps
  BY DEF ErasureLocals, Writing
<1>2. Passed(r, held, late)
  BY <1>1 DEF Passed
<1>3. ErasureGoesOn(c, r) /\ UNCHANGED <<held, late>>
  BY DEF Starts
<1> HIDE DEF r
<1> QED BY <1>1, <1>2, <1>3, LocalStep

\* It was let in by the row, by a session, which was stored late if the row is gone,
\* or by a reset link, and is marked by the row itself.
LEMMA StartSteps ==
  ASSUME ErasureInv, NEW c \in ErasureCalls,
         \/ StartTotpSetup(c) \/ ConfirmTotpSetup(c) \/ DisableTotp(c)
         \/ StoreBackupCodes(c) \/ SetPassword(c) \/ ResetPassword(c)
         \/ VerifyPhone(c) \/ SendPhoneCode(c) \/ LoginStarts(c)
         \/ \E k \in UserKeys : StorePasskey(c, k) \/ RemovePasskey(c, k)
  PROVE  ErasureInv'
<1>1. UserKeys \subseteq Items \ {"row"}
  BY ErasureAssumption DEF Items, Stores
<1>2. {"session", "codes", "secret", "pending", "password", "phone", "activity"}
        \subseteq Items \ {"row"}
  BY DEF Items, Stores
<1>3. CASE ResetPassword(c)
  <2> DEFINE o == ErasureInFlight \/ "row" \notin held
  <2>1. o \in BOOLEAN /\ (Threatened => o)
    BY DEF Threatened
  <2>2. Starts(c, {"password"}, {}, o)
    BY <1>3 DEF ResetPassword
  <2> HIDE DEF o
  <2> QED BY <2>1, <2>2, <1>2, BeginStep
<1>4. CASE ~ResetPassword(c)
  <2> DEFINE o == ErasureInFlight \/ "session" \in late
  <2>1. \E adds, removes \in SUBSET (Items \ {"row"}) :
          Begin(c, adds, removes) /\ (SignedIn \/ "row" \in held)
    <3>1. CASE StartTotpSetup(c) BY <3>1, <1>2 DEF StartTotpSetup
    <3>2. CASE ConfirmTotpSetup(c) BY <3>2, <1>2 DEF ConfirmTotpSetup
    <3>3. CASE DisableTotp(c) BY <3>3, <1>2 DEF DisableTotp
    <3>4. CASE StoreBackupCodes(c) BY <3>4, <1>2 DEF StoreBackupCodes
    <3>5. CASE SetPassword(c) BY <3>5, <1>2 DEF SetPassword
    <3>6. CASE VerifyPhone(c) BY <3>6, <1>2 DEF VerifyPhone
    <3>7. CASE SendPhoneCode(c) BY <3>7, <1>2 DEF SendPhoneCode
    <3>8. CASE LoginStarts(c) BY <3>8, <1>2 DEF LoginStarts
    <3>9. CASE \E k \in UserKeys : StorePasskey(c, k) BY <3>9, <1>1 DEF StorePasskey
    <3>10. CASE \E k \in UserKeys : RemovePasskey(c, k) BY <3>10, <1>1 DEF RemovePasskey
    <3> QED BY <1>4, <3>1, <3>2, <3>3, <3>4, <3>5, <3>6, <3>7, <3>8, <3>9, <3>10
  <2>2. SignedIn \/ "row" \in held => (Threatened => o)
    BY DEF ErasureInv, Threatened, NothingOutlivesTheRow, SignedIn
  <2>3. \E adds, removes \in SUBSET (Items \ {"row"}) :
          Starts(c, adds, removes, o) /\ (Threatened => o)
    BY <2>1, <2>2 DEF Begin
  <2>4. o \in BOOLEAN
    OBVIOUS
  <2> HIDE DEF o
  <2> QED BY <2>3, <2>4, BeginStep
<1> QED BY <1>3, <1>4

\* What a request knows of itself while it writes.
LEMMA WriterTypes ==
  ASSUME ErasureInv, NEW c \in ErasureCalls, erasureCall[c].pc \in Writing
  PROVE  /\ erasureCall[c].adds \in SUBSET (Items \ {"row"})
         /\ erasureCall[c].removes \in SUBSET (Items \ {"row"})
         /\ erasureCall[c].overlaps \in BOOLEAN
         /\ Threatened => erasureCall[c].overlaps
         /\ \A pc \in Writing : [erasureCall[c] EXCEPT !.pc = pc] \in ErasureLocals
<1>1. erasureCall[c] \in [pc : Writing, adds : SUBSET (Items \ {"row"}),
                          removes : SUBSET (Items \ {"row"}), overlaps : BOOLEAN]
  BY DEF ErasureInv, ErasureTypes, ErasureLocals, Writing
<1> QED BY <1>1 DEF ErasureInv, WritersMarked, ErasureLocals

LEMMA WriteStep ==
  ASSUME ErasureInv, NEW c \in ErasureCalls, Write(c)
  PROVE  ErasureInv'
<1> DEFINE call == erasureCall[c]
<1>1. call.pc \in Writing
  BY DEF Write, ErasureAt, Writing
<1>2. /\ call.adds \in SUBSET (Items \ {"row"}) /\ call.removes \in SUBSET (Items \ {"row"})
      /\ call.overlaps \in BOOLEAN /\ (Threatened => call.overlaps)
  BY <1>1, WriterTypes
<1>3. StoreChanges(call.adds, call.removes, call.overlaps)
  BY DEF Write
<1>4. CASE ErasureEnds(c)
  BY <1>2, <1>3, <1>4, OneStep, QuietEraserIsWell DEF ErasureEnds
<1>5. CASE ErasureGoesOn(c, [call EXCEPT !.pc = "sms"])
  <2> DEFINE r == [call EXCEPT !.pc = "sms"]
  <2>1. r \in ErasureLocals
    BY <1>1, WriterTypes DEF Writing
  <2>2. r.pc = "sms" /\ r.overlaps = call.overlaps
    BY <1>1 DEF ErasureInv, ErasureTypes, ErasureLocals, Writing
  <2>3. Passed(r, held', late')
    BY <2>2 DEF Passed
  <2>4. ErasureGoesOn(c, r)
    BY <1>5
  <2> HIDE DEF r
  <2> QED BY <1>2, <1>3, <2>1, <2>2, <2>3, <2>4, OneStep
<1> QED BY <1>4, <1>5 DEF Write

LEMMA PhoneStep ==
  ASSUME ErasureInv, NEW c \in ErasureCalls, PhoneCodeSent(c) \/ PhoneCodeUndone(c)
  PROVE  ErasureInv'
<1>1. CASE ErasureEnds(c) /\ UNCHANGED <<held, late>>
  BY <1>1, LocalStep, QuietEraserIsWell DEF ErasureEnds
<1>2. CASE PhoneCodeUndone(c)
  BY <1>2, OneStep, QuietEraserIsWell DEF PhoneCodeUndone, ErasureEnds
<1>3. CASE PhoneCodeSent(c) /\ ~ErasureEnds(c)
  <2> DEFINE r == [erasureCall[c] EXCEPT !.pc = "undo"]
  <2>1. erasureCall[c].pc \in Writing
    BY <1>3 DEF PhoneCodeSent, ErasureAt, Writing
  <2>2. r \in ErasureLocals
    BY <2>1, WriterTypes DEF Writing
  <2>3. r.pc = "undo" /\ r.overlaps = erasureCall[c].overlaps
    BY <2>1 DEF ErasureInv, ErasureTypes, ErasureLocals, Writing
  <2>4. Passed(r, held, late)
    BY <2>3 DEF Passed
  <2>5. ErasureGoesOn(c, r) /\ UNCHANGED <<held, late>>
    BY <1>3 DEF PhoneCodeSent
  <2> HIDE DEF r
  <2> QED BY <2>1, <2>2, <2>3, <2>4, <2>5, LocalStep, WriterTypes
<1> QED BY <1>1, <1>2, <1>3 DEF PhoneCodeSent

\* Until the user is found the erasure has passed nothing.
LEMMA EraseBeginStep ==
  ASSUME ErasureInv, NEW c \in ErasureCalls, EraseBegin(c)
  PROVE  ErasureInv'
<1>1. [pc |-> "find"] \in ErasureLocals /\ Passed([pc |-> "find"], held, late)
  BY DEF ErasureLocals, Passed
<1> QED BY <1>1, LocalStep DEF EraseBegin, Writing

\* Every request that is to write is marked: the erasure has begun.
LEMMA EraseFindStep ==
  ASSUME ErasureInv, NEW c \in ErasureCalls, EraseFind(c)
  PROVE  ErasureInv'
<1>1. CASE "row" \notin held
  BY <1>1, LocalStep, QuietEraserIsWell DEF EraseFind, ErasureEnds
<1>2. CASE "row" \in held
  <2>1. StoreChanges({}, {"session"}, FALSE) /\ MarkOverlap(c, [pc |-> "list"])
    BY <1>2 DEF EraseFind
  <2>2. "row" \in held' /\ held' = held \ {"session"} /\ late' = late \ {"session"}
    BY <1>2, <2>1 DEF StoreChanges
  <2>3. erasureCall'[c] = [pc |-> "list"]
    BY <2>1 DEF MarkOverlap
  <2>4. \A d \in ErasureCalls \ {c} :
          erasureCall'[d] = IF erasureCall[d].pc \in Writing
                            THEN [erasureCall[d] EXCEPT !.overlaps = TRUE] ELSE erasureCall[d]
    BY <2>1 DEF MarkOverlap
  <2>5. ASSUME NEW d \in ErasureCalls \ {c}, erasureCall[d].pc \in Writing
        PROVE  /\ erasureCall'[d] \in ErasureLocals
               /\ erasureCall'[d].pc = erasureCall[d].pc /\ erasureCall'[d].overlaps
    <3>1. erasureCall[d] \in [pc : Writing, adds : SUBSET (Items \ {"row"}),
                              removes : SUBSET (Items \ {"row"}), overlaps : BOOLEAN]
      BY <2>5 DEF ErasureInv, ErasureTypes, ErasureLocals, Writing
    <3> QED BY <3>1, <2>4, <2>5 DEF ErasureLocals
  <2>6. ErasureTypes'
    <3>1. [pc |-> "list"] \in ErasureLocals
      BY DEF ErasureLocals
    <3>2. \A d \in ErasureCalls : erasureCall'[d] \in ErasureLocals
      BY <3>1, <2>3, <2>4, <2>5 DEF ErasureInv, ErasureTypes
    <3>3. erasureCall' \in [ErasureCalls -> ErasureLocals]
      BY <3>2, <2>1 DEF MarkOverlap
    <3> QED BY <3>3, <2>2 DEF ErasureInv, ErasureTypes
  <2>7. WritersMarked'
    <3>1. ASSUME NEW d \in ErasureCalls, erasureCall'[d].pc \in Writing
          PROVE  erasureCall'[d].overlaps
      <4>1. d # c
        BY <2>3, <3>1 DEF Writing
      <4>2. erasureCall[d].pc \in Writing
        BY <2>4, <3>1, <4>1
      <4> QED BY <2>5, <4>1, <4>2
    <3> QED BY <3>1 DEF WritersMarked
  <2>8. ASSUME NEW d \in ErasureCalls PROVE Passed(erasureCall'[d], held', late')
    <3>1. CASE d = c
      BY <3>1, <2>2, <2>3 DEF Passed
    <3>2. CASE d # c /\ erasureCall[d].pc \in Writing
      BY <3>2, <2>5 DEF Passed, Writing
    <3>3. CASE d # c /\ erasureCall[d].pc \notin Writing
      BY <3>3, <2>1, <2>4, ChangesKeepPassed DEF ErasureInv
    <3> QED BY <3>1, <3>2, <3>3
  <2>9. NothingOutlivesTheRow'
    BY <2>2 DEF NothingOutlivesTheRow
  <2> QED BY <2>6, <2>7, <2>8, <2>9 DEF ErasureInv
<1> QED BY <1>1, <1>2

LEMMA EraseListStep ==
  ASSUME ErasureInv, NEW c \in ErasureCalls, EraseList(c)
  PROVE  ErasureInv'
<1> DEFINE r == [pc |-> "keys", left |-> held \intersect UserKeys]
<1>1. r \in ErasureLocals /\ r.pc = "keys" /\ r.left = held \intersect UserKeys
  BY DEF ErasureLocals
<1>2. erasureCall[c].pc = "list"
  BY DEF EraseList, ErasureAt
<1>3. Passed(r, held, late)
  BY <1>1, <1>2 DEF ErasureInv, Passed
<1>4. ErasureGoesOn(c, r) /\ UNCHANGED <<held, late>>
  BY DEF EraseList
<1> HIDE DEF r
<1> QED BY <1>1, <1>2, <1>3, <1>4, LocalStep DEF Erasing, Writing

LEMMA EraseKeyStep ==
  ASSUME ErasureInv, NEW c \in ErasureCalls, NEW k \in UserKeys, EraseKey(c, k)
  PROVE  ErasureInv'
<1> DEFINE r == [erasureCall[c] EXCEPT !.left = @ \ {k}]
<1>1. erasureCall[c] \in [pc : {"keys"}, left : SUBSET UserKeys]
  BY DEF EraseKey, ErasureAt, ErasureInv, ErasureTypes, ErasureLocals, Writing
<1>2. r \in ErasureLocals /\ r.pc = "keys" /\ r.left = erasureCall[c].left \ {k}
  BY <1>1 DEF ErasureLocals
<1>3. StoreChanges({}, {k}, FALSE) /\ ErasureGoesOn(c, r)
  BY DEF EraseKey
<1>4. Passed(r, held', late')
  BY <1>1, <1>2, <1>3 DEF ErasureInv, Passed, StoreChanges
<1>5. k # "row"
  BY ErasureAssumption DEF Stores
<1> HIDE DEF r
<1> QED BY <1>1, <1>2, <1>3, <1>4, <1>5, OneStep DEF Erasing, Writing

LEMMA EraseKeysDoneStep ==
  ASSUME ErasureInv, NEW c \in ErasureCalls, EraseKeysDone(c)
  PROVE  ErasureInv'
<1> DEFINE r == [pc |-> "stage", nth |-> 1]
<1>1. r \in ErasureLocals /\ r.pc = "stage" /\ r.nth = 1
  BY DEF ErasureLocals, Stages
<1>2. erasureCall[c].pc = "keys" /\ erasureCall[c].left = {}
  BY DEF EraseKeysDone, ErasureAt
<1>3. Passed(r, held, late)
  BY <1>1, <1>2 DEF ErasureInv, Passed
<1>4. ErasureGoesOn(c, r) /\ UNCHANGED <<held, late>>
  BY DEF EraseKeysDone
<1> HIDE DEF r
<1> QED BY <1>1, <1>2, <1>3, <1>4, LocalStep DEF Erasing, Writing

LEMMA StagesAre ==
  /\ Len(Stages) = 6
  /\ Stages[1] = {"codes"} /\ Stages[2] = {"secret", "pending"} /\ Stages[3] = {"password"}
  /\ Stages[4] = {"phone"} /\ Stages[5] = {"activity"} /\ Stages[6] = {"row"}
BY DEF Stages

\* The row goes last, when all the rest has been passed.
LEMMA EraseStageStep ==
  ASSUME ErasureInv, NEW c \in ErasureCalls, EraseStage(c)
  PROVE  ErasureInv'
<1> DEFINE n == erasureCall[c].nth
<1>1. erasureCall[c].pc = "stage" /\ n \in 1 .. 6
  BY StagesAre DEF EraseStage, ErasureAt, ErasureInv, ErasureTypes, ErasureLocals, Writing
<1>2. StoreChanges({}, Stages[n], FALSE)
  BY DEF EraseStage
<1>3. Passed(erasureCall[c], held, late) /\ held \subseteq Items /\ late \subseteq held
  BY DEF ErasureInv, ErasureTypes
<1>4. CASE n = 6
  <2>1. held' = held \ {"row"} /\ late' = late \ {"row"}
    BY <1>2, <1>4, StagesAre DEF StoreChanges
  <2>2. held \subseteq late \union {"row"}
    BY <1>1, <1>3, <1>4 DEF Passed, Items, Stores
  <2>3. ErasureGoesOn(c, Quiet)
    BY <1>4, StagesAre DEF EraseStage, ErasureEnds
  <2> QED BY <1>1, <1>2, <2>1, <2>2, <2>3, OneStep, QuietEraserIsWell DEF Erasing
<1>5. CASE n # 6
  <2> DEFINE r == [pc |-> "stage", nth |-> n + 1]
  <2>1. r \in ErasureLocals /\ r.pc = "stage" /\ r.nth = n + 1
    BY <1>1, <1>5, StagesAre DEF ErasureLocals
  <2>2. ErasureGoesOn(c, r)
    BY <1>5, StagesAre DEF EraseStage
  <2>3. "row" \notin Stages[n]
    BY <1>1, <1>5, StagesAre
  <2>4. Passed(erasureCall[c], held', late')
    BY <1>2, <1>3, ChangesKeepPassed
  <2>5. held' \intersect Stages[n] = {}
    BY <1>2 DEF StoreChanges
  <2>6. Passed(r, held', late')
    BY <1>1, <1>5, <2>1, <2>4, <2>5, StagesAre DEF Passed
  <2> HIDE DEF r
  <2> QED BY <1>1, <1>2, <2>1, <2>2, <2>3, <2>6, OneStep DEF Erasing, Writing
<1> QED BY <1>4, <1>5

-----------------------------------------------------------------------------
(* The specification *)

LEMMA InitErasureInv == ErasureInit => ErasureInv
<1> SUFFICES ASSUME ErasureInit PROVE ErasureInv
  OBVIOUS
<1>1. \A c \in ErasureCalls : erasureCall[c] = Quiet
  BY DEF ErasureInit
<1>2. ErasureTypes
  BY QuietEraserIsWell DEF ErasureInit, ErasureTypes, Items, Stores
<1>3. WritersMarked
  BY <1>1, QuietEraserIsWell DEF WritersMarked
<1>4. "row" \in held
  BY DEF ErasureInit
<1> QED BY <1>1, <1>2, <1>3, <1>4, QuietEraserIsWell DEF ErasureInv, NothingOutlivesTheRow

LEMMA NextKeepsErasureInv == ErasureInv /\ [ErasureNext]_erasureVars => ErasureInv'
<1> SUFFICES ASSUME ErasureInv, [ErasureNext]_erasureVars PROVE ErasureInv'
  OBVIOUS
<1>1. CASE UNCHANGED erasureVars
  BY <1>1 DEF erasureVars, ErasureInv, ErasureTypes, WritersMarked, Threatened, ErasureInFlight,
              Erasing, Passed, NothingOutlivesTheRow
<1>2. ASSUME NEW c \in ErasureCalls, ErasureAbort(c) PROVE ErasureInv'
  BY <1>2, LocalStep, QuietEraserIsWell DEF ErasureAbort, ErasureEnds
<1> QED
  BY <1>1, <1>2, StartSteps, WriteStep, PhoneStep, EraseBeginStep, EraseFindStep,
     EraseListStep, EraseKeyStep, EraseKeysDoneStep, EraseStageStep DEF ErasureNext

LEMMA ErasureInvariance == ErasureSpec => []ErasureInv
BY InitErasureInv, NextKeepsErasureInv, PTL DEF ErasureSpec

\* The stores and the requests of an erasure keep their types.
THEOREM ErasureTyped == ErasureSpec => []ErasureTypes
<1>1. ErasureInv => ErasureTypes
  BY DEF ErasureInv
<1> QED BY <1>1, ErasureInvariance, PTL

\* Once the user's row is gone nothing is left but what a request stored that was
\* in flight together with an erasure, for any number of requests and passkeys.
THEOREM ErasureIsComplete == ErasureSpec => []NothingOutlivesTheRow
<1>1. ErasureInv => NothingOutlivesTheRow
  BY DEF ErasureInv
<1> QED BY <1>1, ErasureInvariance, PTL

-----------------------------------------------------------------------------
(***************************************************************************)
(* SingleSignOn: for any number of sessions.                               *)
(***************************************************************************)

\* A handler that has ended the sessions its answer will be about knows that they
\* are gone, but for those the service opened again.
HasEnded(r, at, again) ==
  /\ r.pc = "invalidate" /\ r.index # "all" => r.covers = {r.index}
  /\ r.pc = "answer" =>
       /\ r.side = "provider" => r.covers \intersect at["provider"] = {}
       /\ r.side = "service" => r.covers \intersect at["service"] \subseteq again

Ended(r) == HasEnded(r, sessionsAt, reopened)

AllEnded == \A c \in SsoCalls : Ended(ssoCall[c])

SsoInv == SsoTypes /\ AllEnded /\ AnsweredLogoutHolds

-----------------------------------------------------------------------------

LEMMA QuietHandler == NoHandler \in HandlerLocals /\ Ended(NoHandler)
BY DEF NoHandler, HandlerLocals, Ended, HasEnded

\* A handler goes on, and the sessions stay.
LEMMA HandlerStep ==
  ASSUME SsoInv, NEW c \in SsoCalls, NEW r \in HandlerLocals, Ended(r), HandlerGoesOn(c, r),
         UNCHANGED <<sessionsAt, drawn, logoutRequests, answered, reopened>>,
         assertions' \subseteq drawn
  PROVE  SsoInv'
<1>1. \A d \in SsoCalls : ssoCall'[d] = IF d = c THEN r ELSE ssoCall[d]
  BY DEF SsoInv, SsoTypes, HandlerGoesOn
<1>2. ssoCall' \in [SsoCalls -> HandlerLocals] /\ HandlerLocals' = HandlerLocals
  BY DEF SsoInv, SsoTypes, HandlerGoesOn, HandlerLocals, NoHandler
<1>3. AllEnded'
  BY <1>1 DEF SsoInv, AllEnded, Ended, HasEnded
<1>4. SsoTypes'
  BY <1>2 DEF SsoInv, SsoTypes
<1> QED BY <1>3, <1>4 DEF SsoInv, AnsweredLogoutHolds

\* A handler's locals stay what they are when more indexes have been drawn.
LEMMA LocalsGrow ==
  ASSUME drawn \subseteq drawn', NEW r \in HandlerLocals
  PROVE  r \in HandlerLocals'
<1>1. CASE r = NoHandler
  BY <1>1 DEF HandlerLocals, NoHandler
<1>2. CASE r \in [pc : {"encrypt", "open"}, index : drawn]
  BY <1>2 DEF HandlerLocals
<1>3. CASE r \in [pc : {"invalidate", "answer"}, side : Sides, index : drawn \union {"all"},
                  covers : SUBSET drawn]
  BY <1>3 DEF HandlerLocals
<1> QED BY <1>1, <1>2, <1>3 DEF HandlerLocals

LEMMA AssertStep ==
  ASSUME SsoInv, NEW c \in SsoCalls, NEW i \in Indexes, AssertSession(c, i)
  PROVE  SsoInv'
<1> DEFINE r == [pc |-> "encrypt", index |-> i]
<1>1. /\ i \in sessionsAt["provider"] \/ i \notin drawn
      /\ drawn' = drawn \union {i}
      /\ sessionsAt' = [sessionsAt EXCEPT !["provider"] = @ \union {i}]
      /\ ssoCall' = [ssoCall EXCEPT ![c] = r]
      /\ UNCHANGED <<assertions, logoutRequests, answered, reopened>>
  BY DEF AssertSession, HandlerGoesOn
<1>2. r \in HandlerLocals'
  BY <1>1 DEF HandlerLocals
<1>3. ssoCall' \in [SsoCalls -> HandlerLocals']
  BY <1>1, <1>2, LocalsGrow DEF SsoInv, SsoTypes
<1>4. sessionsAt' \in [Sides -> SUBSET drawn'] /\ answered' \in [Sides -> SUBSET drawn']
  BY <1>1 DEF SsoInv, SsoTypes, Sides
<1>5. SsoTypes'
  BY <1>1, <1>3, <1>4 DEF SsoInv, SsoTypes
<1>6. /\ sessionsAt'["provider"] = sessionsAt["provider"] \union {i}
      /\ sessionsAt'["service"] = sessionsAt["service"]
  BY <1>1 DEF SsoInv, SsoTypes, Sides
<1>7. AnsweredLogoutHolds'
  BY <1>1, <1>6 DEF SsoInv, SsoTypes, Sides, AnsweredLogoutHolds
<1>8. \A d \in SsoCalls : Ended(ssoCall[d])'
  <2> SUFFICES ASSUME NEW d \in SsoCalls PROVE Ended(ssoCall[d])'
    OBVIOUS
  <2>1. CASE d = c
    BY <2>1, <1>1 DEF SsoInv, SsoTypes, Ended, HasEnded
  <2>2. CASE d # c
    <3>1. ssoCall'[d] = ssoCall[d] /\ Ended(ssoCall[d])
      BY <2>2, <1>1 DEF SsoInv, SsoTypes, AllEnded
    <3>2. ssoCall[d].pc = "answer" => ssoCall[d].covers \subseteq drawn
      BY DEF SsoInv, SsoTypes, HandlerLocals, NoHandler
    <3> QED BY <3>1, <3>2, <1>1, <1>6 DEF Ended, HasEnded
  <2> QED BY <2>1, <2>2
<1> QED BY <1>5, <1>7, <1>8 DEF SsoInv, AllEnded

LEMMA OpenStep ==
  ASSUME SsoInv, NEW c \in SsoCalls, OpenSession(c)
  PROVE  SsoInv'
<1> DEFINE i == ssoCall[c].index
<1>1. i \in drawn
  BY DEF SsoInv, SsoTypes, OpenSession, HandlerAt, HandlerLocals, NoHandler
<1>2. /\ sessionsAt' = [sessionsAt EXCEPT !["service"] = @ \union {i}]
      /\ reopened' = reopened \union ({i} \intersect Covered("service"))
      /\ ssoCall' = [ssoCall EXCEPT ![c] = NoHandler]
      /\ UNCHANGED <<drawn, assertions, logoutRequests, answered>>
  BY DEF OpenSession, HandlerEnds, HandlerGoesOn
<1>0. ssoCall[c].pc = "open"
  BY DEF OpenSession, HandlerAt
<1>3. /\ answered["service"] \subseteq Covered("service")
      /\ \A d \in SsoCalls : ssoCall[d].pc = "answer" /\ ssoCall[d].side = "service" =>
           ssoCall[d].covers \subseteq Covered("service")
  BY DEF Covered
<1> HIDE DEF i
<1>4. /\ sessionsAt'["provider"] = sessionsAt["provider"]
      /\ sessionsAt'["service"] = sessionsAt["service"] \union {i}
      /\ sessionsAt' \in [Sides -> SUBSET drawn']
  BY <1>1, <1>2 DEF SsoInv, SsoTypes, Sides
<1>5. HandlerLocals' = HandlerLocals
  BY <1>2 DEF HandlerLocals, NoHandler
<1>6. SsoTypes'
  BY <1>1, <1>2, <1>4, <1>5, QuietHandler DEF SsoInv, SsoTypes
<1>7. AnsweredLogoutHolds'
  BY <1>2, <1>3, <1>4 DEF SsoInv, AnsweredLogoutHolds
<1>8. \A d \in SsoCalls : Ended(ssoCall[d])'
  <2>1. \A d \in SsoCalls : ssoCall'[d] = IF d = c THEN NoHandler ELSE ssoCall[d]
    BY <1>2 DEF SsoInv, SsoTypes
  <2> QED BY <2>1, <1>2, <1>3, <1>4 DEF SsoInv, AllEnded, Ended, HasEnded, NoHandler
<1> QED BY <1>6, <1>7, <1>8 DEF SsoInv, AllEnded

\* Asking, sending and receiving change no session.
LEMMA MessageSteps ==
  ASSUME SsoInv,
         \/ \E i \in Indexes : AssertionExpires(i)
         \/ \E i \in Indexes \union {"all"} : AskProvider(i) \/ AskService(i)
  PROVE  SsoInv'
<1>1. UNCHANGED <<sessionsAt, drawn, answered, reopened, ssoCall>> /\ assertions' \subseteq assertions
  BY DEF AssertionExpires, AskProvider, AskService, Ask
<1>2. logoutRequests' \subseteq [side : Sides, index : drawn \union {"all"}]
  BY DEF SsoInv, SsoTypes, Sides, AssertionExpires, AskProvider, AskService, Ask
<1>3. SsoTypes'
  BY <1>1, <1>2 DEF SsoInv, SsoTypes, HandlerLocals
<1> QED BY <1>1, <1>3 DEF SsoInv, AllEnded, Ended, HasEnded, AnsweredLogoutHolds

LEMMA ReceiveSteps ==
  ASSUME SsoInv, NEW c \in SsoCalls,
         \/ \E i \in Indexes : ReceiveAssertion(c, i)
         \/ ReceiveAtProvider(c) \/ ReceiveAtService(c) \/ SendAssertion(c) \/ SsoFails(c)
  PROVE  SsoInv'
<1>1. ASSUME NEW i \in Indexes, ReceiveAssertion(c, i) PROVE SsoInv'
  <2>1. [pc |-> "open", index |-> i] \in HandlerLocals /\ Ended([pc |-> "open", index |-> i])
    BY <1>1 DEF ReceiveAssertion, Valid, SsoInv, SsoTypes, HandlerLocals, Ended, HasEnded
  <2> QED BY <1>1, <2>1, HandlerStep DEF ReceiveAssertion, SsoInv, SsoTypes
<1>2. ASSUME NEW side \in Sides, Receive(c, side) PROVE SsoInv'
  <2>1. PICK m \in logoutRequests :
          HandlerGoesOn(c, [pc |-> "invalidate", side |-> side, index |-> m.index,
                            covers |-> Named(m.index, side)])
    BY <1>2 DEF Receive
  <2> DEFINE r == [pc |-> "invalidate", side |-> side, index |-> m.index,
                   covers |-> Named(m.index, side)]
  <2>2. m.index \in drawn \union {"all"}
    BY DEF SsoInv, SsoTypes
  <2>3. Named(m.index, side) \subseteq drawn
    BY <2>2 DEF Named, SsoInv, SsoTypes
  <2>4. r \in HandlerLocals /\ Ended(r)
    BY <2>2, <2>3 DEF HandlerLocals, Ended, HasEnded, Named
  <2>5. UNCHANGED <<sessionsAt, drawn, assertions, logoutRequests, answered, reopened>>
    BY <1>2 DEF Receive
  <2> QED BY <2>1, <2>4, <2>5, HandlerStep DEF SsoInv, SsoTypes
<1>3. CASE SendAssertion(c)
  <2>1. assertions' \subseteq drawn
    BY <1>3 DEF SendAssertion, SsoInv, SsoTypes, HandlerAt, HandlerLocals, NoHandler
  <2> QED BY <1>3, <2>1, QuietHandler, HandlerStep DEF SendAssertion, HandlerEnds
<1>4. CASE SsoFails(c)
  BY <1>4, QuietHandler, HandlerStep DEF SsoFails, HandlerEnds, SsoInv, SsoTypes
<1> QED BY <1>1, <1>2, <1>3, <1>4 DEF ReceiveAtProvider, ReceiveAtService, Sides

LEMMA InvalidateStep ==
  ASSUME SsoInv, NEW c \in SsoCalls, InvalidateSession(c)
  PROVE  SsoInv'
<1> DEFINE r == ssoCall[c]
           gone == Named(r.index, r.side)
           next == [r EXCEPT !.pc = "answer"]
<1>1. /\ r \in [pc : {"invalidate"}, side : Sides, index : drawn \union {"all"},
                covers : SUBSET drawn]
      /\ Ended(r)
  BY DEF SsoInv, SsoTypes, AllEnded, InvalidateSession, HandlerAt, HandlerLocals, NoHandler
<1>2. /\ sessionsAt' = [sessionsAt EXCEPT ![r.side] = @ \ gone]
      /\ ssoCall' = [ssoCall EXCEPT ![c] = next]
      /\ UNCHANGED <<drawn, assertions, logoutRequests, answered, reopened>>
  BY DEF InvalidateSession, HandlerGoesOn
<1>3. r.covers \intersect (sessionsAt[r.side] \ gone) = {}
  BY <1>1 DEF Ended, HasEnded, Named
<1>4. /\ next \in HandlerLocals /\ next.pc = "answer" /\ next.side = r.side
      /\ next.covers = r.covers /\ r.side \in Sides
  BY <1>1 DEF HandlerLocals
<1> HIDE DEF r, gone, next
<1>5. /\ sessionsAt'[r.side] = sessionsAt[r.side] \ gone
      /\ \A side \in Sides : sessionsAt'[side] \subseteq sessionsAt[side]
      /\ sessionsAt' \in [Sides -> SUBSET drawn']
  BY <1>2, <1>4 DEF SsoInv, SsoTypes
<1>6. HandlerLocals' = HandlerLocals
  BY <1>2 DEF HandlerLocals, NoHandler
<1>7. SsoTypes'
  BY <1>2, <1>4, <1>5, <1>6 DEF SsoInv, SsoTypes
<1>8. AnsweredLogoutHolds'
  BY <1>2, <1>5 DEF SsoInv, AnsweredLogoutHolds, Sides
<1>9. \A d \in SsoCalls : Ended(ssoCall[d])'
  <2>1. \A d \in SsoCalls : ssoCall'[d] = IF d = c THEN next ELSE ssoCall[d]
    BY <1>2 DEF SsoInv, SsoTypes
  <2>2. HasEnded(next, sessionsAt', reopened')
    BY <1>3, <1>4, <1>5 DEF HasEnded, Sides
  <2>3. \A d \in SsoCalls \ {c} : Ended(ssoCall[d])'
    BY <2>1, <1>2, <1>5 DEF SsoInv, AllEnded, Ended, HasEnded, Sides
  <2>4. Ended(ssoCall[c])'
    BY <2>1, <2>2 DEF Ended
  <2> QED BY <2>3, <2>4
<1> QED BY <1>7, <1>8, <1>9 DEF SsoInv, AllEnded

LEMMA AnswerStep ==
  ASSUME SsoInv, NEW c \in SsoCalls, Answer(c)
  PROVE  SsoInv'
<1> DEFINE r == ssoCall[c]
<1>1. /\ r.side \in Sides /\ r.covers \subseteq drawn /\ r.pc = "answer" /\ Ended(r)
  BY DEF SsoInv, SsoTypes, AllEnded, Answer, HandlerAt, HandlerLocals, NoHandler
<1>2. /\ answered' = [answered EXCEPT ![r.side] = @ \union r.covers]
      /\ ssoCall' = [ssoCall EXCEPT ![c] = NoHandler]
      /\ UNCHANGED <<sessionsAt, drawn, assertions, logoutRequests, reopened>>
  BY DEF Answer, HandlerEnds, HandlerGoesOn
<1>3. HandlerLocals' = HandlerLocals
  BY <1>2 DEF HandlerLocals, NoHandler
<1>4. SsoTypes'
  BY <1>1, <1>2, <1>3, QuietHandler DEF SsoInv, SsoTypes
<1>5. AnsweredLogoutHolds'
  BY <1>1, <1>2 DEF SsoInv, SsoTypes, AnsweredLogoutHolds, Ended, HasEnded, Sides
<1>6. \A d \in SsoCalls : Ended(ssoCall[d])'
  <2>1. \A d \in SsoCalls : ssoCall'[d] = IF d = c THEN NoHandler ELSE ssoCall[d]
    BY <1>2 DEF SsoInv, SsoTypes
  <2> QED BY <2>1, <1>2 DEF SsoInv, AllEnded, Ended, HasEnded, NoHandler
<1> QED BY <1>4, <1>5, <1>6 DEF SsoInv, AllEnded

LEMMA InitSsoInv == SsoInit => SsoInv
BY QuietHandler
   DEF SsoInit, SsoInv, SsoTypes, AllEnded, Ended, HasEnded, AnsweredLogoutHolds, Sides, NoHandler

LEMMA NextKeepsSsoInv == SsoInv /\ [SsoNext]_ssoVars => SsoInv'
<1> SUFFICES ASSUME SsoInv, [SsoNext]_ssoVars PROVE SsoInv'
  OBVIOUS
<1>1. CASE UNCHANGED ssoVars
  BY <1>1 DEF ssoVars, SsoInv, SsoTypes, HandlerLocals, AllEnded, Ended, HasEnded,
              AnsweredLogoutHolds
<1> QED
  BY <1>1, MessageSteps, AssertStep, ReceiveSteps, OpenStep, InvalidateStep, AnswerStep
     DEF SsoNext

LEMMA SsoInvariance == SsoSpec => []SsoInv
BY InitSsoInv, NextKeepsSsoInv, PTL DEF SsoSpec

\* A side that answered a logout has ended the sessions it covers for good, but for
\* what the service opened by an assertion acted on later.
THEOREM LogoutHolds == SsoSpec => []AnsweredLogoutHolds
<1>1. SsoInv => AnsweredLogoutHolds
  BY DEF SsoInv
<1> QED BY <1>1, SsoInvariance, PTL

(***************************************************************************)
(* Passkeys: for any number of credentials, challenges and requests.       *)
(***************************************************************************)

\* What a request knows of an assertion between its check and its write: the
\* counter is above the one it read.
Checked(r) ==
  r.pc = "count" => \/ r.assertion.count > r.seen
                    \/ r.assertion.count = 0 /\ r.seen = 0

PasskeyInv ==
  /\ PasskeyTypes /\ IsFiniteSet(asserted)
  /\ CounterCoversPaid
  /\ AssertionPaysOnce
  /\ \A c \in PasskeyCalls : Checked(passkeyCall[c])

-----------------------------------------------------------------------------
(* Locals of a request *)

LEMMA QuietPasskeyIsWell == NoCall \in PasskeyLocals /\ Checked(NoCall)
BY DEF NoCall, PasskeyLocals, Checked

LEMMA PasskeyGoesOn ==
  ASSUME PasskeyInv, NEW c \in PasskeyCalls, NEW r \in PasskeyLocals, Checked(r), KeyGoesOn(c, r)
  PROVE  /\ passkeyCall' \in [PasskeyCalls -> PasskeyLocals]
         /\ \A d \in PasskeyCalls : Checked(passkeyCall'[d])
<1>1. \A d \in PasskeyCalls : passkeyCall'[d] = IF d = c THEN r ELSE passkeyCall[d]
  BY DEF PasskeyInv, PasskeyTypes, KeyGoesOn
<1>2. passkeyCall' \in [PasskeyCalls -> PasskeyLocals]
  BY DEF PasskeyInv, PasskeyTypes, KeyGoesOn
<1> QED BY <1>1, <1>2 DEF PasskeyInv

\* A step of one request that leaves the stores and the authenticators alone.
LEMMA PasskeyLocalStep ==
  ASSUME PasskeyInv, NEW c \in PasskeyCalls, NEW r \in PasskeyLocals, Checked(r), KeyGoesOn(c, r),
         UNCHANGED <<counters, challengeVars, authenticatorVars, passkeyHistory>>
  PROVE  PasskeyInv'
BY PasskeyGoesOn DEF PasskeyInv, PasskeyTypes, CounterCoversPaid, AssertionPaysOnce,
              challengeVars, authenticatorVars, passkeyHistory

LEMMA LocalsOf ==
  ASSUME PasskeyInv, NEW c \in PasskeyCalls
  PROVE  /\ passkeyCall[c].pc \in {"save", "delete"} => passkeyCall[c].key \in Keys
         /\ passkeyCall[c].pc \in {"find", "count"} => passkeyCall[c].assertion \in Assertions
         /\ passkeyCall[c].pc = "count" => passkeyCall[c].seen \in 0 .. MaxSignatures
BY DEF PasskeyInv, PasskeyTypes, PasskeyLocals, NoCall

-----------------------------------------------------------------------------
(* Challenges and authenticators *)

LEMMA ChallengeSteps ==
  ASSUME PasskeyInv, NEW ch \in Challenges,
         StartRegistration(ch) \/ StartAuthentication(ch) \/ StartDiscoverable(ch)
  PROVE  PasskeyInv'
BY DEF PasskeyInv, PasskeyTypes, CounterCoversPaid, AssertionPaysOnce, authenticatorVars,
       passkeyHistory, StartRegistration, StartAuthentication, StartDiscoverable

LEMMA AttestStep ==
  ASSUME PasskeyInv, NEW k \in Keys, Attest(k)
  PROVE  PasskeyInv'
<1>1. DOMAIN attested' \subseteq Keys /\ attested' \in [DOMAIN attested' -> Challenges]
  BY DEF PasskeyInv, PasskeyTypes, Attest, MapSet
<1> QED BY <1>1 DEF PasskeyInv, PasskeyTypes, CounterCoversPaid, AssertionPaysOnce, Attest,
                    challengeVars, passkeyHistory

LEMMA SignStep ==
  ASSUME PasskeyInv, NEW k \in Keys, NEW ch \in Challenges, SignAssertion(k, ch)
  PROVE  PasskeyInv'
<1> DEFINE made == Cardinality({a \in asserted : a.key = k})
           a == [key |-> k, challenge |-> ch,
                 count |-> IF k \in Counterless THEN 0 ELSE made + 1]
<1>1. made \in Nat
  BY FS_Subset, FS_CardinalityType DEF PasskeyInv
<1>2. made < MaxSignatures /\ asserted' = asserted \union {a}
  BY DEF SignAssertion
<1>3. a \in Assertions
  <2> HIDE DEF made
  <2> QED BY <1>1, <1>2, PasskeyAssumption DEF Assertions
<1>4. IsFiniteSet(asserted')
  BY <1>2, FS_AddElement DEF PasskeyInv
<1> HIDE DEF a
<1> QED BY <1>2, <1>3, <1>4 DEF PasskeyInv, PasskeyTypes, CounterCoversPaid, AssertionPaysOnce,
                                SignAssertion, challengeVars, passkeyHistory

-----------------------------------------------------------------------------
(* Registration and revocation *)

LEMMA PasskeySaveStep ==
  ASSUME PasskeyInv, NEW c \in PasskeyCalls, RegisterSave(c)
  PROVE  PasskeyInv'
<1> DEFINE k == passkeyCall[c].key
<1>1. k \in Keys
  BY LocalsOf DEF RegisterSave, KeyAt
<1>2. CASE k \in DOMAIN counters
  BY <1>2, PasskeyLocalStep, QuietPasskeyIsWell DEF RegisterSave, SaveKey, KeyEnds, passkeyHistory
<1>3. CASE k \notin DOMAIN counters
  <2>1. /\ counters' = MapSet(counters, k, 0) /\ UNCHANGED rewritten
        /\ paid' = [a \in Assertions |-> IF a.key = k THEN 0 ELSE paid[a]]
        /\ UNCHANGED <<challengeVars, authenticatorVars>>
    BY <1>3 DEF RegisterSave, SaveKey
  <2>2. /\ DOMAIN counters' = DOMAIN counters \union {k}
        /\ \A j \in DOMAIN counters : counters'[j] = counters[j]
        /\ counters' \in [DOMAIN counters' -> 0 .. MaxSignatures]
    BY <1>1, <1>3, <2>1, PasskeyAssumption DEF PasskeyInv, PasskeyTypes, MapSet
  <2>3. paid' \in [Assertions -> Nat] /\ \A a \in Assertions : paid'[a] = 0 \/ paid'[a] = paid[a]
    BY <2>1 DEF PasskeyInv, PasskeyTypes
  <2>4. PasskeyTypes' /\ IsFiniteSet(asserted)'
    BY <1>1, <2>1, <2>2, <2>3, PasskeyGoesOn, QuietPasskeyIsWell
       DEF PasskeyInv, PasskeyTypes, RegisterSave, KeyEnds, challengeVars, authenticatorVars
  <2>5. CounterCoversPaid'
    BY <2>1, <2>2 DEF PasskeyInv, CounterCoversPaid
  <2>6. AssertionPaysOnce'
    BY <2>1, <2>3 DEF PasskeyInv, AssertionPaysOnce
  <2> QED BY <2>4, <2>5, <2>6, PasskeyGoesOn, QuietPasskeyIsWell DEF PasskeyInv, RegisterSave, KeyEnds
<1> QED BY <1>2, <1>3

LEMMA PasskeyDeleteStep ==
  ASSUME PasskeyInv, NEW c \in PasskeyCalls, RevokeKeyDelete(c)
  PROVE  PasskeyInv'
<1>1. /\ DOMAIN counters' \subseteq DOMAIN counters
      /\ \A j \in DOMAIN counters' : counters'[j] = counters[j]
      /\ counters' \in [DOMAIN counters' -> 0 .. MaxSignatures]
  BY DEF PasskeyInv, PasskeyTypes, RevokeKeyDelete, DeleteKey, MapDelete
<1>2. PasskeyTypes' /\ IsFiniteSet(asserted)'
  BY <1>1, PasskeyGoesOn, QuietPasskeyIsWell
     DEF PasskeyInv, PasskeyTypes, RevokeKeyDelete, KeyEnds, challengeVars, authenticatorVars,
         passkeyHistory
<1>3. CounterCoversPaid' /\ AssertionPaysOnce'
  BY <1>1 DEF PasskeyInv, CounterCoversPaid, AssertionPaysOnce, RevokeKeyDelete, passkeyHistory
<1> QED BY <1>2, <1>3, PasskeyGoesOn, QuietPasskeyIsWell DEF PasskeyInv, RevokeKeyDelete, KeyEnds

LEMMA PasskeyBeginSteps ==
  ASSUME PasskeyInv, NEW c \in PasskeyCalls,
         \/ \E k \in Keys : RegisterBegin(c, k) \/ RevokeKeyBegin(c, k)
         \/ \E a \in asserted : AuthenticateBegin(c, a)
  PROVE  PasskeyInv'
<1>1. CASE \E k \in Keys : RegisterBegin(c, k)
  <2>1. PICK k \in Keys : RegisterBegin(c, k)
    BY <1>1
  <2>2. [pc |-> "save", key |-> k] \in PasskeyLocals /\ Checked([pc |-> "save", key |-> k])
    BY DEF PasskeyLocals, Checked
  <2> QED BY <2>1, <2>2, PasskeyLocalStep DEF RegisterBegin
<1>2. CASE \E k \in Keys : RevokeKeyBegin(c, k)
  <2>1. PICK k \in Keys : RevokeKeyBegin(c, k)
    BY <1>2
  <2>2. [pc |-> "delete", key |-> k] \in PasskeyLocals /\ Checked([pc |-> "delete", key |-> k])
    BY DEF PasskeyLocals, Checked
  <2> QED BY <2>1, <2>2, PasskeyLocalStep DEF RevokeKeyBegin
<1>3. CASE \E a \in asserted : AuthenticateBegin(c, a)
  <2>1. PICK a \in asserted : AuthenticateBegin(c, a)
    BY <1>3
  <2>2. a \in Assertions
    BY DEF PasskeyInv, PasskeyTypes
  <2>3. /\ [pc |-> "find", assertion |-> a] \in PasskeyLocals
        /\ Checked([pc |-> "find", assertion |-> a])
    BY <2>2 DEF PasskeyLocals, Checked
  <2> QED BY <2>1, <2>3, PasskeyLocalStep DEF AuthenticateBegin
<1> QED BY <1>1, <1>2, <1>3

-----------------------------------------------------------------------------
(* Authentication *)

LEMMA PasskeyFindStep ==
  ASSUME PasskeyInv, NEW c \in PasskeyCalls, AuthenticateFind(c)
  PROVE  PasskeyInv'
<1> DEFINE a == passkeyCall[c].assertion
           r == [pc |-> "count", assertion |-> a, seen |-> counters[a.key]]
<1>1. a \in Assertions
  BY LocalsOf DEF AuthenticateFind, KeyAt
<1>2. CASE Accepted(a)
  <2>1. r \in PasskeyLocals
    BY <1>1, <1>2 DEF Accepted, PasskeyLocals, PasskeyInv, PasskeyTypes
  <2>2. Checked(r)
    BY <1>2 DEF Accepted, Checked
  <2>3. KeyGoesOn(c, r)
    BY <1>2 DEF AuthenticateFind
  <2> HIDE DEF r
  <2> QED BY <2>1, <2>2, <2>3, PasskeyLocalStep DEF AuthenticateFind
<1>3. CASE ~Accepted(a)
  BY <1>3, PasskeyLocalStep, QuietPasskeyIsWell DEF AuthenticateFind, KeyEnds
<1> QED BY <1>2, <1>3

\* The counter is written as it was checked, or its key is marked as written over.
LEMMA PasskeyCountStep ==
  ASSUME PasskeyInv, NEW c \in PasskeyCalls, AuthenticateCount(c)
  PROVE  PasskeyInv'
<1> DEFINE a == passkeyCall[c].assertion
           seen == passkeyCall[c].seen
<1>1. /\ a \in Assertions /\ a.key \in Keys /\ a.count \in 0 .. MaxSignatures
      /\ seen \in 0 .. MaxSignatures /\ passkeyCall[c].pc = "count"
  BY LocalsOf DEF AuthenticateCount, KeyAt, Assertions
<1>2. a.count > seen \/ (a.count = 0 /\ seen = 0)
  BY <1>1 DEF PasskeyInv, Checked
<1>3. /\ rewritten \subseteq rewritten' /\ rewritten' \subseteq Keys
      /\ a.key \notin rewritten' => a.key \in DOMAIN counters /\ counters[a.key] = seen
  BY <1>1 DEF AuthenticateCount, PasskeyInv, PasskeyTypes
<1>4. /\ DOMAIN counters' = DOMAIN counters
      /\ a.key \in DOMAIN counters => counters'[a.key] = a.count
      /\ \A j \in DOMAIN counters \ {a.key} : counters'[j] = counters[j]
      /\ counters' \in [DOMAIN counters' -> 0 .. MaxSignatures]
  BY <1>1 DEF AuthenticateCount, CountKey, MapSet, PasskeyInv, PasskeyTypes
<1>5. /\ paid' \in [Assertions -> Nat] /\ paid'[a] = paid[a] + 1
      /\ \A b \in Assertions \ {a} : paid'[b] = paid[b]
  BY <1>1 DEF AuthenticateCount, PasskeyInv, PasskeyTypes
<1>6. PasskeyTypes' /\ IsFiniteSet(asserted)'
  BY <1>3, <1>4, <1>5, PasskeyGoesOn, QuietPasskeyIsWell
     DEF PasskeyInv, PasskeyTypes, AuthenticateCount, KeyEnds, challengeVars, authenticatorVars
<1>7. ASSUME NEW b \in Assertions, b.key \in DOMAIN counters' \ rewritten', paid'[b] > 0
      PROVE  b.count <= counters'[b.key]
  <2>1. CASE b.key # a.key
    BY <2>1, <1>3, <1>4, <1>5, <1>7 DEF PasskeyInv, CounterCoversPaid
  <2>2. CASE b = a
    BY <2>2, <1>1, <1>4, <1>7
  <2>3. CASE b # a /\ b.key = a.key
    <3>1. b.count <= seen
      BY <2>3, <1>3, <1>4, <1>5, <1>7 DEF PasskeyInv, CounterCoversPaid
    <3>2. b.count \in 0 .. MaxSignatures
      BY DEF Assertions
    <3> QED BY <3>1, <3>2, <2>3, <1>1, <1>2, <1>4, <1>7
  <2> QED BY <2>1, <2>2, <2>3
<1>8. ASSUME NEW b \in Assertions, b.count > 0, b.key \notin rewritten'
      PROVE  paid'[b] <= 1
  <2>1. CASE b # a
    BY <2>1, <1>3, <1>5, <1>8 DEF PasskeyInv, AssertionPaysOnce
  <2>2. CASE b = a
    <3>1. a.key \in DOMAIN counters \ rewritten /\ counters[a.key] = seen /\ a.count > seen
      BY <2>2, <1>1, <1>2, <1>3, <1>8
    <3>2. ~(paid[a] > 0)
      BY <3>1, <1>1 DEF PasskeyInv, CounterCoversPaid
    <3>3. paid[a] \in Nat
      BY <1>1 DEF PasskeyInv, PasskeyTypes
    <3> QED BY <2>2, <3>2, <3>3, <1>5
  <2> QED BY <2>1, <2>2
<1> QED BY <1>6, <1>7, <1>8, PasskeyGoesOn, QuietPasskeyIsWell
           DEF PasskeyInv, CounterCoversPaid, AssertionPaysOnce, AuthenticateCount, KeyEnds

-----------------------------------------------------------------------------
(* The specification *)

LEMMA InitPasskeyInv == PasskeyInit => PasskeyInv
BY FS_EmptySet, QuietPasskeyIsWell, PasskeyAssumption
   DEF PasskeyInit, PasskeyInv, PasskeyTypes, CounterCoversPaid, AssertionPaysOnce, EmptyMap

LEMMA NextKeepsPasskeyInv == PasskeyInv /\ [PasskeyNext]_passkeyVars => PasskeyInv'
<1> SUFFICES ASSUME PasskeyInv, [PasskeyNext]_passkeyVars PROVE PasskeyInv'
  OBVIOUS
<1>1. CASE UNCHANGED passkeyVars
  BY <1>1 DEF passkeyVars, challengeVars, authenticatorVars, passkeyHistory,
              PasskeyInv, PasskeyTypes, CounterCoversPaid, AssertionPaysOnce
<1>2. ASSUME NEW c \in PasskeyCalls, PasskeyAbort(c) PROVE PasskeyInv'
  BY <1>2, PasskeyLocalStep, QuietPasskeyIsWell DEF PasskeyAbort, KeyEnds
<1> QED
  BY <1>1, <1>2, ChallengeSteps, AttestStep, SignStep, PasskeyBeginSteps, PasskeySaveStep, PasskeyDeleteStep,
     PasskeyFindStep, PasskeyCountStep DEF PasskeyNext

LEMMA PasskeyInvariance == PasskeySpec => []PasskeyInv
BY InitPasskeyInv, NextKeepsPasskeyInv, PTL DEF PasskeySpec

\* Stores, authenticators and the locals of the requests keep their types.
THEOREM PasskeysTyped == PasskeySpec => []PasskeyTypes
<1>1. PasskeyInv => PasskeyTypes
  BY DEF PasskeyInv
<1> QED BY <1>1, PasskeyInvariance, PTL

\* An assertion with a counter is accepted once while its key is stored, unless a
\* counter was written over one that had not been read.
THEOREM AcceptedOnce == PasskeySpec => []AssertionPaysOnce
<1>1. PasskeyInv => AssertionPaysOnce
  BY DEF PasskeyInv
<1> QED BY <1>1, PasskeyInvariance, PTL

(***************************************************************************)
(* PasskeyList: for any number of keys, calls of the hook and lists.       *)
(***************************************************************************)

\* A request of the hook: on its way, answered or failed.
Replies == {Waiting, Failed} \union [at : {"browser"}, ok : {TRUE}, value : SUBSET HookKeys]

\* The locals of a call, for so many lists asked for and these keys made.
HookLocals(lists, made) ==
  {Resting}
    \union [pc : {"list"}, nth : 1 .. lists, req : Replies]
    \union [pc : {"options"}, req : Replies]
    \union [pc : {"finish"}, key : made, req : Replies]
    \union [pc : {"revoke"}, key : HookKeys, req : Replies]

HookStateTypes ==
  /\ account \subseteq madeKeys /\ madeKeys \subseteq HookKeys
  /\ shown \subseteq HookKeys /\ loading \in BOOLEAN /\ failed \in BOOLEAN
  /\ sent \in 0 .. MaxLists /\ applied \in 0 .. sent

HookCallTypes == hookCall \in [HookCalls -> HookLocals(sent, madeKeys)]

Changing == \E c \in HookCalls : hookCall[c].pc \in {"options", "finish", "revoke"}

\* The request is the list asked for last, and it was answered.
AnswersLast(r, last) == r.pc = "list" /\ r.nth = last /\ r.req \notin {Waiting, Failed}

\* While no change is in flight and none has failed, the list asked for last has the
\* keys of the account, on the page once it was applied and in its answer before.
Picture ==
  failed = FALSE /\ ~Changing =>
    /\ applied = sent /\ loading = FALSE => shown = account
    /\ \A c \in HookCalls : AnswersLast(hookCall[c], sent) => hookCall[c].req.value = account

HookInv == HookStateTypes /\ HookCallTypes /\ Picture

LEMMA RepliesAre ==
  /\ Waiting \in Replies /\ Failed \in Replies
  /\ \A v \in SUBSET HookKeys : Answered(v) \in Replies /\ Answered(v).value = v
  /\ \A q \in Replies \ {Waiting, Failed} : q.value \in SUBSET HookKeys
BY DEF Replies, Answered, Waiting, Failed

\* A call goes on; the other calls are as well typed as before.
LEMMA HookMoves ==
  ASSUME HookInv, NEW c \in HookCalls, NEW r, HookGoesOn(c, r),
         r \in HookLocals(sent', madeKeys'), sent' \in Nat, sent <= sent',
         madeKeys \subseteq madeKeys'
  PROVE  /\ HookCallTypes'
         /\ \A d \in HookCalls : hookCall'[d] = IF d = c THEN r ELSE hookCall[d]
<1>1. /\ \A d \in HookCalls : hookCall'[d] = IF d = c THEN r ELSE hookCall[d]
      /\ hookCall' = [d \in HookCalls |-> hookCall'[d]]
  BY DEF HookInv, HookCallTypes, HookGoesOn
<1>2. sent \in Nat /\ \A n \in 1 .. sent : n \in 1 .. sent'
  BY HookAssumption DEF HookInv, HookStateTypes
<1>3. \A d \in HookCalls : hookCall[d] \in HookLocals(sent', madeKeys')
  BY <1>2 DEF HookInv, HookCallTypes, HookLocals
<1> QED BY <1>1, <1>3 DEF HookCallTypes

\* While a change is in flight, or one has failed, the page may be behind.
LEMMA MayBeBehind ==
  ASSUME HookInv, NEW c \in HookCalls, NEW r, HookGoesOn(c, r),
         r \in HookLocals(sent, madeKeys'), HookStateTypes', UNCHANGED sent,
         madeKeys \subseteq madeKeys',
         r.pc \in {"options", "finish", "revoke"} \/ failed' = TRUE
  PROVE  HookInv'
<1>1. sent' \in Nat /\ sent <= sent'
  BY HookAssumption DEF HookInv, HookStateTypes
<1>2. HookCallTypes' /\ hookCall'[c] = r
  BY <1>1, HookMoves
<1>3. failed' = TRUE \/ Changing'
  BY <1>2 DEF Changing
<1> QED BY <1>2, <1>3 DEF HookInv, Picture

\* Whoever asks for the list makes every earlier list one that is not the last.
LEMMA ReloadStep ==
  ASSUME HookInv, NEW c \in HookCalls, Reload(c), UNCHANGED <<account, madeKeys, shown, applied>>
  PROVE  HookInv'
<1> DEFINE r == [pc |-> "list", nth |-> sent + 1, req |-> Waiting]
<1>1. /\ sent \in Nat /\ MaxLists \in Nat /\ sent < MaxLists /\ sent' = sent + 1
      /\ applied \in 0 .. sent
  BY HookAssumption DEF HookInv, HookStateTypes, Reload
<1>2. HookStateTypes'
  <2>1. sent' \in 0 .. MaxLists /\ applied' \in 0 .. sent'
    BY <1>1
  <2> QED BY <2>1 DEF HookInv, HookStateTypes, Reload
<1>3. r \in HookLocals(sent', madeKeys')
  BY <1>1, RepliesAre DEF HookLocals
<1>4. /\ HookCallTypes'
      /\ \A d \in HookCalls : hookCall'[d] = IF d = c THEN r ELSE hookCall[d]
  BY <1>1, <1>3, HookMoves DEF Reload
<1>5. ASSUME NEW d \in HookCalls PROVE ~AnswersLast(hookCall'[d], sent')
  <2>1. CASE d = c
    BY <1>4, <2>1 DEF AnswersLast
  <2>2. CASE d # c
    <3>1. hookCall[d].pc = "list" => hookCall[d].nth \in 1 .. sent
      BY DEF HookInv, HookCallTypes, HookLocals, Resting
    <3> QED BY <1>1, <1>4, <2>2, <3>1 DEF AnswersLast
  <2> QED BY <2>1, <2>2
<1>6. applied' # sent'
  BY <1>1
<1> QED BY <1>2, <1>4, <1>5, <1>6 DEF HookInv, Picture

\* The server acts on a request, or it is lost.
LEMMA ServerSteps ==
  ASSUME HookInv, NEW c \in HookCalls, Serve(c) \/ Refuse(c)
  PROVE  HookInv'
<1>1. PICK call : call = hookCall[c]
  OBVIOUS
<1>2. call \in HookLocals(sent, madeKeys) \ {Resting} /\ account \in SUBSET HookKeys
  BY <1>1 DEF HookInv, HookCallTypes, HookStateTypes, Serve, Refuse, HookAt, Resting
<1>3. PICK q \in {Answered(account), Failed} : hookCall' = [hookCall EXCEPT ![c].req = q]
  BY DEF Serve, Refuse
<1>4. q \in Replies
  BY <1>2, <1>3, RepliesAre
<1>5. PICK r : r = [call EXCEPT !.req = q]
  OBVIOUS
<1>6. /\ r \in HookLocals(sent, madeKeys) /\ r.pc = call.pc /\ r.req = q
      /\ r.pc = "list" => r.nth = call.nth
  BY <1>2, <1>4, <1>5 DEF HookLocals
<1>7. HookGoesOn(c, r)
  BY <1>1, <1>3, <1>5 DEF HookGoesOn
<1>8. /\ UNCHANGED <<madeKeys, hookState, sent, applied>>
      /\ account' = account \/ call.pc \in {"finish", "revoke"}
      /\ account' \subseteq madeKeys
  <2>1. call.pc = "finish" => call.key \in madeKeys
    BY <1>2 DEF HookLocals, Resting
  <2>2. CASE Serve(c)
    BY <1>1, <2>1, <2>2 DEF Serve, HookAt, HookInv, HookStateTypes
  <2>3. CASE Refuse(c)
    BY <2>3 DEF Refuse, HookInv, HookStateTypes
  <2> QED BY <2>2, <2>3
<1>9. HookStateTypes'
  BY <1>8 DEF HookInv, HookStateTypes, hookState
<1>10. CASE call.pc \in {"finish", "revoke"}
  <2>1. r.pc \in {"options", "finish", "revoke"} /\ UNCHANGED <<sent, madeKeys>>
    BY <1>6, <1>8, <1>10
  <2> QED BY <1>6, <1>7, <1>9, <2>1, MayBeBehind
<1>11. CASE call.pc \notin {"finish", "revoke"}
  <2>1. UNCHANGED <<account, madeKeys, shown, loading, failed, sent, applied>>
    BY <1>8, <1>11 DEF hookState
  <2>2. sent' \in Nat /\ sent <= sent'
    BY <2>1, HookAssumption DEF HookInv, HookStateTypes
  <2>3. /\ HookCallTypes'
        /\ \A d \in HookCalls : hookCall'[d] = IF d = c THEN r ELSE hookCall[d]
    BY <1>6, <1>7, <2>1, <2>2, HookMoves
  <2>4. Changing' <=> Changing
    BY <1>1, <1>6, <2>3 DEF Changing
  <2>5. AnswersLast(r, sent) => r.req.value = account
    BY <1>2, <1>3, <1>6, RepliesAre DEF AnswersLast
  <2>6. Picture'
    <3> SUFFICES ASSUME failed = FALSE, ~Changing
                 PROVE  /\ applied = sent /\ loading = FALSE => shown = account
                        /\ \A d \in HookCalls : AnswersLast(hookCall'[d], sent') =>
                              hookCall'[d].req.value = account
      BY <2>1, <2>4 DEF Picture
    <3>1. \A d \in HookCalls : AnswersLast(hookCall'[d], sent') <=> AnswersLast(hookCall'[d], sent)
      BY <2>1 DEF AnswersLast
    <3> QED BY <2>3, <2>5, <3>1 DEF HookInv, Picture
  <2> QED BY <1>9, <2>3, <2>6 DEF HookInv
<1> QED BY <1>10, <1>11

\* The answer to a list is shown.
LEMMA ReloadEndStep ==
  ASSUME HookInv, NEW c \in HookCalls, ReloadEnd(c)
  PROVE  HookInv'
<1>1. PICK call : call = hookCall[c]
  OBVIOUS
<1>2. /\ call \in [pc : {"list"}, nth : 1 .. sent, req : Replies \ {Waiting}]
      /\ UNCHANGED <<account, madeKeys, sent>>
      /\ loading' = FALSE /\ applied' = call.nth /\ HookGoesOn(c, Resting)
  <2>1. call \in [pc : {"list"}, nth : 1 .. sent, req : Replies] /\ call.req.at = "browser"
    BY <1>1 DEF HookInv, HookCallTypes, HookLocals, ReloadEnd, HookAt, HasAnswer, Resting
  <2>2. call.req # Waiting
    BY <2>1 DEF Waiting
  <2> QED BY <1>1, <2>1, <2>2 DEF ReloadEnd
<1>3. sent \in Nat /\ Resting \in HookLocals(sent, madeKeys)
  BY HookAssumption DEF HookInv, HookStateTypes, HookLocals
<1>4. /\ HookCallTypes'
      /\ \A d \in HookCalls : hookCall'[d] = IF d = c THEN Resting ELSE hookCall[d]
  BY <1>2, <1>3, HookMoves
<1>5. applied' \in 0 .. sent'
  BY <1>2, <1>3
<1>6. CASE call.req = Failed
  <2>1. shown' = {} /\ failed' = TRUE
    BY <1>1, <1>6 DEF ReloadEnd, Failed
  <2>2. HookStateTypes'
    BY <1>2, <1>5, <2>1 DEF HookInv, HookStateTypes
  <2> QED BY <1>4, <2>1, <2>2 DEF HookInv, Picture
<1>7. CASE call.req # Failed
  <2>1. /\ call.req.value \in SUBSET HookKeys /\ call.req.ok = TRUE
        /\ shown' = call.req.value /\ failed' = failed
    <3>1. call.req \in [at : {"browser"}, ok : {TRUE}, value : SUBSET HookKeys]
      BY <1>2, <1>7 DEF Replies
    <3> QED BY <1>1, <3>1 DEF ReloadEnd
  <2>2. HookStateTypes'
    BY <1>2, <1>5, <2>1 DEF HookInv, HookStateTypes
  <2>3. Changing' <=> Changing
    BY <1>1, <1>2, <1>4 DEF Changing, Resting
  <2>4. Picture'
    <3> SUFFICES ASSUME failed = FALSE, ~Changing
                 PROVE  /\ call.nth = sent => call.req.value = account
                        /\ \A d \in HookCalls : AnswersLast(hookCall'[d], sent') =>
                              hookCall'[d].req.value = account
      BY <1>2, <2>1, <2>3 DEF Picture
    <3>1. call.nth = sent => AnswersLast(hookCall[c], sent)
      BY <1>1, <1>2, <1>7 DEF AnswersLast
    <3>2. \A d \in HookCalls : AnswersLast(hookCall'[d], sent') =>
            AnswersLast(hookCall[d], sent) /\ hookCall'[d] = hookCall[d]
      BY <1>2, <1>4 DEF AnswersLast, Resting
    <3> QED BY <1>1, <3>1, <3>2 DEF HookInv, Picture
  <2> QED BY <1>4, <2>2, <2>4 DEF HookInv
<1> QED BY <1>6, <1>7

\* A change begins, goes on or fails.
LEMMA ChangeStep ==
  ASSUME HookInv, NEW c \in HookCalls,
         \/ AddBegin(c) \/ ChangeFail(c)
         \/ \E k \in HookKeys : AddCreate(c, k)
         \/ \E k \in HookKeys : RevokeBegin(c, k)
  PROVE  HookInv'
<1>1. CASE AddBegin(c)
  <2>1. [pc |-> "options", req |-> Waiting] \in HookLocals(sent, madeKeys)
    BY RepliesAre DEF HookLocals
  <2>2. HookStateTypes' /\ UNCHANGED <<sent, madeKeys>>
    BY <1>1 DEF AddBegin, HookInv, HookStateTypes
  <2> QED BY <1>1, <2>1, <2>2, MayBeBehind DEF AddBegin
<1>2. CASE ChangeFail(c)
  <2>1. Resting \in HookLocals(sent, madeKeys)
    BY DEF HookLocals
  <2>2. HookStateTypes' /\ UNCHANGED <<sent, madeKeys>> /\ failed' = TRUE
    BY <1>2 DEF ChangeFail, HookInv, HookStateTypes
  <2> QED BY <1>2, <2>1, <2>2, MayBeBehind DEF ChangeFail
<1>3. ASSUME NEW k \in HookKeys, AddCreate(c, k) PROVE HookInv'
  <2>1. /\ Asking("finish", k) \in HookLocals(sent, madeKeys \union {k})
        /\ Asking("finish", k).pc = "finish"
    BY RepliesAre DEF HookLocals, Asking
  <2>2. /\ HookStateTypes' /\ UNCHANGED sent /\ madeKeys' = madeKeys \union {k}
        /\ HookGoesOn(c, Asking("finish", k))
    BY <1>3 DEF AddCreate, HookInv, HookStateTypes, hookState
  <2> QED BY <2>1, <2>2, MayBeBehind
<1>4. ASSUME NEW k \in HookKeys, RevokeBegin(c, k) PROVE HookInv'
  <2>1. /\ Asking("revoke", k) \in HookLocals(sent, madeKeys)
        /\ Asking("revoke", k).pc = "revoke"
    BY RepliesAre DEF HookLocals, Asking
  <2>2. HookStateTypes' /\ UNCHANGED <<sent, madeKeys>> /\ HookGoesOn(c, Asking("revoke", k))
    BY <1>4 DEF RevokeBegin, HookInv, HookStateTypes
  <2> QED BY <2>1, <2>2, MayBeBehind
<1> QED BY <1>1, <1>2, <1>3, <1>4

LEMMA InitHookInv == HookInit => HookInv
<1> SUFFICES ASSUME HookInit PROVE HookInv
  OBVIOUS
<1>1. HookStateTypes
  <2>1. 0 \in 0 .. MaxLists /\ 0 \in 0 .. 0
    BY HookAssumption
  <2>2. {} \subseteq HookKeys
    OBVIOUS
  <2> QED BY <2>1, <2>2 DEF HookInit, HookStateTypes
<1>2. HookCallTypes
  BY DEF HookInit, HookCallTypes, HookLocals
<1>3. Picture
  BY DEF HookInit, Picture, AnswersLast, Resting
<1> QED BY <1>1, <1>2, <1>3 DEF HookInv

LEMMA NextKeepsHookInv == HookInv /\ [HookNext]_hookVars => HookInv'
<1> SUFFICES ASSUME HookInv, [HookNext]_hookVars PROVE HookInv'
  OBVIOUS
<1>1. CASE UNCHANGED hookVars
  BY <1>1 DEF hookVars, hookState, HookInv, HookStateTypes, HookCallTypes, Picture, AnswersLast,
              Changing
<1> QED BY <1>1, ServerSteps, ReloadStep, ReloadEndStep, ChangeStep
        DEF HookNext, ReloadBegin, ChangeEnd

LEMMA HookInvariance == HookSpec => []HookInv
BY InitHookInv, NextKeepsHookInv, PTL DEF HookSpec

\* The hook's state, its calls and the account keep their types.
THEOREM HookTyped == HookSpec => []HookTypes
<1>1. HookInv => HookTypes
  BY DEF HookInv, HookStateTypes, HookCallTypes, HookLocals, Resting, HookTypes
<1> QED BY <1>1, HookInvariance, PTL

\* However the calls of the hook overlapped and whatever failed before: with nothing
\* in flight and no error shown, the page shows the keys of the account, if the list
\* asked for last was applied last (usePasskeys).
THEOREM ListComesRight == HookSpec => []ListSettles
<1>1. HookInv => ListSettles
  BY DEF HookInv, HookStateTypes, Picture, Changing, ListSettles, HookAt
<1> QED BY <1>1, HookInvariance, PTL

(***************************************************************************)
(* The components together, as the model checker runs them.                *)
(***************************************************************************)

TogetherInv ==
  /\ LinksInv /\ PasswordInv /\ ErasureInv /\ PasskeyInv /\ HookInv /\ SsoInv
  /\ focus \in {"accounts", "erasure", "passkeys", "list", "sso"}

LEMMA TogetherInvariance == Spec => []TogetherInv
<1>1. Init => TogetherInv
  BY InitLinksInv, InitPasswordInv, InitErasureInv, InitPasskeyInv, InitHookInv, InitSsoInv
     DEF Init, TogetherInv
<1>2. TogetherInv /\ [Next]_vars => TogetherInv'
  <2> SUFFICES ASSUME TogetherInv, [Next]_vars PROVE TogetherInv'
    OBVIOUS
  <2>1. /\ [AccountNext]_accountVars /\ [ErasureNext]_erasureVars /\ [PasskeyNext]_passkeyVars
        /\ [HookNext]_hookVars /\ [SsoNext]_ssoVars /\ UNCHANGED focus
    BY DEF Next, vars, AccountStep, ErasureStep, PasskeyStep, HookStep, SsoStep
  <2>2. LinksInv' /\ PasswordInv'
    BY <2>1, NextKeepsLinksInv, NextKeepsPasswordInv DEF TogetherInv
  <2>3. ErasureInv' /\ PasskeyInv'
    BY <2>1, NextKeepsErasureInv, NextKeepsPasskeyInv DEF TogetherInv
  <2>4. HookInv' /\ SsoInv'
    BY <2>1, NextKeepsHookInv, NextKeepsSsoInv DEF TogetherInv
  <2> QED BY <2>1, <2>2, <2>3, <2>4 DEF TogetherInv
<1> QED BY <1>1, <1>2, PTL DEF Spec

\* Whichever component a behaviour follows keeps its types: the tables, the erasure,
\* the passkeys and their challenges, the hook and the sessions of single sign-on.
THEOREM AccountsTyped == Spec => []TypeOK
<1>1. LinksInv => AccountTypes
  BY TypesAre DEF LinksInv
<1>2. ErasureInv => ErasureTypes
  BY DEF ErasureInv
<1>3. PasskeyInv => PasskeyTypes
  BY DEF PasskeyInv
<1>4. HookInv => HookTypes
  BY DEF HookInv, HookStateTypes, HookCallTypes, HookLocals, Resting, HookTypes
<1>5. SsoInv => SsoTypes
  BY DEF SsoInv
<1>6. TogetherInv => TypeOK
  BY <1>1, <1>2, <1>3, <1>4, <1>5 DEF TogetherInv, TypeOK
<1> QED BY <1>6, TogetherInvariance, PTL
=============================================================================
