------------------------------ MODULE Directory ------------------------------
(***************************************************************************)
(* Users and groups of one organization as its directory writes them:      *)
(* user-provisioning.ts, group-sync.ts and soft-delete.ts, entered through *)
(* scim-server.ts, scim-bulk.ts, scim-webhook.ts and directory-sync.ts,    *)
(* with the announcements of realtime-webhook.ts to one subscriber.        *)
(*                                                                         *)
(* A request is a slot c \in Calls and a sequence of operations:           *)
(*   "scim"   one operation of the SCIM server                             *)
(*   "bulk"   the operations of a bulk request, in order                   *)
(*   "event"  one event of the directory's webhook                         *)
(*   "sync"   a whole directory: its users, its groups, then the removal   *)
(*            of users that are not in it                                  *)
(* and its operations are:                                                 *)
(*   "push"    provisionUser                                               *)
(*   "put"     PUT or PATCH of a user                                      *)
(*   "remove"  deprovisionUser                                             *)
(*   "group"   syncGroup, and with prune the rest of syncGroups            *)
(*   "regroup" PUT or PATCH of a group                                     *)
(*   "ungroup" deletion of a group                                         *)
(* Each awaited store operation and each delivery is a step.  Every caller *)
(* but PATCH says whether the user is active (true unless said otherwise). *)
(* Malformed operations are left out; in a bulk request they count as      *)
(* errors, as a reference that resolves to nothing does.                   *)
(***************************************************************************)
EXTENDS Integers, Sequences, FiniteSets, Maps

CONSTANTS
  Users, Groups,     \* bounds: the ids the stores may draw; none twice
  Emails, AllowedEmails,
  ExternalIds,       \* of users and of groups
  Calls,             \* request slots, a bound on the requests in flight
  Requests,          \* what a request may ask
  InitialUsers,      \* what the user store may hold at first
  MaxStarted,        \* bound: requests ever started
  NULL

ASSUME DirectoryAssumption ==
  /\ AllowedEmails \subseteq Emails
  /\ NULL \notin Users \union Groups \union Emails \union ExternalIds
  /\ Users \intersect Groups = {} /\ Emails \intersect ExternalIds = {}
  /\ IsFiniteSet(Calls) /\ MaxStarted \in Nat

\* What a request may name a member by.
References == Users \union ExternalIds \union Emails

Operations ==
  [kind : {"push", "put", "remove", "group", "regroup", "ungroup"},
   target : Users \union Groups \union ExternalIds \union {NULL},
   email : Emails \union {NULL}, externalId : ExternalIds \union {NULL},
   active : BOOLEAN \union {NULL},
   members : (SUBSET References) \union {NULL}, byReference : BOOLEAN,
   prune : {"no", "soft", "hard"}]

\* A user is pushed as active or not; events have no PUT; a synchronization has users
\* and groups, and only it removes users not given.
ASSUME RequestsAssumption ==
  \A r \in Requests :
    /\ r \in [via : {"scim", "bulk", "event", "sync"}, ops : Seq(Operations),
             failOnErrors : Nat, prune : {"no", "soft", "hard"}]
    /\ r.prune # "no" => r.via = "sync"
    /\ \A i \in DOMAIN r.ops :
         /\ r.ops[i].kind = "push" => r.ops[i].active \in BOOLEAN
         /\ r.ops[i].kind = "put" => r.via \in {"scim", "bulk"}
         /\ r.via = "sync" => r.ops[i].kind \in {"push", "group"}

UserRows ==
  [email : Emails, externalId : ExternalIds \union {NULL}, active : BOOLEAN, deleted : BOOLEAN]

\* A user store starts with one user at most for every external id.
ASSUME InitialUsersAssumption ==
  \A store \in InitialUsers :
    /\ DOMAIN store \subseteq Users /\ store \in [DOMAIN store -> UserRows]
    /\ \A u \in DOMAIN store : store[u].deleted => ~store[u].active
    /\ \A u, v \in DOMAIN store :
         store[u].externalId # NULL /\ store[u].externalId = store[v].externalId => u = v

VARIABLES
  users,      \* id -> [email, externalId, active, deleted]; deleted: softly
  groups,     \* id -> [externalId, active, members]
  calls,      \* the local variables of every request
  drawn,      \* ids ever drawn
  told,       \* whether the last event the subscriber heard of a user says active
  excused,    \* users of whom the subscriber may have a wrong picture (history)
  contested,  \* external ids two requests were busy with at once, or given by PUT (history)
  started     \* requests started

stores == <<users, groups, drawn>>
vars == <<stores, calls, told, excused, contested, started>>

Idle == [pc |-> "idle", request |-> NULL, at |-> 0, user |-> NULL, read |-> NULL,
         status |-> FALSE, group |-> NULL, key |-> NULL, refs |-> {}, members |-> {},
         doomed |-> {}, made |-> EmptyMap, errors |-> 0, half |-> NULL, own |-> {}]

Init ==
  /\ users \in InitialUsers
  /\ groups = EmptyMap
  /\ calls = [c \in Calls |-> Idle]
  /\ drawn = DOMAIN users
  /\ told = [u \in Users |-> u \in DOMAIN users /\ users[u].active]
  /\ excused = {}
  /\ contested = {}
  /\ started = 0

-----------------------------------------------------------------------------
(* The stores' lookups.  A soft deletion hides a user from its external id, *)
(* an inactive user is hidden from its address, an id always works.         *)

FindByExternalId(x) == {u \in DOMAIN users : users[u].externalId = x /\ ~users[u].deleted}
FindByEmail(e) == {u \in DOMAIN users : users[u].email = e /\ users[u].active}
Find(ref) == IF ref \in DOMAIN users THEN {ref} ELSE FindByExternalId(ref)
FindGroupByExternalId(x) == {g \in DOMAIN groups : groups[g].externalId = x /\ groups[g].active}
FindGroup(ref) == IF ref \in DOMAIN groups THEN {ref} ELSE FindGroupByExternalId(ref)

\* A plausible bug: what was not given overwrites what was there.
UpdatedBlindly(u, email, externalId, active) ==
  [email |-> email, externalId |-> externalId, active |-> active, deleted |-> FALSE]

\* store.update: what is NULL is kept; the user is listed again.
Updated(u, email, externalId, active) ==
  [email |-> IF email = NULL THEN users[u].email ELSE email,
   externalId |-> IF externalId = NULL THEN users[u].externalId ELSE externalId,
   active |-> IF active = NULL THEN users[u].active ELSE active,
   deleted |-> FALSE]

-----------------------------------------------------------------------------
(* The way of a request through its operations. *)

Via(k) == k.request.via
InOps(k) == k.at \in 1 .. Len(k.request.ops)
Op(k) == k.request.ops[k.at]
Kind(k) == IF InOps(k) THEN Op(k).kind ELSE "prune"

\* Once its members are known, a group is written: by id in the SCIM
\* server's PUT and PATCH, by external id everywhere else.
MembersKnown(k) ==
  [k EXCEPT !.pc = IF k.refs # {} THEN "members"
                   ELSE IF Kind(k) = "regroup" /\ Via(k) = "scim" THEN "updateGroup"
                   ELSE "findGroup"]

\* Members given by reference to earlier operations need no lookup, and
\* neither do those of a PATCH, which are taken as they come, ids or not.
Resolved(k, op) ==
  IF op.members = NULL \/ ~op.byReference THEN {}
  ELSE IF Via(k) = "scim" THEN op.members
  ELSE {k.made[x] : x \in op.members \intersect DOMAIN k.made}

\* POST of a user, "user.created" and a user of the source: a provisionUser.
Provision(k, op) ==
  [k EXCEPT !.pc = IF op.externalId = NULL THEN "email" ELSE "external"]

Enter(k, n) ==
  LET op == k.request.ops[n]
      fresh == [k EXCEPT !.at = n, !.user = NULL, !.read = NULL, !.group = NULL, !.half = NULL,
                  !.key = IF op.kind = "group" THEN op.externalId ELSE NULL,
                  !.refs = IF op.members = NULL \/ op.byReference THEN {} ELSE op.members,
                  !.members = Resolved(k, op)]
  IN  CASE op.kind = "push" -> Provision(fresh, op)
        [] op.kind \in {"put", "remove"} -> [fresh EXCEPT !.pc = "look"]
        [] op.kind \in {"regroup", "ungroup"} -> [fresh EXCEPT !.pc = "lookGroup"]
        [] op.kind = "group" ->
             IF op.externalId = NULL THEN [fresh EXCEPT !.pc = "listGroups"]
             ELSE MembersKnown(fresh)

\* On to the next operation, to the removal of users, or to the end.
After(k) ==
  IF k.at < Len(k.request.ops) THEN Enter(k, k.at + 1)
  ELSE IF k.at <= Len(k.request.ops) /\ k.request.prune # "no"
  THEN [k EXCEPT !.at = k.at + 1, !.pc = "listUsers", !.user = NULL, !.read = NULL,
                 !.half = NULL, !.group = NULL, !.key = NULL, !.members = {}]
  ELSE Idle

\* An operation failed: directory-sync skips a user, a bulk request counts
\* the error and stops at failOnErrors, any other request ends.
Failed(k) ==
  IF Via(k) = "sync" /\ Kind(k) = "push" THEN After(k)
  ELSE IF Via(k) = "bulk" /\ k.request.failOnErrors \notin 1 .. (k.errors + 1)
  THEN After([k EXCEPT !.errors = @ + 1])
  ELSE Idle

\* The external ids a request is busy with.
Busy(k, store) ==
  IF k.pc = "idle" THEN {}
  ELSE ({k.key} \union (IF InOps(k) THEN {Op(k).externalId} ELSE {})
         \union {store[u].externalId : u \in {k.user} \intersect DOMAIN store}) \ {NULL}

\* c goes on as k.  What the histories learn: of the users in lapsed the
\* subscriber may be wrong, as of a user two requests have half done; the
\* ids in given were not looked up; and a user that c has in its hands is no
\* longer as others left it.
Advance(c, k, lapsed, given) ==
  /\ calls' = [d \in Calls |-> IF d = c THEN k
                               ELSE [calls[d] EXCEPT !.own = @ \ {calls[c].user}]]
  /\ excused' = excused \union lapsed
       \union {u \in Users : k.half = u /\ \E d \in Calls \ {c} : calls[d].half = u}
  /\ contested' = contested \union given
       \union UNION {Busy(k, users') \intersect Busy(calls[d], users') : d \in Calls \ {c}}
  /\ UNCHANGED started

Goto(c, k) == Advance(c, k, {}, {})

Begin(c, request) ==
  /\ calls[c].pc = "idle"
  /\ started < MaxStarted
  /\ started' = started + 1
  /\ LET k == After([Idle EXCEPT !.request = request])
     IN  /\ calls' = [calls EXCEPT ![c] = k]
         /\ contested' = contested
              \union UNION {Busy(k, users) \intersect Busy(calls[d], users) : d \in Calls \ {c}}
  /\ UNCHANGED <<stores, told, excused>>

-----------------------------------------------------------------------------
(* provisionUser *)

\* A user is at hand as the lookup found it.
Took(k, u, pc) ==
  [k EXCEPT !.pc = pc, !.user = u,
            !.read = [email |-> users[u].email, externalId |-> users[u].externalId]]

\* A plausible bug: users are told apart by their address alone.
ByExternalIdUnused(c) ==
  /\ calls[c].pc = "external"
  /\ UNCHANGED <<stores, told>>
  /\ Goto(c, [calls[c] EXCEPT !.pc = "email"])

ProvisionByExternalId(c) ==
  LET k == calls[c]
      found == FindByExternalId(Op(k).externalId)
  IN  /\ k.pc = "external"
      /\ UNCHANGED <<stores, told>>
      /\ \/ found = {} /\ Goto(c, [k EXCEPT !.pc = "email"])
         \/ \E u \in found : Goto(c, Took(k, u, "write"))

\* Only the creation of a user looks at the domain of its address.
ProvisionByEmail(c) ==
  LET k == calls[c]
      found == FindByEmail(Op(k).email)
  IN  /\ k.pc = "email"
      /\ UNCHANGED <<stores, told>>
      /\ \/ \E u \in found : Goto(c, Took(k, u, "write"))
         \/ /\ found = {}
            /\ Goto(c, IF Op(k).email \in AllowedEmails THEN [k EXCEPT !.pc = "create"] ELSE Failed(k))

\* The names of a pushed user: in a bulk request the reference the operation
\* gives it (bulkId), in a synchronization what the user was written with.
Names(k) ==
  (IF Via(k) = "bulk" THEN {Op(k).externalId} ELSE {k.read.externalId, k.read.email}) \ {NULL}

\* The user is known to the operations that follow: at once in a bulk
\* request, in a synchronization once its event is delivered.
Known(k, u) ==
  [k EXCEPT !.made = [x \in DOMAIN @ \union Names(k) |-> IF x \in Names(k) THEN u ELSE @[x]]]

\* u is written as row says, and its event not yet delivered.
Wrote(k, u, row) ==
  LET written == [k EXCEPT !.pc = "tell", !.user = u, !.status = row.active, !.half = u,
                           !.read = [email |-> row.email, externalId |-> row.externalId],
                           !.own = IF Via(k) = "sync" THEN @ \union {u} ELSE @]
  IN  IF Via(k) = "bulk" /\ Kind(k) = "push" THEN Known(written, u) ELSE written

CreateUser(c) ==
  LET k == calls[c]
      row == [email |-> Op(k).email, externalId |-> Op(k).externalId, active |-> Op(k).active,
              deleted |-> FALSE]
  IN  /\ k.pc = "create"
      /\ UNCHANGED <<groups, told>>
      /\ \E u \in Users \ drawn :
           /\ users' = MapSet(users, u, row)
           /\ drawn' = drawn \union {u}
           /\ Goto(c, Wrote(k, u, row))

\* An update of a user who is gone is refused, and changes nothing.
UpdateRefused(c) ==
  /\ calls[c].pc = "write"
  /\ UNCHANGED <<stores, told>>
  /\ calls[c].user \notin DOMAIN users
  /\ Goto(c, Failed(calls[c]))

ProvisionUpdate(c) ==
  LET k == calls[c]
      op == Op(k)
      written == Updated(k.user, op.email, op.externalId, op.active)
  IN  /\ k.pc = "write" /\ op.kind = "push"
      /\ UNCHANGED <<groups, drawn, told>>
      /\ k.user \in DOMAIN users
      /\ users' = [users EXCEPT ![k.user] = written]
      /\ Goto(c, Wrote(k, k.user, written))

-----------------------------------------------------------------------------
(* PUT, PATCH and deletion of a user *)

\* The SCIM server and directory-sync announce a deletion before they
\* delete, bulk requests and events afterwards.
TellsFirst(k) == Kind(k) \in {"remove", "prune"} /\ Via(k) \in {"scim", "sync"}

\* An event names its user by external id only.  What is not found is an
\* error to PUT and PATCH, and nothing to do for a deletion.
LookUser(c) ==
  LET k == calls[c]
      op == Op(k)
      ref == IF op.byReference THEN MapGet(k.made, op.target, NULL) ELSE op.target
      found == IF ref = NULL THEN {}
               ELSE IF Via(k) = "event" THEN FindByExternalId(ref) ELSE Find(ref)
      next == IF op.kind = "put" THEN "write" ELSE IF TellsFirst(k) THEN "announce" ELSE "remove"
  IN  /\ k.pc = "look"
      /\ UNCHANGED <<stores, told>>
      /\ \/ found = {} /\ Goto(c, IF op.kind = "put" \/ ref = NULL THEN Failed(k) ELSE After(k))
         \/ \E u \in found : Goto(c, Took(k, u, next))

\* A bulk request writes what it does not change as it read it.
Kept(k, field, value) == IF value = NULL /\ Via(k) = "bulk" THEN k.read[field] ELSE value

\* A bulk request tells of the change; the SCIM server writes what it was given,
\* and tells nobody.
PutUser(c) ==
  LET k == calls[c]
      op == Op(k)
      written == Updated(k.user, Kept(k, "email", op.email),
                         Kept(k, "externalId", op.externalId), op.active)
  IN  /\ k.pc = "write" /\ op.kind = "put"
      /\ UNCHANGED <<groups, drawn, told>>
      /\ k.user \in DOMAIN users
      /\ users' = [users EXCEPT ![k.user] = written]
      /\ Advance(c, IF Via(k) = "bulk" THEN Wrote(k, k.user, written) ELSE After(k),
                 IF Via(k) = "scim" /\ users[k.user].active # written.active THEN {k.user} ELSE {},
                 {written.externalId} \ {NULL})

\* The user is gone, and so is the operation; a removal phase goes on.
Removed(k) ==
  IF Kind(k) = "prune" THEN [k EXCEPT !.pc = "prune", !.user = NULL, !.half = NULL] ELSE After(k)

\* deprovisionUser looks the user up again before it announces.
AnnounceRemoval(c) ==
  LET k == calls[c]
  IN  /\ k.pc = "announce"
      /\ UNCHANGED <<stores, told>>
      /\ Goto(c, IF k.user \in DOMAIN users THEN [k EXCEPT !.pc = "tell", !.status = FALSE]
                 ELSE Removed(k))

RemovesHard(k) == Kind(k) = "prune" /\ k.request.prune = "hard"

\* A plausible bug: a deletion from a bulk request or an event stays untold.
RemoveUntold(c) ==
  LET k == calls[c]
      u == k.user
  IN  /\ k.pc = "remove"
      /\ UNCHANGED <<groups, drawn, told>>
      /\ users' = IF u \notin DOMAIN users THEN users
                  ELSE IF RemovesHard(k) THEN MapDelete(users, {u})
                  ELSE [users EXCEPT ![u].active = FALSE, ![u].deleted = TRUE]
      /\ Goto(c, Removed(k))

\* deprovisionEntity: its lookup and the deletion are one step, for a
\* deletion of a user who is gone does nothing.
RemoveUser(c) ==
  LET k == calls[c]
      u == k.user
  IN  /\ k.pc = "remove"
      /\ UNCHANGED <<groups, drawn, told>>
      /\ users' = IF u \notin DOMAIN users THEN users
                  ELSE IF RemovesHard(k) THEN MapDelete(users, {u})
                  ELSE [users EXCEPT ![u].active = FALSE, ![u].deleted = TRUE]
      /\ Goto(c, IF TellsFirst(k) THEN Removed(k)
                 ELSE [k EXCEPT !.pc = "tell", !.status = FALSE, !.half = u])

-----------------------------------------------------------------------------
(* deliverRealtimeWebhook for one subscriber *)

Told(k) ==
  IF TellsFirst(k) THEN [k EXCEPT !.pc = "remove"]
  ELSE IF Kind(k) = "push" /\ Via(k) = "sync" THEN After(Known(k, k.user))
  ELSE After(k)

\* An attempt arrives; when its answer is lost, it is tried again.
Deliver(c) ==
  LET k == [calls[c] EXCEPT !.half = calls[c].user]
  IN  /\ k.pc = "tell"
      /\ UNCHANGED stores
      /\ told' = [told EXCEPT ![k.user] = k.status]
      /\ \/ Goto(c, k)
         \/ Goto(c, Told(k))

\* Every attempt failed: the request goes on as if it had been heard.
GiveUp(c) ==
  /\ calls[c].pc = "tell"
  /\ UNCHANGED <<stores, told>>
  /\ Advance(c, Told(calls[c]), {calls[c].user}, {})

-----------------------------------------------------------------------------
(* Groups *)

\* One member looked up; those who are not active are passed over.
ResolveMember(c) ==
  LET k == calls[c]
  IN  /\ k.pc = "members" /\ Op(k).members # NULL
      /\ UNCHANGED <<stores, told>>
      /\ \E ref \in k.refs :
           LET found == Find(ref)
               resolved(new) == MembersKnown([k EXCEPT !.refs = @ \ {ref}, !.members = @ \union new])
           IN  \/ found = {} /\ Goto(c, resolved({}))
               \/ \E u \in found : Goto(c, resolved(IF users[u].active THEN {u} ELSE {}))

\* PATCH, and in a bulk request PUT as well, keep the members of the group
\* where they give none; to the SCIM server a PUT without members gives {}.
KeepMembers(c) ==
  LET k == calls[c]
  IN  /\ k.pc = "members" /\ Op(k).members = NULL
      /\ UNCHANGED <<stores, told>>
      /\ Goto(c, MembersKnown([k EXCEPT !.members =
                   IF k.group \in DOMAIN groups THEN groups[k.group].members ELSE {}]))

LookGroup(c) ==
  LET k == calls[c]
      op == Op(k)
      found == IF Via(k) = "event" THEN FindGroupByExternalId(op.target) ELSE FindGroup(op.target)
  IN  /\ k.pc = "lookGroup"
      /\ UNCHANGED <<stores, told>>
      /\ \/ found = {} /\ Goto(c, IF op.kind = "regroup" THEN Failed(k) ELSE After(k))
         \/ \E g \in found :
              LET at == [k EXCEPT !.group = g, !.key = groups[g].externalId]
              IN  Goto(c, IF op.kind = "ungroup" THEN [at EXCEPT !.pc = "removeGroup"]
                          ELSE IF op.members = NULL THEN [at EXCEPT !.pc = "members"]
                          ELSE MembersKnown(at))

\* syncGroup
FindOrCreateGroup(c) ==
  LET k == calls[c]
      found == FindGroupByExternalId(k.key)
  IN  /\ k.pc = "findGroup"
      /\ UNCHANGED <<stores, told>>
      /\ \/ found = {} /\ Goto(c, [k EXCEPT !.pc = "createGroup"])
         \/ \E g \in found : Goto(c, [k EXCEPT !.pc = "updateGroup", !.group = g])

CreateGroup(c) ==
  LET k == calls[c]
  IN  /\ k.pc = "createGroup"
      /\ UNCHANGED <<users, told>>
      /\ \E g \in Groups \ drawn :
           /\ groups' = MapSet(groups, g, [externalId |-> k.key, active |-> TRUE, members |-> {}])
           /\ drawn' = drawn \union {g}
           /\ Goto(c, [k EXCEPT !.pc = "setMembers", !.group = g])

\* The display name is written; a group that is gone refuses.
UpdateGroup(c) ==
  LET k == calls[c]
  IN  /\ k.pc = "updateGroup"
      /\ UNCHANGED <<stores, told>>
      /\ Goto(c, IF k.group \in DOMAIN groups THEN [k EXCEPT !.pc = "setMembers"] ELSE Failed(k))

Prunes(k) == Kind(k) = "group" /\ Op(k).prune # "no"

\* A synchronization announces its groups one by one, GroupSync of a bulk
\* request at its end, the SCIM server's PUT and PATCH never.
SetGroupMembers(c) ==
  LET k == calls[c]
  IN  /\ k.pc = "setMembers"
      /\ UNCHANGED <<users, drawn, told>>
      /\ groups' = IF k.group \in DOMAIN groups
                   THEN [groups EXCEPT ![k.group].members = k.members] ELSE groups
      /\ Goto(c, IF Kind(k) = "regroup" /\ Via(k) = "scim" THEN After(k)
                 ELSE IF Prunes(k) /\ Via(k) = "bulk" THEN [k EXCEPT !.pc = "listGroups"]
                 ELSE [k EXCEPT !.pc = "announceGroup"])

AnnounceGroup(c) ==
  LET k == calls[c]
  IN  /\ k.pc = "announceGroup"
      /\ UNCHANGED <<stores, told>>
      /\ Goto(c, IF Prunes(k) /\ Via(k) = "sync" THEN [k EXCEPT !.pc = "listGroups"] ELSE After(k))

\* deprovisionGroup and the deletions of bulk requests and events.
RemoveGroup(c) ==
  LET k == calls[c]
  IN  /\ k.pc = "removeGroup"
      /\ UNCHANGED <<users, drawn, told>>
      /\ groups' = IF k.group \in DOMAIN groups THEN [groups EXCEPT ![k.group].active = FALSE] ELSE groups
      /\ Goto(c, IF Via(k) = "scim" THEN After(k) ELSE [k EXCEPT !.pc = "announceGroup"])

\* The groups of a synchronization are one list, GroupSync has one of its own.
GivenGroups(k) ==
  IF Via(k) = "sync"
  THEN {k.request.ops[i].externalId : i \in {j \in DOMAIN k.request.ops : k.request.ops[j].kind = "group"}}
  ELSE {k.key}

\* The second half of syncGroups: groups that were not given are removed,
\* each announced before.
ListGroups(c) ==
  LET k == calls[c]
  IN  /\ k.pc = "listGroups"
      /\ UNCHANGED <<stores, told>>
      /\ Goto(c, [k EXCEPT !.pc = "pruneGroups",
                    !.doomed = {g \in DOMAIN groups : groups[g].active /\ groups[g].externalId \notin GivenGroups(k)}])

PruneGroup(c) ==
  LET k == calls[c]
  IN  /\ k.pc = "pruneGroups"
      /\ UNCHANGED <<users, drawn, told>>
      /\ \E g \in k.doomed :
           /\ groups' = IF g \notin DOMAIN groups THEN groups
                        ELSE IF Op(k).prune = "hard" THEN MapDelete(groups, {g})
                        ELSE [groups EXCEPT ![g].active = FALSE]
           /\ Goto(c, [k EXCEPT !.doomed = @ \ {g}])

GroupsPruned(c) ==
  LET k == calls[c]
  IN  /\ k.pc = "pruneGroups" /\ k.doomed = {}
      /\ UNCHANGED <<stores, told>>
      /\ Goto(c, IF Via(k) = "sync" THEN After(k) ELSE [k EXCEPT !.pc = "announceGroup"])

-----------------------------------------------------------------------------
(* The removal of users at the end of runDirectorySync *)

Pushes(k) == {k.request.ops[i] : i \in {j \in 1 .. Len(k.request.ops) : k.request.ops[j].kind = "push"}}

\* A plausible bug: a user is looked for by external id alone.
InSourceByExternalId(k, u) ==
  users[u].externalId \in {op.externalId : op \in Pushes(k)} \ {NULL}

InSource(k, u) ==
  \/ users[u].externalId \in {op.externalId : op \in Pushes(k)} \ {NULL}
  \/ users[u].email \in {op.email : op \in Pushes(k)}

ListUsers(c) ==
  LET k == calls[c]
  IN  /\ k.pc = "listUsers"
      /\ UNCHANGED <<stores, told>>
      /\ Goto(c, [k EXCEPT !.pc = "prune",
                    !.doomed = {u \in DOMAIN users : users[u].active /\ ~InSource(k, u)}])

\* deprovisionUser, and with it another lookup, for the next of the list.
PruneUser(c) ==
  LET k == calls[c]
  IN  /\ k.pc = "prune"
      /\ UNCHANGED <<stores, told>>
      /\ \E u \in k.doomed :
           Goto(c, IF u \in DOMAIN users
                   THEN [k EXCEPT !.doomed = @ \ {u}, !.user = u, !.pc = "tell", !.status = FALSE]
                   ELSE [k EXCEPT !.doomed = @ \ {u}])

SyncEnds(c) ==
  /\ calls[c].pc = "prune" /\ calls[c].doomed = {}
  /\ UNCHANGED <<stores, told>>
  /\ Goto(c, Idle)

-----------------------------------------------------------------------------
(* A store or the list of subscriptions rejects; a process dies. *)

Reject(c) ==
  /\ calls[c].pc # "idle"
  /\ UNCHANGED <<stores, told>>
  /\ Advance(c, Failed(calls[c]), {calls[c].half} \ {NULL}, {})

Die(c) ==
  /\ calls[c].pc # "idle"
  /\ UNCHANGED <<stores, told>>
  /\ Advance(c, Idle, {calls[c].half} \ {NULL}, {})

Next ==
  \E c \in Calls :
    \/ \E request \in Requests : Begin(c, request)
    \/ ProvisionByExternalId(c) \/ ProvisionByEmail(c)
    \/ CreateUser(c) \/ ProvisionUpdate(c) \/ UpdateRefused(c)
    \/ LookUser(c) \/ PutUser(c) \/ AnnounceRemoval(c) \/ RemoveUser(c)
    \/ Deliver(c) \/ GiveUp(c)
    \/ ResolveMember(c) \/ KeepMembers(c) \/ LookGroup(c) \/ FindOrCreateGroup(c)
    \/ CreateGroup(c) \/ UpdateGroup(c) \/ SetGroupMembers(c) \/ AnnounceGroup(c)
    \/ RemoveGroup(c) \/ ListGroups(c) \/ PruneGroup(c) \/ GroupsPruned(c)
    \/ ListUsers(c) \/ PruneUser(c) \/ SyncEnds(c)
    \/ Reject(c) \/ Die(c)

Spec == Init /\ [][Next]_vars

-----------------------------------------------------------------------------

\* Every id in the stores was drawn, every group's members are users or what a
\* PATCH took as it came, and a request has a user in hand wherever
\* it is about to write or tell of one.
TypeOK ==
  /\ \A u \in DOMAIN users :
       /\ u \in Users \intersect drawn
       /\ users[u].email \in Emails /\ users[u].externalId \in ExternalIds \union {NULL}
       /\ users[u].active \in BOOLEAN /\ (users[u].deleted => ~users[u].active)
  /\ \A g \in DOMAIN groups :
       /\ g \in Groups \intersect drawn
       /\ groups[g].externalId \in ExternalIds /\ groups[g].active \in BOOLEAN
       /\ groups[g].members \subseteq References
  /\ drawn \subseteq Users \union Groups
  /\ told \in [Users -> BOOLEAN] /\ excused \subseteq Users /\ contested \subseteq ExternalIds
  /\ \A c \in Calls :
       /\ calls[c].pc \in {"write", "announce", "tell", "remove"} => calls[c].user \in Users \intersect drawn
       /\ calls[c].half # NULL => calls[c].half = calls[c].user
       /\ calls[c].own \subseteq drawn /\ calls[c].doomed \subseteq drawn

Holders(x) == {u \in DOMAIN users : users[u].externalId = x /\ users[u].active}
GroupHolders(x) == {g \in DOMAIN groups : groups[g].externalId = x /\ groups[g].active}

\* An external id has one active user and one active group, whatever is
\* pushed, moved to another address, deleted and pushed again (provisionUser,
\* syncGroup), until two requests are busy with it at once or PUT gives it.
OnePerExternalId ==
  \A x \in ExternalIds \ contested : Cardinality(Holders(x)) <= 1 /\ Cardinality(GroupHolders(x)) <= 1

\* What the subscriber heard last of a user is whether that user is active
\* (provisionUser, deprovisionUser, the bulk and event handlers), unless a
\* request has the user half done, died or gave up so, or shared it with
\* another, or the SCIM server changed it silently.
PictureTrue ==
  \A u \in Users \ (excused \union {calls[c].half : c \in Calls}) :
    told[u] = (u \in DOMAIN users /\ users[u].active)

\* A synchronization removes nobody whom it has itself provisioned, unless
\* another request has had that user in its hands since (runDirectorySync).
SyncKeepsListed == \A c \in Calls : calls[c].doomed \intersect calls[c].own = {}
=============================================================================
