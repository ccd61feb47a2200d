----------------------------- MODULE Membership -----------------------------
(***************************************************************************)
(* membership-management.ts and invitations.ts for one organization:       *)
(* addMember, removeMember, updateMemberRole, createInvitation,            *)
(* acceptInvitation and revokeInvitation over the two stores.              *)
(*                                                                         *)
(* A request is a slot c \in Calls.  Each awaited store operation is a     *)
(* step; a request that throws ends and changes nothing more.  The stores  *)
(* are the caller's: ids are never reused, a second membership of a user   *)
(* is refused (UNIQUE (user_id, organization_id)), and an update of a      *)
(* membership that is gone is refused too.                                 *)
(***************************************************************************)
EXTENDS Integers, FiniteSets, Maps

CONSTANTS
  Users, Emails,
  Roles, Owner,      \* MEMBERSHIP_ROLES; what is told apart is "owner"
  MaxMembers,        \* org.maxMembers, or NoLimit when null
  NoLimit,
  MemberIds, Invitations,  \* bounds: the ids the two stores may draw
  Calls,             \* request slots, a bound on the requests in flight
  NULL

ASSUME SeatAssumption == MaxMembers \in Nat \union {NoLimit} /\ NoLimit \notin Nat
ASSUME CallsAssumption == IsFiniteSet(Calls) /\ Calls # {} /\ IsFiniteSet(MemberIds)
ASSUME NullAssumption ==
  /\ Owner \in Roles
  /\ NULL \notin Users \union Emails \union Roles \union MemberIds \union Invitations

VARIABLES
  members,      \* membership id -> [user, role]
  invitations,  \* invitation -> [email, role, status, expired]
  call,         \* the local variables of every request
  drawn,        \* membership ids ever drawn
  admitted,     \* invitation -> how many memberships it paid for (history)
  unmarked,     \* invitations one of whose acceptances died before marking (history)
  hadOwner,     \* whether somebody was an owner once (history)
  staleWrite    \* whether a request wrote after others had changed the owners (history)

history == <<admitted, unmarked, hadOwner, staleWrite>>
vars == <<members, invitations, call, drawn, history>>

Idle == [pc |-> "idle", user |-> NULL, role |-> NULL, id |-> NULL, inv |-> NULL,
         stale |-> FALSE]

Owners == {m \in DOMAIN members : members[m].role = Owner}
MemberUsers == {members[m].user : m \in DOMAIN members}
HasSeat == MaxMembers = NoLimit \/ Cardinality(DOMAIN members) < MaxMembers

Init ==
  /\ members = EmptyMap
  /\ invitations = EmptyMap
  /\ call = [c \in Calls |-> Idle]
  /\ drawn = {}
  /\ admitted = [i \in Invitations |-> 0]
  /\ unmarked = {}
  /\ hadOwner = FALSE
  /\ staleWrite = FALSE

At(c, pc) == call[c].pc = pc
Goto(c, pc) == call' = [call EXCEPT ![c].pc = pc]
Finish(c) == call' = [call EXCEPT ![c] = Idle]

-----------------------------------------------------------------------------
(* addMember *)

AddBegin(c, user, role) ==
  /\ At(c, "idle")
  /\ user \notin MemberUsers
  /\ call' = [call EXCEPT ![c] = [Idle EXCEPT !.pc = "count", !.user = user, !.role = role]]
  /\ UNCHANGED <<members, invitations, drawn, history>>

\* A plausible bug: the limit itself is still taken for room.
AddCountOffByOne(c) ==
  /\ At(c, "count")
  /\ IF MaxMembers = NoLimit \/ Cardinality(DOMAIN members) <= MaxMembers
     THEN Goto(c, "create") ELSE Finish(c)
  /\ UNCHANGED <<members, invitations, drawn, history>>

AddCount(c) ==
  /\ At(c, "count")
  /\ IF HasSeat THEN Goto(c, "create") ELSE Finish(c)
  /\ UNCHANGED <<members, invitations, drawn, history>>

\* An acceptance goes on to mark its invitation.
AddCreate(c) ==
  /\ At(c, "create")
  /\ call[c].user \notin MemberUsers
  /\ \E id \in MemberIds \ drawn :
       /\ members' = MapSet(members, id, [user |-> call[c].user, role |-> call[c].role])
       /\ drawn' = drawn \union {id}
  /\ admitted' = [i \in Invitations |-> IF i = call[c].inv THEN admitted[i] + 1 ELSE admitted[i]]
  /\ hadOwner' = (hadOwner \/ call[c].role = Owner)
  /\ IF call[c].inv = NULL THEN Finish(c) ELSE Goto(c, "mark")
  /\ UNCHANGED <<invitations, unmarked, staleWrite>>

\* A plausible bug: an acceptance does not look at the store's answer.
RefusalUnseen(c) ==
  /\ At(c, "create")
  /\ call[c].user \in MemberUsers
  /\ IF call[c].inv = NULL THEN Finish(c) ELSE Goto(c, "mark")
  /\ UNCHANGED <<members, invitations, drawn, history>>

AddRefused(c) ==
  /\ At(c, "create")
  /\ call[c].user \in MemberUsers
  /\ Finish(c)
  /\ UNCHANGED <<members, invitations, drawn, history>>

-----------------------------------------------------------------------------
(* removeMember, updateMemberRole *)

RemoveBegin(c, id) ==
  /\ At(c, "idle")
  /\ id \in DOMAIN members
  /\ call' = [call EXCEPT ![c] =
       [Idle EXCEPT !.pc = IF members[id].role = Owner THEN "owners" ELSE "write", !.id = id]]
  /\ UNCHANGED <<members, invitations, drawn, history>>

\* A plausible bug: only a promotion is looked at, never a demotion.
UpdateUnguarded(c, id, role) ==
  /\ At(c, "idle")
  /\ id \in DOMAIN members
  /\ call' = [call EXCEPT ![c] = [Idle EXCEPT !.pc = "write", !.id = id, !.role = role]]
  /\ UNCHANGED <<members, invitations, drawn, history>>

UpdateBegin(c, id, role) ==
  /\ At(c, "idle")
  /\ id \in DOMAIN members
  /\ call' = [call EXCEPT ![c] =
       [Idle EXCEPT !.pc = IF members[id].role = Owner /\ role # Owner THEN "owners" ELSE "write",
                    !.id = id, !.role = role]]
  /\ UNCHANGED <<members, invitations, drawn, history>>

\* Nobody removes or demotes the last owner.
OwnersCheck(c) ==
  /\ At(c, "owners")
  /\ IF Cardinality(Owners) <= 1 THEN Finish(c) ELSE Goto(c, "write")
  /\ UNCHANGED <<members, invitations, drawn, history>>

\* The request ends; if it changed who owns the organization, what the others
\* have read of that is stale.
FinishWrite(c) ==
  call' = [d \in Calls |->
             CASE d = c -> Idle
               [] d # c /\ call[d].pc \in {"owners", "write"} /\ Owners' # Owners ->
                    [call[d] EXCEPT !.stale = TRUE]
               [] OTHER -> call[d]]

\* The role is NULL where the request is a removal.
WriteMember(c) ==
  /\ At(c, "write")
  /\ LET id == call[c].id
     IN  IF call[c].role = NULL
         THEN /\ members' = MapDelete(members, {id})
              /\ UNCHANGED hadOwner
         ELSE /\ id \in DOMAIN members
              /\ members' = [members EXCEPT ![id].role = call[c].role]
              /\ hadOwner' = (hadOwner \/ call[c].role = Owner)
  /\ FinishWrite(c)
  /\ staleWrite' = (staleWrite \/ call[c].stale)
  /\ UNCHANGED <<invitations, drawn, admitted, unmarked>>

UpdateRefused(c) ==
  /\ At(c, "write")
  /\ call[c].role # NULL /\ call[c].id \notin DOMAIN members
  /\ Finish(c)
  /\ UNCHANGED <<members, invitations, drawn, history>>

-----------------------------------------------------------------------------
(* createInvitation, acceptInvitation, revokeInvitation *)

Pending(email) ==
  {i \in DOMAIN invitations : invitations[i].email = email /\ invitations[i].status = "pending"}

\* The local "user" holds the e-mail address here.
InviteBegin(c, email, role) ==
  /\ At(c, "idle")
  /\ Pending(email) = {}
  /\ call' = [call EXCEPT ![c] = [Idle EXCEPT !.pc = "seats", !.user = email, !.role = role]]
  /\ UNCHANGED <<members, invitations, drawn, history>>

InviteCount(c) ==
  /\ At(c, "seats")
  /\ IF HasSeat THEN Goto(c, "invite") ELSE Finish(c)
  /\ UNCHANGED <<members, invitations, drawn, history>>

InviteCreate(c) ==
  /\ At(c, "invite")
  /\ \E i \in Invitations \ DOMAIN invitations :
       invitations' = MapSet(invitations, i,
         [email |-> call[c].user, role |-> call[c].role, status |-> "pending", expired |-> FALSE])
  /\ Finish(c)
  /\ UNCHANGED <<members, drawn, history>>

\* A plausible bug: the state of the invitation is not looked at.
AcceptAnyway(c, i, user) ==
  /\ At(c, "idle")
  /\ call' = [call EXCEPT ![c] =
       [Idle EXCEPT !.pc = "lookup", !.user = user, !.role = invitations[i].role, !.inv = i]]
  /\ UNCHANGED <<members, invitations, drawn, history>>

\* getByToken, then isInvitationValid.
AcceptBegin(c, i, user) ==
  /\ At(c, "idle")
  /\ invitations[i].status = "pending" /\ ~invitations[i].expired
  /\ call' = [call EXCEPT ![c] =
       [Idle EXCEPT !.pc = "lookup", !.user = user, !.role = invitations[i].role, !.inv = i]]
  /\ UNCHANGED <<members, invitations, drawn, history>>

\* The first read of the addMember that an acceptance calls.
AcceptLookup(c) ==
  /\ At(c, "lookup")
  /\ IF call[c].user \in MemberUsers THEN Finish(c) ELSE Goto(c, "count")
  /\ UNCHANGED <<members, invitations, drawn, history>>

\* updateStatus, whatever the status is by now; the webhook changes nothing.
AcceptMark(c) ==
  /\ At(c, "mark")
  /\ invitations' = [invitations EXCEPT ![call[c].inv].status = "accepted"]
  /\ Finish(c)
  /\ UNCHANGED <<members, drawn, history>>

RevokeBegin(c, i) ==
  /\ At(c, "idle")
  /\ invitations[i].status = "pending"
  /\ call' = [call EXCEPT ![c] = [Idle EXCEPT !.pc = "revoke", !.inv = i]]
  /\ UNCHANGED <<members, invitations, drawn, history>>

RevokeMark(c) ==
  /\ At(c, "revoke")
  /\ invitations' = [invitations EXCEPT ![call[c].inv].status = "revoked"]
  /\ Finish(c)
  /\ UNCHANGED <<members, drawn, history>>

-----------------------------------------------------------------------------
(* The environment *)

\* The seven days of an invitation are over; nothing asks once it is closed.
Expire(i) ==
  /\ invitations[i].status = "pending" /\ ~invitations[i].expired
  /\ invitations' = [invitations EXCEPT ![i].expired = TRUE]
  /\ UNCHANGED <<members, call, drawn, history>>

\* A store operation rejects, or the process dies.
Abort(c) ==
  /\ ~At(c, "idle")
  /\ Finish(c)
  /\ unmarked' = IF At(c, "mark") THEN unmarked \union {call[c].inv} ELSE unmarked
  /\ UNCHANGED <<members, invitations, drawn, admitted, hadOwner, staleWrite>>

Request(c) ==
  \/ \E user \in Users, role \in Roles : AddBegin(c, user, role)
  \/ \E id \in DOMAIN members : RemoveBegin(c, id)
  \/ \E id \in DOMAIN members, role \in Roles : UpdateBegin(c, id, role)
  \/ \E email \in Emails, role \in Roles : InviteBegin(c, email, role)
  \/ \E i \in DOMAIN invitations :
       \/ \E user \in Users : AcceptBegin(c, i, user)
       \/ RevokeBegin(c, i)

Serve(c) ==
  \/ AddCount(c) \/ AddCreate(c) \/ AddRefused(c)
  \/ OwnersCheck(c) \/ WriteMember(c) \/ UpdateRefused(c)
  \/ InviteCount(c) \/ InviteCreate(c)
  \/ AcceptLookup(c) \/ AcceptMark(c) \/ RevokeMark(c)

Next ==
  \/ \E c \in Calls : Request(c) \/ Serve(c) \/ Abort(c)
  \/ \E i \in DOMAIN invitations : Expire(i)

Spec == Init /\ [][Next]_vars

-----------------------------------------------------------------------------
(* Correctness *)

\* The stores, the locals and the histories keep their types.
TypeOK ==
  /\ members \in [DOMAIN members -> [user : Users, role : Roles]]
  /\ DOMAIN members \subseteq drawn /\ drawn \subseteq MemberIds
  /\ invitations \in [DOMAIN invitations ->
                       [email : Emails, role : Roles, expired : BOOLEAN,
                        status : {"pending", "accepted", "revoked"}]]
  /\ DOMAIN invitations \subseteq Invitations
  /\ \A c \in Calls :
       /\ call[c].role \in Roles \union {NULL}
       /\ call[c].id \in drawn \union {NULL}
       /\ call[c].inv \in DOMAIN invitations \union {NULL}
  /\ admitted \in [Invitations -> Nat]
  /\ unmarked \subseteq DOMAIN invitations
  /\ hadOwner \in BOOLEAN /\ staleWrite \in BOOLEAN

\* Count-then-create lets k overlapping additions and acceptances exceed the
\* organization's seats by k - 1 and never by more.
SeatsWithinOverlap ==
  MaxMembers # NoLimit =>
    Cardinality(DOMAIN members) <= MaxMembers + Cardinality(Calls) - 1

\* One invitation pays for at most as many memberships as there are requests at
\* once, one when they do not overlap, unless an acceptance died before it was
\* marked: once marked it admits nobody, whatever was revoked or removed since.
AdmissionsWithinOverlap ==
  \A i \in Invitations \ unmarked : admitted[i] <= Cardinality(Calls)

\* An invitation reads "accepted" only if it made somebody a member, however
\* acceptances, revocations and removals overlap.
AcceptedAdmitted ==
  \A i \in DOMAIN invitations :
    invitations[i].status = "accepted" => admitted[i] > 0

\* An organization that had an owner loses the last one only to a request that
\* wrote after another had changed who the owners are: no sequence of requests
\* that see each other's results leaves it without.
OwnerLostOnlyByStaleWrite == hadOwner /\ Owners = {} => staleWrite

-----------------------------------------------------------------------------
(* What a test says, and the code does not do *)

\* "rejects removing the last owner": an organization that had an owner has one.
OwnerRemains == hadOwner => Owners # {}
=============================================================================
