-------------------------- MODULE MembershipProofs --------------------------
(***************************************************************************)
(* What is left of the seat limit, of an invitation's single use and of    *)
(* the last owner, for any number of overlapping requests.                 *)
(***************************************************************************)
EXTENDS Membership, FiniteSetTheorems, TLAPS

EnteringPcs == {"lookup", "count", "create"}
Pcs == EnteringPcs \union {"idle", "owners", "write", "seats", "invite", "mark", "revoke"}
Locals == [pc : Pcs, user : Users \union Emails \union {NULL}, role : Roles \union {NULL},
           id : MemberIds \union {NULL}, inv : Invitations \union {NULL}, stale : BOOLEAN]

\* Somebody else owns the organization, as far as a request that is not stale can tell.
WritesSafely(r) ==
  r.pc = "write" /\ ~r.stale /\ r.role # Owner /\ r.id \in Owners
    => \E o \in Owners : o # r.id

\* What the locals of a request promise at each of its awaits.
Well(r) ==
  /\ r \in Locals
  /\ r.id \in drawn \union {NULL}
  /\ r.inv \in DOMAIN invitations \union {NULL}
  /\ r.pc \in EnteringPcs => r.user \in Users /\ r.role \in Roles
  /\ r.pc \in {"seats", "invite"} => r.user \in Emails /\ r.role \in Roles
  /\ r.pc \in {"owners", "write"} => r.id \in drawn
  /\ r.pc \in {"lookup", "mark", "revoke"} => r.inv \in DOMAIN invitations
  /\ r.pc = "mark" => admitted[r.inv] > 0
  /\ WritesSafely(r)

CallsInv == call \in [Calls -> Locals] /\ \A c \in Calls : Well(call[c])

StoresInv ==
  /\ members \in [DOMAIN members -> [user : Users, role : Roles]]
  /\ DOMAIN members \subseteq drawn /\ drawn \subseteq MemberIds
  /\ invitations \in [DOMAIN invitations ->
                       [email : Emails, role : Roles, expired : BOOLEAN,
                        status : {"pending", "accepted", "revoked"}]]
  /\ DOMAIN invitations \subseteq Invitations
  /\ admitted \in [Invitations -> Nat]
  /\ unmarked \subseteq DOMAIN invitations
  /\ hadOwner \in BOOLEAN /\ staleWrite \in BOOLEAN

\* Requests that have counted a seat, that hold an invitation, that spent one.
Passed == {c \in Calls : At(c, "create")}
Entering(i) == {c \in Calls : call[c].pc \in EnteringPcs /\ call[c].inv = i}
Marking(i) == {c \in Calls : At(c, "mark") /\ call[c].inv = i}

\* Every request that passed the count is a seat that is as good as taken.
SeatsInv ==
  MaxMembers # NoLimit =>
    Cardinality(DOMAIN members) + Cardinality(Passed)
      <= MaxMembers + Cardinality(Calls) - 1

\* While an invitation is pending, whoever it admitted is still to mark it.
AdmissionsInv(i) ==
  /\ i \notin DOMAIN invitations => admitted[i] = 0
  /\ i \notin unmarked =>
       /\ i \in DOMAIN invitations /\ invitations[i].status = "pending"
            => admitted[i] <= Cardinality(Marking(i))
       /\ admitted[i] + Cardinality(Entering(i)) <= Cardinality(Calls)

IInv ==
  /\ CallsInv /\ StoresInv /\ SeatsInv
  /\ \A i \in Invitations : AdmissionsInv(i)
  /\ AcceptedAdmitted /\ OwnerLostOnlyByStaleWrite

-----------------------------------------------------------------------------
(* Counting *)

LEMMA CallSets ==
  /\ Cardinality(Calls) \in Nat
  /\ \A S \in SUBSET Calls :
       IsFiniteSet(S) /\ Cardinality(S) \in Nat /\ Cardinality(S) <= Cardinality(Calls)
<1> \A S \in SUBSET Calls : IsFiniteSet(S) /\ Cardinality(S) <= Cardinality(Calls)
  BY FS_Subset, CallsAssumption
<1> QED BY FS_CardinalityType, CallsAssumption

LEMMA SomebodyCalls == Cardinality(Calls) > 0
  BY FS_EmptySet, FS_CardinalityType, CallsAssumption

LEMMA Smaller ==
  ASSUME NEW S \in SUBSET Calls, NEW T \in SUBSET S
  PROVE  Cardinality(T) <= Cardinality(S)
  BY CallSets, FS_Subset

LEMMA Disjoint ==
  ASSUME NEW S \in SUBSET Calls, NEW T \in SUBSET Calls, S \cap T = {}
  PROVE  Cardinality(S) + Cardinality(T) <= Cardinality(Calls)
<1>1. Cardinality(S \cup T) = Cardinality(S) + Cardinality(T) - Cardinality(S \cap T)
  BY FS_Union, CallSets
<1>2. Cardinality(S \cap T) = 0
  BY FS_EmptySet
<1>3. Cardinality(S \cup T) <= Cardinality(Calls)
  BY CallSets
<1> QED BY <1>1, <1>2, <1>3, CallSets

LEMMA CountedSets ==
  /\ Passed \in SUBSET Calls
  /\ \A i : Entering(i) \in SUBSET Calls /\ Marking(i) \in SUBSET Calls
            /\ Entering(i) \cap Marking(i) = {}
  BY DEF Passed, Entering, Marking, At, EnteringPcs

LEMMA MembersFinite ==
  ASSUME StoresInv
  PROVE  /\ IsFiniteSet(DOMAIN members) /\ Cardinality(DOMAIN members) \in Nat
         /\ IsFiniteSet(Owners) /\ Cardinality(Owners) \in Nat
<1> DOMAIN members \in SUBSET MemberIds /\ Owners \in SUBSET MemberIds
  BY DEF StoresInv, Owners
<1> QED BY FS_Subset, FS_CardinalityType, CallsAssumption

\* Two owners are one owner and another.
LEMMA AnotherOwner ==
  ASSUME StoresInv, Cardinality(Owners) > 1, NEW m
  PROVE  \E o \in Owners : o # m
<1>1. Cardinality({}) = 0
  BY FS_EmptySet
<1>2. Cardinality({m}) = 1
  BY FS_Singleton
<1>3. Owners # {} /\ Owners # {m}
  BY <1>1, <1>2
<1> QED BY <1>3

-----------------------------------------------------------------------------
(* Steps that change nothing but the locals of one request *)

\* What the next locals r of request c must show for the invariant to survive.
MayBecome(c, r) ==
  /\ Well(r)
  /\ r.pc = "create" => HasSeat
  /\ r.pc # "mark"
  /\ r.pc \in EnteringPcs /\ r.inv # NULL =>
       \/ call[c].pc \in EnteringPcs /\ call[c].inv = r.inv
       \/ invitations[r.inv].status = "pending" /\ call[c].pc = "idle"

LEMMA LocalStep ==
  ASSUME IInv, NEW c \in Calls, NEW r, MayBecome(c, r),
         UNCHANGED <<members, invitations, drawn, admitted, hadOwner, staleWrite>>,
         call' = [call EXCEPT ![c] = r],
         unmarked \subseteq unmarked', unmarked' \subseteq DOMAIN invitations,
         At(c, "mark") => call[c].inv \in unmarked'
  PROVE  IInv'
<1> USE DEF IInv
<1>0. /\ \A d \in Calls : call'[d] = IF d = c THEN r ELSE call[d]
      /\ Owners' = Owners
  BY DEF CallsInv, Owners
<1>1. CallsInv'
  BY <1>0 DEF CallsInv, MayBecome, Well, WritesSafely
<1>2. StoresInv'
  BY DEF StoresInv
<1>3. SeatsInv'
  <2> SUFFICES ASSUME MaxMembers # NoLimit
               PROVE  Cardinality(DOMAIN members) + Cardinality(Passed')
                        <= MaxMembers + Cardinality(Calls) - 1
    BY DEF SeatsInv
  <2>1. CASE HasSeat
    <3>1. Cardinality(DOMAIN members) < MaxMembers
      BY <2>1 DEF HasSeat
    <3>2. Passed' \in SUBSET Calls
      BY DEF Passed
    <3> QED BY <3>1, <3>2, CallSets, MembersFinite, SeatAssumption
  <2>2. CASE ~HasSeat
    <3>1. Passed' \in SUBSET Passed
      BY <2>2, <1>0 DEF Passed, At, MayBecome
    <3>2. Cardinality(Passed') <= Cardinality(Passed)
      BY <3>1, Smaller, CountedSets
    <3> QED BY <3>1, <3>2, CallSets, CountedSets, MembersFinite, SeatAssumption DEF SeatsInv
  <2> QED BY <2>1, <2>2
<1>4. ASSUME NEW i \in Invitations  PROVE AdmissionsInv(i)'
  <2>1. i \notin unmarked' => Marking(i)' = Marking(i)
    BY <1>0 DEF Marking, At, MayBecome
  <2>2. CASE Entering(i)' \in SUBSET Entering(i)
    <3>1. Cardinality(Entering(i)') <= Cardinality(Entering(i))
      BY <2>2, Smaller, CountedSets
    <3> QED BY <2>1, <2>2, <3>1, CallSets, CountedSets DEF AdmissionsInv, StoresInv
  <2>3. CASE ~(Entering(i)' \in SUBSET Entering(i))
    <3>1. r.pc \in EnteringPcs /\ r.inv = i /\ ~(call[c].pc \in EnteringPcs /\ call[c].inv = i)
      BY <2>3, <1>0 DEF Entering
    <3>2. i # NULL
      BY NullAssumption
    <3>3. /\ i \in DOMAIN invitations /\ invitations[i].status = "pending"
      BY <3>1, <3>2 DEF MayBecome, Well
    <3>4. Entering(i)' \in SUBSET Calls /\ Entering(i)' \cap Marking(i)' = {}
      BY DEF Entering, Marking, At, EnteringPcs
    <3>5. Marking(i) \in SUBSET Calls
      BY CountedSets
    <3>6. i \notin unmarked' => Cardinality(Entering(i)') + Cardinality(Marking(i)) <= Cardinality(Calls)
      BY <2>1, <3>4, <3>5, Disjoint
    <3> QED BY <2>1, <3>3, <3>4, <3>5, <3>6, CallSets DEF AdmissionsInv, StoresInv
  <2> QED BY <2>2, <2>3
<1>5. AcceptedAdmitted' /\ OwnerLostOnlyByStaleWrite'
  BY <1>0 DEF AcceptedAdmitted, OwnerLostOnlyByStaleWrite
<1> QED BY <1>1, <1>2, <1>3, <1>4, <1>5

LEMMA IdleIsWell == StoresInv => Well(Idle)
  BY DEF Well, Idle, Locals, Pcs, EnteringPcs, WritesSafely

LEMMA FinishStep ==
  ASSUME IInv, NEW c \in Calls, Finish(c),
         UNCHANGED <<members, invitations, drawn, admitted, hadOwner, staleWrite>>,
         unmarked \subseteq unmarked', unmarked' \subseteq DOMAIN invitations,
         At(c, "mark") => call[c].inv \in unmarked'
  PROVE  IInv'
<1>1. MayBecome(c, Idle)
  BY IdleIsWell DEF IInv, MayBecome, Idle, EnteringPcs
<1> QED BY <1>1, LocalStep DEF Finish

\* The first step of every request.
LEMMA RequestStep ==
  ASSUME IInv, NEW c \in Calls, Request(c)
  PROVE  IInv'
<1> USE DEF IInv, history, StoresInv
<1>0. /\ At(c, "idle")
      /\ Well(Idle)
  BY IdleIsWell DEF Request, AddBegin, RemoveBegin, UpdateBegin, InviteBegin, AcceptBegin, RevokeBegin
<1> DEFINE Stays == UNCHANGED <<members, invitations, drawn, admitted, unmarked, hadOwner, staleWrite>>
           Becomes(r) == MayBecome(c, r) /\ call' = [call EXCEPT ![c] = r]
<1>1. ASSUME NEW user \in Users, NEW role \in Roles, AddBegin(c, user, role)
      PROVE  Stays /\ \E r : Becomes(r)
  <2> DEFINE r == [Idle EXCEPT !.pc = "count", !.user = user, !.role = role]
  <2>1. MayBecome(c, r)
    BY <1>0 DEF MayBecome, Well, Idle, Locals, Pcs, EnteringPcs, WritesSafely
  <2> QED BY <1>1, <2>1 DEF AddBegin
<1>2. ASSUME NEW id \in DOMAIN members, RemoveBegin(c, id)
      PROVE  Stays /\ \E r : Becomes(r)
  <2> DEFINE r == [Idle EXCEPT
                     !.pc = IF members[id].role = Owner THEN "owners" ELSE "write", !.id = id]
  <2>1. MayBecome(c, r)
    BY <1>0 DEF MayBecome, Well, Idle, Locals, Pcs, EnteringPcs, WritesSafely, Owners
  <2> QED BY <1>2, <2>1 DEF RemoveBegin
<1>3. ASSUME NEW id \in DOMAIN members, NEW role \in Roles, UpdateBegin(c, id, role)
      PROVE  Stays /\ \E r : Becomes(r)
  <2> DEFINE r == [Idle EXCEPT
                     !.pc = IF members[id].role = Owner /\ role # Owner THEN "owners" ELSE "write",
                     !.id = id, !.role = role]
  <2>1. MayBecome(c, r)
    BY <1>0 DEF MayBecome, Well, Idle, Locals, Pcs, EnteringPcs, WritesSafely, Owners
  <2> QED BY <1>3, <2>1 DEF UpdateBegin
<1>4. ASSUME NEW email \in Emails, NEW role \in Roles, InviteBegin(c, email, role)
      PROVE  Stays /\ \E r : Becomes(r)
  <2> DEFINE r == [Idle EXCEPT !.pc = "seats", !.user = email, !.role = role]
  <2>1. MayBecome(c, r)
    BY <1>0 DEF MayBecome, Well, Idle, Locals, Pcs, EnteringPcs, WritesSafely
  <2> QED BY <1>4, <2>1 DEF InviteBegin
<1>5. ASSUME NEW i \in DOMAIN invitations, NEW user \in Users, AcceptBegin(c, i, user)
      PROVE  Stays /\ \E r : Becomes(r)
  <2> DEFINE r == [Idle EXCEPT !.pc = "lookup", !.user = user,
                               !.role = invitations[i].role, !.inv = i]
  <2>1. invitations[i].role \in Roles /\ invitations[i].status = "pending"
    BY <1>5 DEF AcceptBegin
  <2>2. MayBecome(c, r)
    BY <1>0, <2>1 DEF MayBecome, Well, Idle, Locals, Pcs, EnteringPcs, WritesSafely, At
  <2> QED BY <1>5, <2>2 DEF AcceptBegin
<1>6. ASSUME NEW i \in DOMAIN invitations, RevokeBegin(c, i)
      PROVE  Stays /\ \E r : Becomes(r)
  <2> DEFINE r == [Idle EXCEPT !.pc = "revoke", !.inv = i]
  <2>1. MayBecome(c, r)
    BY <1>0 DEF MayBecome, Well, Idle, Locals, Pcs, EnteringPcs, WritesSafely
  <2> QED BY <1>6, <2>1 DEF RevokeBegin
<1>7. Stays /\ \E r : Becomes(r)
  BY <1>1, <1>2, <1>3, <1>4, <1>5, <1>6 DEF Request
<1>8. PICK r : Becomes(r)
  BY <1>7
<1>9. ~At(c, "mark")
  BY <1>0 DEF At
<1> QED BY <1>7, <1>8, <1>9, LocalStep

\* A request that read the store and goes on.
LEMMA GoesOn ==
  ASSUME IInv, NEW c \in Calls, NEW pc \in {"create", "write", "invite", "count"}, Goto(c, pc),
         UNCHANGED <<members, invitations, drawn, admitted, unmarked, hadOwner, staleWrite>>,
         pc = "create" => At(c, "count") /\ HasSeat,
         pc = "write" => At(c, "owners") /\ Cardinality(Owners) > 1,
         pc = "invite" => At(c, "seats"),
         pc = "count" => At(c, "lookup")
  PROVE  IInv'
<1> USE DEF IInv
<1> DEFINE r == [call[c] EXCEPT !.pc = pc]
<1>1. Well(call[c]) /\ call[c] \in Locals
  BY DEF CallsInv
<1>2. pc = "write" => \E o \in Owners : o # call[c].id
  BY AnotherOwner
<1>3. Well(r)
  BY <1>1, <1>2 DEF Well, Locals, Pcs, EnteringPcs, WritesSafely, At
<1>4. /\ r.pc = pc /\ r.inv = call[c].inv
      /\ call' = [call EXCEPT ![c] = r]
      /\ pc \in EnteringPcs => call[c].pc \in EnteringPcs
      /\ ~At(c, "mark")
  BY <1>1 DEF Goto, At, Locals, EnteringPcs, CallsInv
<1>5. MayBecome(c, r)
  BY <1>3, <1>4 DEF MayBecome
<1> QED BY <1>4, <1>5, LocalStep DEF StoresInv

-----------------------------------------------------------------------------
(* Steps that write a store *)

LEMMA AddCreateStep ==
  ASSUME IInv, NEW c \in Calls, AddCreate(c)
  PROVE  IInv'
<1> USE DEF IInv
<1>1. PICK id \in MemberIds \ drawn :
        /\ members' = MapSet(members, id, [user |-> call[c].user, role |-> call[c].role])
        /\ drawn' = drawn \union {id}
  BY DEF AddCreate
<1>2. /\ call[c].pc = "create" /\ Well(call[c]) /\ call[c] \in Locals
      /\ call[c].user \in Users /\ call[c].role \in Roles
      /\ call[c].inv \in DOMAIN invitations \union {NULL}
      /\ UNCHANGED <<invitations, unmarked, staleWrite>>
      /\ hadOwner' = (hadOwner \/ call[c].role = Owner)
  BY DEF AddCreate, At, CallsInv, Well, EnteringPcs
<1>3. /\ DOMAIN members' = DOMAIN members \union {id}
      /\ \A m \in DOMAIN members' :
           members'[m] = IF m = id THEN [user |-> call[c].user, role |-> call[c].role] ELSE members[m]
      /\ members' = [m \in DOMAIN members' |-> members'[m]]
  BY <1>1 DEF MapSet
<1>4. /\ admitted' \in [Invitations -> Nat]
      /\ \A i \in Invitations :
           admitted'[i] = IF i = call[c].inv THEN admitted[i] + 1 ELSE admitted[i]
  BY DEF AddCreate, StoresInv
<1>5. StoresInv'
  BY <1>1, <1>2, <1>3, <1>4 DEF StoresInv
<1>6. /\ call' \in [Calls -> Locals]
      /\ \A d \in Calls \ {c} : call'[d] = call[d]
      /\ \/ call'[c] = Idle /\ call[c].inv = NULL
         \/ call'[c] = [call[c] EXCEPT !.pc = "mark"] /\ call[c].inv # NULL
  <2>1. CASE call[c].inv = NULL
    <3>1. call' = [call EXCEPT ![c] = Idle]
      BY <2>1 DEF AddCreate, Finish
    <3>2. Idle \in Locals
      BY DEF Idle, Locals, Pcs
    <3> QED BY <2>1, <3>1, <3>2 DEF CallsInv
  <2>2. CASE call[c].inv # NULL
    <3>1. call' = [call EXCEPT ![c].pc = "mark"]
      BY <2>2 DEF AddCreate, Goto
    <3>2. [call[c] EXCEPT !.pc = "mark"] \in Locals
      BY <1>2 DEF Locals, Pcs
    <3> QED BY <2>2, <3>1, <3>2 DEF CallsInv
  <2> QED BY <2>1, <2>2
<1>7. /\ Owners \subseteq Owners' /\ Owners' \subseteq Owners \union {id}
      /\ call[c].role = Owner => id \in Owners'
  BY <1>3 DEF Owners, StoresInv
<1>8. CallsInv'
  <2>1. ASSUME NEW d \in Calls \ {c}  PROVE Well(call[d])'
    <3>1. Well(call[d]) /\ call'[d] = call[d]
      BY <1>6 DEF CallsInv
    <3>2. call[d].id # id \/ call[d].id = NULL
      BY <1>1, <3>1 DEF Well
    <3>3. WritesSafely(call[d])'
      BY <3>1, <3>2, <1>1, <1>7 DEF WritesSafely, Well
    <3>4. call[d].pc = "mark" => admitted'[call[d].inv] > 0
      BY <3>1, <1>4 DEF Well, StoresInv
    <3> QED BY <3>1, <3>3, <3>4, <1>1, <1>2 DEF Well
  <2>2. Well(call[c])'
    <3>1. CASE call'[c] = Idle
      BY <3>1, <1>5, IdleIsWell DEF Well, Idle, Locals, Pcs, EnteringPcs, WritesSafely
    <3>2. CASE call'[c] = [call[c] EXCEPT !.pc = "mark"] /\ call[c].inv # NULL
      <4>1. /\ call'[c].pc = "mark" /\ call'[c].inv = call[c].inv
            /\ call'[c].id = call[c].id /\ call'[c] \in Locals
        BY <3>2, <1>2, <1>6 DEF Locals
      <4>2. admitted'[call[c].inv] > 0
        BY <3>2, <1>2, <1>4 DEF StoresInv
      <4> QED BY <3>2, <4>1, <4>2, <1>1, <1>2 DEF Well, EnteringPcs, WritesSafely
    <3> QED BY <1>6, <3>1, <3>2
  <2> QED BY <1>6, <2>1, <2>2 DEF CallsInv
<1>9. SeatsInv'
  <2>1. Passed' = Passed \ {c} /\ c \in Passed
    BY <1>2, <1>6 DEF Passed, At, Idle, Locals
  <2>2. Cardinality(Passed') = Cardinality(Passed) - 1
    BY <2>1, FS_RemoveElement, CountedSets, CallSets
  <2>3. Cardinality(DOMAIN members') <= Cardinality(DOMAIN members) + 1
    BY <1>3, FS_AddElement, MembersFinite
  <2>4. Cardinality(DOMAIN members') \in Nat
    BY <1>3, FS_AddElement, FS_CardinalityType, MembersFinite
  <2> QED BY <2>2, <2>3, <2>4, MembersFinite, CallSets, CountedSets, SeatAssumption DEF SeatsInv
<1>10. ASSUME NEW i \in Invitations  PROVE AdmissionsInv(i)'
  <2>1. CASE i # call[c].inv
    <3>1. Entering(i)' = Entering(i) /\ Marking(i)' = Marking(i)
      BY <2>1, <1>2, <1>6, NullAssumption DEF Entering, Marking, At, Idle, EnteringPcs, Locals
    <3> QED BY <2>1, <3>1, <1>2, <1>4 DEF AdmissionsInv
  <2>2. CASE i = call[c].inv
    <3>1. /\ call'[c].pc = "mark" /\ call'[c].inv = i /\ i \in DOMAIN invitations
      BY <2>2, <1>2, <1>6, NullAssumption DEF Locals
    <3>2. /\ Entering(i)' = Entering(i) \ {c} /\ c \in Entering(i)
          /\ Marking(i)' = Marking(i) \union {c} /\ c \notin Marking(i)
      BY <2>2, <3>1, <1>2, <1>6 DEF Entering, Marking, At, EnteringPcs
    <3>3. Cardinality(Entering(i)') = Cardinality(Entering(i)) - 1
      BY <3>2, FS_RemoveElement, CountedSets, CallSets
    <3>4. Cardinality(Marking(i)') = Cardinality(Marking(i)) + 1
      BY <3>2, FS_AddElement, CountedSets, CallSets
    <3> QED BY <2>2, <3>1, <3>3, <3>4, <1>2, <1>4, CallSets, CountedSets
            DEF AdmissionsInv, StoresInv
  <2> QED BY <2>1, <2>2
<1>11. AcceptedAdmitted'
  BY <1>2, <1>4 DEF AcceptedAdmitted, StoresInv
<1>12. OwnerLostOnlyByStaleWrite'
  BY <1>2, <1>7 DEF OwnerLostOnlyByStaleWrite
<1> QED BY <1>5, <1>8, <1>9, <1>10, <1>11, <1>12

\* Invitations are created, closed or marked; the request that does it ends.
LEMMA InvitationsStep ==
  ASSUME IInv, NEW c \in Calls,
         call' = call \/ Finish(c),
         UNCHANGED <<members, drawn, admitted, unmarked, hadOwner, staleWrite>>,
         StoresInv',
         DOMAIN invitations \subseteq DOMAIN invitations',
         \A i \in DOMAIN invitations' :
           /\ invitations'[i].status = "pending" =>
                \/ i \notin DOMAIN invitations
                \/ /\ invitations[i].status = "pending"
                   /\ Finish(c) /\ At(c, "mark") => call[c].inv # i
           /\ invitations'[i].status = "accepted" => admitted[i] > 0
  PROVE  IInv'
<1> USE DEF IInv
<1>1. /\ Owners' = Owners
      /\ \A d \in Calls : call'[d] = call[d] \/ (d = c /\ call'[d] = Idle)
  BY DEF Owners, Finish, CallsInv
<1>2. call' \in [Calls -> Locals]
  <2>1. Idle \in Locals
    BY DEF Idle, Locals, Pcs
  <2> QED BY <2>1 DEF Finish, CallsInv
<1>3. \A d \in Calls : Well(call[d]) => Well(call[d])'
  <2>1. TAKE d \in Calls
  <2>2. CASE call'[d] = call[d]
    BY <2>2, <1>1 DEF Well, WritesSafely
  <2>3. CASE call'[d] = Idle
    BY <2>3 DEF Well, Idle, Locals, Pcs, EnteringPcs, WritesSafely
  <2> QED BY <1>1, <2>2, <2>3
<1>4. CallsInv'
  BY <1>2, <1>3 DEF CallsInv
<1>5. SeatsInv'
  <2>1. Passed' \in SUBSET Passed
    BY <1>1 DEF Passed, At, Idle
  <2>2. Cardinality(Passed') <= Cardinality(Passed)
    BY <2>1, Smaller, CountedSets
  <2> QED BY <2>1, <2>2, CallSets, CountedSets, MembersFinite, SeatAssumption DEF SeatsInv
<1>6. ASSUME NEW i \in Invitations  PROVE AdmissionsInv(i)'
  <2>1. Entering(i)' \in SUBSET Entering(i)
    BY <1>1 DEF Entering, Idle, EnteringPcs
  <2>2. Cardinality(Entering(i)') <= Cardinality(Entering(i))
    BY <2>1, Smaller, CountedSets
  <2>3. i \in DOMAIN invitations' /\ i \in DOMAIN invitations /\ invitations'[i].status = "pending"
          => Marking(i)' = Marking(i)
    BY <1>1 DEF Marking, At, Idle, Finish
  <2>4. Marking(i)' \in SUBSET Calls /\ Cardinality(Marking(i)') \in Nat
    BY CallSets DEF Marking
  <2>5. i \notin DOMAIN invitations => admitted'[i] = 0
    BY DEF AdmissionsInv
  <2> QED BY <2>1, <2>2, <2>3, <2>4, <2>5, CallSets, CountedSets DEF AdmissionsInv, StoresInv
<1>7. AcceptedAdmitted' /\ OwnerLostOnlyByStaleWrite'
  BY <1>1 DEF AcceptedAdmitted, OwnerLostOnlyByStaleWrite
<1> QED BY <1>4, <1>5, <1>6, <1>7

LEMMA InviteCreateStep ==
  ASSUME IInv, NEW c \in Calls, InviteCreate(c)
  PROVE  IInv'
<1> USE DEF IInv, history
<1>1. PICK i \in Invitations \ DOMAIN invitations :
        invitations' = MapSet(invitations, i,
          [email |-> call[c].user, role |-> call[c].role, status |-> "pending", expired |-> FALSE])
  BY DEF InviteCreate
<1>2. /\ DOMAIN invitations' = DOMAIN invitations \union {i}
      /\ invitations' = [j \in DOMAIN invitations' |-> invitations'[j]]
      /\ invitations'[i] = [email |-> call[c].user, role |-> call[c].role,
                            status |-> "pending", expired |-> FALSE]
      /\ \A j \in DOMAIN invitations : invitations'[j] = invitations[j]
  BY <1>1 DEF MapSet
<1>3. call[c].user \in Emails /\ call[c].role \in Roles
  BY DEF InviteCreate, At, CallsInv, Well
<1>4. StoresInv'
  <2>1. \A j \in DOMAIN invitations' :
          invitations'[j] \in [email : Emails, role : Roles, expired : BOOLEAN,
                              status : {"pending", "accepted", "revoked"}]
    <3>1. TAKE j \in DOMAIN invitations'
    <3>2. CASE j = i
      BY <3>2, <1>2, <1>3
    <3>3. CASE j \in DOMAIN invitations
      BY <3>3, <1>2 DEF StoresInv
    <3> QED BY <3>2, <3>3, <1>2
  <2>2. UNCHANGED <<members, drawn, admitted, unmarked, hadOwner, staleWrite>>
    BY DEF InviteCreate
  <2> QED BY <1>2, <2>1, <2>2 DEF StoresInv
<1>5. Finish(c) /\ ~At(c, "mark")
  BY DEF InviteCreate, At
<1>6. UNCHANGED <<members, drawn, admitted, unmarked, hadOwner, staleWrite>>
  BY DEF InviteCreate
<1>7. /\ DOMAIN invitations \subseteq DOMAIN invitations'
      /\ \A j \in DOMAIN invitations' :
           /\ invitations'[j].status = "pending" =>
                j \notin DOMAIN invitations \/ invitations[j].status = "pending"
           /\ invitations'[j].status = "accepted" => admitted[j] > 0
  BY <1>2 DEF AcceptedAdmitted
<1> QED BY <1>4, <1>5, <1>6, <1>7, InvitationsStep

LEMMA MarkStep ==
  ASSUME IInv, NEW c \in Calls, AcceptMark(c) \/ RevokeMark(c)
  PROVE  IInv'
<1> USE DEF IInv, history
<1> DEFINE i == call[c].inv
           status == invitations'[i].status
<1>1. /\ Finish(c) /\ UNCHANGED <<members, drawn, admitted, unmarked, hadOwner, staleWrite>>
      /\ i \in DOMAIN invitations
      /\ \/ At(c, "mark") /\ invitations' = [invitations EXCEPT ![i].status = "accepted"]
         \/ At(c, "revoke") /\ invitations' = [invitations EXCEPT ![i].status = "revoked"]
  BY DEF AcceptMark, RevokeMark, CallsInv, Well, At
<1>2. /\ DOMAIN invitations' = DOMAIN invitations
      /\ \A j \in DOMAIN invitations \ {i} : invitations'[j] = invitations[j]
      /\ \/ At(c, "mark") /\ status = "accepted"
         \/ At(c, "revoke") /\ status = "revoked"
  BY <1>1 DEF StoresInv
<1>3. StoresInv'
  BY <1>1 DEF StoresInv
<1>4. At(c, "mark") => admitted[i] > 0
  BY DEF CallsInv, Well, At
<1> QED BY <1>1, <1>2, <1>3, <1>4, InvitationsStep DEF AcceptedAdmitted

LEMMA ExpireStep ==
  ASSUME IInv, NEW i \in DOMAIN invitations, Expire(i)
  PROVE  IInv'
<1> USE DEF IInv, history
<1>1. /\ DOMAIN invitations' = DOMAIN invitations
      /\ \A j \in DOMAIN invitations : invitations'[j].status = invitations[j].status
  BY DEF Expire, StoresInv
<1>2. StoresInv'
  BY DEF Expire, StoresInv
<1>3. PICK c \in Calls : TRUE
  BY CallsAssumption
<1>4. \A d \in Calls : \A j : Finish(d) /\ At(d, "mark") => call[d].inv # j
  <2>1. SUFFICES ASSUME NEW d \in Calls, Finish(d), At(d, "mark")  PROVE FALSE
    OBVIOUS
  <2> QED BY <2>1 DEF Expire, Finish, At, Idle, CallsInv
<1> QED BY <1>1, <1>2, <1>3, <1>4, InvitationsStep DEF Expire, AcceptedAdmitted

LEMMA WriteMemberStep ==
  ASSUME IInv, NEW c \in Calls, WriteMember(c)
  PROVE  IInv'
<1> USE DEF IInv
<1> DEFINE id == call[c].id
           role == call[c].role
<1>1. /\ call[c].pc = "write" /\ Well(call[c]) /\ id \in drawn /\ role \in Roles \union {NULL}
      /\ UNCHANGED <<invitations, drawn, admitted, unmarked>>
      /\ staleWrite' = (staleWrite \/ call[c].stale)
      /\ FinishWrite(c)
  BY DEF WriteMember, At, CallsInv, Well, Locals
<1>2. /\ DOMAIN members' \subseteq DOMAIN members
      /\ \A m \in DOMAIN members' :
           /\ m # id => members'[m] = members[m]
           /\ m = id => role \in Roles
                        /\ members'[m] = [user |-> members[m].user, role |-> role]
      /\ \A m \in DOMAIN members \ {id} : m \in DOMAIN members'
      /\ members' = [m \in DOMAIN members' |-> members'[m]]
      /\ role = Owner => id \in DOMAIN members'
      /\ hadOwner' \in BOOLEAN
      /\ hadOwner' => hadOwner \/ role = Owner
  <2>1. CASE role = NULL
    BY <2>1, NullAssumption DEF WriteMember, MapDelete, StoresInv
  <2>2. CASE role # NULL
    <3>1. /\ id \in DOMAIN members /\ members' = [members EXCEPT ![id].role = role]
          /\ hadOwner' = (hadOwner \/ role = Owner)
      BY <2>2 DEF WriteMember
    <3> QED BY <2>2, <3>1, <1>1 DEF StoresInv
  <2> QED BY <2>1, <2>2
<1>3. StoresInv'
  <2>1. staleWrite' \in BOOLEAN
    BY <1>1 DEF Well, Locals, StoresInv
  <2>2. \A m \in DOMAIN members' : members'[m] \in [user : Users, role : Roles]
    BY <1>2 DEF StoresInv
  <2> QED BY <1>1, <1>2, <2>1, <2>2 DEF StoresInv
<1>4. /\ \A m \in Owners : m # id => m \in Owners'
      /\ \A m \in Owners' : m # id => m \in Owners
      /\ role = Owner => id \in Owners'
      /\ role # Owner => id \notin Owners'
  BY <1>2 DEF Owners
<1>5. \A d \in Calls :
        /\ d = c => call'[d] = Idle
        /\ d # c => \/ /\ call[d].pc \in {"owners", "write"} /\ Owners' # Owners
                       /\ call'[d] = [call[d] EXCEPT !.stale = TRUE]
                    \/ /\ ~(call[d].pc \in {"owners", "write"} /\ Owners' # Owners)
                       /\ call'[d] = call[d]
  BY <1>1 DEF FinishWrite
<1>6. CallsInv'
  <2>1. ASSUME NEW d \in Calls  PROVE Well(call[d])'
    <3>1. CASE d = c
      <4>1. call'[d] = Idle
        BY <3>1, <1>5
      <4> QED BY <4>1 DEF Well, Idle, Locals, Pcs, EnteringPcs, WritesSafely
    <3>2. CASE d # c /\ call[d].pc \in {"owners", "write"} /\ Owners' # Owners
      <4>1. Well(call[d]) /\ call'[d] = [call[d] EXCEPT !.stale = TRUE]
        BY <3>2, <1>5 DEF CallsInv
      <4>2. /\ call'[d] \in Locals /\ call'[d].stale /\ call'[d].pc = call[d].pc
            /\ call'[d].id = call[d].id /\ call'[d].inv = call[d].inv
        BY <4>1 DEF Well, Locals
      <4> QED BY <3>2, <4>1, <4>2, <1>1 DEF Well, EnteringPcs, WritesSafely
    <3>3. CASE d # c /\ ~(call[d].pc \in {"owners", "write"} /\ Owners' # Owners)
      <4>1. Well(call[d]) /\ call'[d] = call[d]
        BY <3>3, <1>5 DEF CallsInv
      <4> QED BY <3>3, <4>1, <1>1 DEF Well, WritesSafely
    <3> QED BY <3>1, <3>2, <3>3
  <2>2. call' = [d \in Calls |-> call'[d]]
    BY <1>1 DEF FinishWrite
  <2> QED BY <2>1, <2>2 DEF CallsInv, Well
<1>7. \A d \in Calls : /\ d # c => call'[d].pc = call[d].pc /\ call'[d].inv = call[d].inv
                       /\ d = c => call'[d].pc = "idle"
  <2>1. call'[c].pc = "idle"
    <3>1. call'[c] = Idle
      BY <1>5
    <3> QED BY <3>1 DEF Idle
  <2>2. ASSUME NEW d \in Calls, d # c
        PROVE  call'[d].pc = call[d].pc /\ call'[d].inv = call[d].inv
    <3>1. call[d] \in Locals /\ (call'[d] = call[d] \/ call'[d] = [call[d] EXCEPT !.stale = TRUE])
      BY <2>2, <1>5 DEF CallsInv
    <3> QED BY <3>1 DEF Locals
  <2> QED BY <2>1, <2>2
<1>8. SeatsInv'
  <2>1. Passed' \in SUBSET Passed
    BY <1>7 DEF Passed, At
  <2>2. Cardinality(Passed') <= Cardinality(Passed)
    BY <2>1, Smaller, CountedSets
  <2>3. Cardinality(DOMAIN members') <= Cardinality(DOMAIN members)
        /\ Cardinality(DOMAIN members') \in Nat
    BY <1>2, FS_Subset, FS_CardinalityType, MembersFinite
  <2> QED BY <2>1, <2>2, <2>3, CallSets, CountedSets, MembersFinite, SeatAssumption DEF SeatsInv
<1>9. ASSUME NEW i \in Invitations  PROVE AdmissionsInv(i)'
  <2>1. Entering(i)' = Entering(i) /\ Marking(i)' = Marking(i)
    BY <1>1, <1>7 DEF Entering, Marking, At, EnteringPcs
  <2> QED BY <2>1, <1>1 DEF AdmissionsInv
<1>10. AcceptedAdmitted'
  BY <1>1 DEF AcceptedAdmitted
<1>11. OwnerLostOnlyByStaleWrite'
  <2>1. SUFFICES ASSUME hadOwner', Owners' = {}, ~staleWrite'  PROVE FALSE
    BY DEF OwnerLostOnlyByStaleWrite
  <2>2. role # Owner /\ hadOwner /\ ~call[c].stale /\ ~staleWrite
    BY <2>1, <1>1, <1>2, <1>4
  <2>3. Owners # {}
    BY <2>2 DEF OwnerLostOnlyByStaleWrite
  <2>4. id \in Owners
    BY <2>1, <2>3, <1>4
  <2>5. \E o \in Owners : o # id
    BY <2>2, <2>4, <1>1 DEF Well, WritesSafely
  <2> QED BY <2>1, <2>5, <1>4
<1> QED BY <1>3, <1>6, <1>8, <1>9, <1>10, <1>11

-----------------------------------------------------------------------------
(* The invariant *)

LEMMA InitInv == Init => IInv
<1> SUFFICES ASSUME Init  PROVE IInv
  OBVIOUS
<1>1. DOMAIN members = {} /\ DOMAIN invitations = {} /\ DOMAIN call = Calls
  BY DEF Init, EmptyMap
<1>2. StoresInv
  BY <1>1 DEF Init, StoresInv, EmptyMap
<1>3. \A c \in Calls : call[c] = Idle
  BY DEF Init
<1>4. Idle \in Locals
  BY DEF Idle, Locals, Pcs
<1>5. CallsInv
  BY <1>2, <1>3, <1>4, IdleIsWell DEF Init, CallsInv
<1>6. Passed = {}
  BY <1>3 DEF Passed, At, Idle
<1>7. \A i : Entering(i) = {}
  BY <1>3 DEF Entering, EnteringPcs, Idle
<1>8. Cardinality({}) = 0
  BY FS_EmptySet
<1>9. SeatsInv
  BY <1>1, <1>6, <1>8, SomebodyCalls, CallSets, SeatAssumption DEF SeatsInv
<1>10. \A i \in Invitations : AdmissionsInv(i)
  BY <1>1, <1>7, <1>8, CallSets DEF Init, AdmissionsInv
<1>11. AcceptedAdmitted /\ OwnerLostOnlyByStaleWrite
  BY <1>1 DEF Init, AcceptedAdmitted, OwnerLostOnlyByStaleWrite
<1> QED BY <1>2, <1>5, <1>9, <1>10, <1>11 DEF IInv

LEMMA ServeStep ==
  ASSUME IInv, NEW c \in Calls, Serve(c)
  PROVE  IInv'
<1> DEFINE Stays == UNCHANGED <<members, invitations, drawn, admitted, unmarked, hadOwner, staleWrite>>
<1> USE DEF IInv, history
<1>1. CASE AddCount(c)
  <2>1. Stays /\ At(c, "count") /\ ~At(c, "mark")
    BY <1>1 DEF AddCount, At
  <2>2. CASE HasSeat
    BY <1>1, <2>1, <2>2, GoesOn DEF AddCount, HasSeat
  <2>3. CASE ~HasSeat
    BY <1>1, <2>1, <2>3, FinishStep DEF AddCount, HasSeat, StoresInv
  <2> QED BY <2>2, <2>3
<1>2. CASE AddCreate(c)
  BY <1>2, AddCreateStep
<1>3. CASE AddRefused(c) \/ UpdateRefused(c)
  <2>1. Stays /\ ~At(c, "mark") /\ Finish(c)
    BY <1>3 DEF AddRefused, UpdateRefused, At
  <2> QED BY <2>1, FinishStep DEF StoresInv
<1>4. CASE OwnersCheck(c)
  <2>1. Stays /\ At(c, "owners") /\ ~At(c, "mark")
    BY <1>4 DEF OwnersCheck, At
  <2>2. CASE Cardinality(Owners) <= 1
    BY <1>4, <2>1, <2>2, FinishStep DEF OwnersCheck, StoresInv
  <2>3. CASE ~(Cardinality(Owners) <= 1)
    <3>1. Cardinality(Owners) > 1
      BY <2>3, MembersFinite
    <3> QED BY <1>4, <2>1, <2>3, <3>1, GoesOn DEF OwnersCheck
  <2> QED BY <2>2, <2>3
<1>5. CASE WriteMember(c)
  BY <1>5, WriteMemberStep
<1>6. CASE InviteCount(c)
  <2>1. Stays /\ At(c, "seats") /\ ~At(c, "mark")
    BY <1>6 DEF InviteCount, At
  <2>2. CASE HasSeat
    BY <1>6, <2>1, <2>2, GoesOn DEF InviteCount
  <2>3. CASE ~HasSeat
    BY <1>6, <2>1, <2>3, FinishStep DEF InviteCount, StoresInv
  <2> QED BY <2>2, <2>3
<1>7. CASE InviteCreate(c)
  BY <1>7, InviteCreateStep
<1>8. CASE AcceptLookup(c)
  <2>1. Stays /\ At(c, "lookup") /\ ~At(c, "mark")
    BY <1>8 DEF AcceptLookup, At
  <2>2. CASE call[c].user \in MemberUsers
    BY <1>8, <2>1, <2>2, FinishStep DEF AcceptLookup, StoresInv
  <2>3. CASE call[c].user \notin MemberUsers
    BY <1>8, <2>1, <2>3, GoesOn DEF AcceptLookup
  <2> QED BY <2>2, <2>3
<1>9. CASE AcceptMark(c) \/ RevokeMark(c)
  BY <1>9, MarkStep
<1> QED BY <1>1, <1>2, <1>3, <1>4, <1>5, <1>6, <1>7, <1>8, <1>9 DEF Serve

LEMMA AbortStep ==
  ASSUME IInv, NEW c \in Calls, Abort(c)
  PROVE  IInv'
<1>1. At(c, "mark") => call[c].inv \in DOMAIN invitations
  BY DEF IInv, CallsInv, Well, At
<1>2. /\ Finish(c) /\ UNCHANGED <<members, invitations, drawn, admitted, hadOwner, staleWrite>>
      /\ unmarked \subseteq unmarked' /\ unmarked' \subseteq DOMAIN invitations
      /\ At(c, "mark") => call[c].inv \in unmarked'
  BY <1>1 DEF Abort, IInv, StoresInv
<1> QED BY <1>2, FinishStep

LEMMA StutterStep ==
  ASSUME IInv, UNCHANGED vars
  PROVE  IInv'
<1> USE DEF IInv, vars, history
<1>1. CallsInv'
  BY DEF CallsInv, Well, WritesSafely, Owners
<1>2. StoresInv' /\ AcceptedAdmitted' /\ OwnerLostOnlyByStaleWrite'
  BY DEF StoresInv, AcceptedAdmitted, OwnerLostOnlyByStaleWrite, Owners
<1>3. SeatsInv'
  BY DEF SeatsInv, Passed, At
<1>4. \A i \in Invitations : AdmissionsInv(i)'
  BY DEF AdmissionsInv, Entering, Marking, At
<1> QED BY <1>1, <1>2, <1>3, <1>4

LEMMA NextInv == IInv /\ [Next]_vars => IInv'
<1> SUFFICES ASSUME IInv, [Next]_vars  PROVE IInv'
  OBVIOUS
<1>1. ASSUME NEW c \in Calls, Request(c) \/ Serve(c) \/ Abort(c)  PROVE IInv'
  BY <1>1, RequestStep, ServeStep, AbortStep
<1>2. ASSUME NEW i \in DOMAIN invitations, Expire(i)  PROVE IInv'
  BY <1>2, ExpireStep
<1>3. CASE UNCHANGED vars
  BY <1>3, StutterStep
<1> QED BY <1>1, <1>2, <1>3 DEF Next

LEMMA Invariance == Spec => []IInv
<1>1. Init => IInv
  BY InitInv
<1>2. IInv /\ [Next]_vars => IInv'
  BY NextInv
<1> QED BY <1>1, <1>2, PTL DEF Spec

-----------------------------------------------------------------------------
(* What the invariant says *)

\* The two stores, the locals of every request and the histories keep their
\* types, whatever number of requests is in flight.
THEOREM TypeCorrect == Spec => []TypeOK
<1>1. IInv => TypeOK
  BY DEF IInv, StoresInv, CallsInv, Well, Locals, TypeOK
<1> QED BY <1>1, Invariance, PTL

\* addMember and acceptInvitation exceed maxMembers by the requests in flight
\* less one, and never by more.
THEOREM Seats == Spec => []SeatsWithinOverlap
<1>1. IInv => SeatsWithinOverlap
  BY CallSets, CountedSets, MembersFinite, SeatAssumption DEF IInv, SeatsInv, SeatsWithinOverlap
<1> QED BY <1>1, Invariance, PTL

\* An invitation whose acceptances all reached their end admitted no more users
\* than there were requests at once.
THEOREM Admissions == Spec => []AdmissionsWithinOverlap
<1>1. IInv => AdmissionsWithinOverlap
  BY CallSets, CountedSets DEF IInv, AdmissionsInv, StoresInv, AdmissionsWithinOverlap
<1> QED BY <1>1, Invariance, PTL

\* acceptInvitation marks an invitation only after it made somebody a member.
THEOREM AcceptedWereAdmitted == Spec => []AcceptedAdmitted
<1>1. IInv => AcceptedAdmitted
  BY DEF IInv
<1> QED BY <1>1, Invariance, PTL

\* removeMember and updateMemberRole leave an organization without an owner only
\* by writing after another request changed who the owners are.
THEOREM OwnerLoss == Spec => []OwnerLostOnlyByStaleWrite
<1>1. IInv => OwnerLostOnlyByStaleWrite
  BY DEF IInv
<1> QED BY <1>1, Invariance, PTL
=============================================================================
