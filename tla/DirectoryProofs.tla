-------------------------- MODULE DirectoryProofs --------------------------
(***************************************************************************)
(* Theorems about the users and groups of a directory, for any number of   *)
(* users, groups and requests, and for requests of any length.             *)
(***************************************************************************)
EXTENDS Directory, FiniteSetTheorems, SequenceTheorems, TLAPS

-----------------------------------------------------------------------------
(* The local variables of a request *)

Pcs ==
  {"idle", "external", "email", "create", "write", "look", "announce", "remove", "tell",
   "lookGroup", "members", "findGroup", "createGroup", "updateGroup", "setMembers",
   "announceGroup", "removeGroup", "listGroups", "pruneGroups", "listUsers", "prune"}

Reads == [email : Emails, externalId : ExternalIds \union {NULL}]

Locals ==
  [pc : Pcs, request : Requests \union {NULL}, at : Nat, user : Users \union {NULL},
   read : Reads \union {NULL}, status : BOOLEAN, group : Groups \union {NULL},
   key : ExternalIds \union {NULL}, refs : SUBSET References,
   members : SUBSET References, doomed : SUBSET (Users \union Groups),
   made : UNION {[S -> Users] : S \in SUBSET (ExternalIds \union Emails)}, errors : Nat,
   half : Users \union {NULL}, own : SUBSET Users]

\* Where an operation starts; where a user is about to be written or told of.
StartPcs == {"external", "email", "look", "lookGroup", "members", "findGroup", "updateGroup",
             "listGroups"}
HandPcs == {"write", "announce", "tell", "remove"}

\* What the place of a request says of the operation it is in.
PlaceOK(k) ==
  /\ k.request \in Requests /\ k.at # 0
  /\ ~InOps(k) => Via(k) = "sync" /\ k.pc \in {"listUsers", "prune", "tell", "remove"}
  /\ k.pc \in {"listUsers", "prune"} => ~InOps(k)
  /\ k.pc \in {"external", "email", "create"} => Kind(k) = "push"
  /\ k.pc = "external" => Op(k).externalId # NULL
  /\ k.pc = "create" => Op(k).email \in Emails
  /\ k.pc = "look" => Kind(k) \in {"put", "remove"}
  /\ k.pc = "write" => Kind(k) \in {"push", "put"}
  /\ k.pc = "write" /\ Kind(k) = "push" => Op(k).email # NULL \/ Op(k).externalId # NULL
  /\ k.pc = "write" => k.read \in Reads
  /\ k.pc = "tell" /\ Kind(k) = "push" => k.read \in Reads
  /\ k.pc = "announce" => Kind(k) = "remove" /\ TellsFirst(k)
  /\ k.pc = "tell" => Kind(k) \in {"push", "put", "remove", "prune"}
  /\ k.pc = "remove" => Kind(k) \in {"remove", "prune"}
  /\ k.pc \in {"members", "findGroup", "createGroup"} => k.key # NULL
  /\ k.pc = "pruneGroups" => k.doomed \subseteq Groups
  /\ InOps(k) \/ k.pc = "listUsers" => k.doomed \subseteq Groups

\* Whose event is due: told before a removal, or after a change.
HandOK(k) ==
  /\ k.pc \in HandPcs => k.user \in Users
  /\ k.half # NULL => k.half = k.user /\ k.pc \in {"tell", "remove"}
  /\ k.pc = "tell" /\ ~TellsFirst(k) => k.half = k.user
  /\ k.pc = "tell" /\ TellsFirst(k) => k.status = FALSE
  /\ k.pc = "remove" /\ ~TellsFirst(k) => k.half = NULL
  /\ k.own # {} => Via(k) = "sync"

LocalOK(k) ==
  /\ k \in Locals
  /\ k.pc = "idle" => k.half = NULL /\ k.own = {} /\ k.user = NULL /\ k.doomed = {}
  /\ k.pc # "idle" => PlaceOK(k) /\ HandOK(k)

\* r starts another operation of the request k is in, or removes users, or ends.
Starts(k, r) ==
  /\ LocalOK(r)
  /\ r.half = NULL /\ r.user = NULL
  /\ r = Idle \/ (r.pc \in StartPcs \union {"listUsers"} /\ r.request = k.request /\ r.own = k.own)
  /\ r.pc = "email" => Op(r).externalId = NULL
  /\ r.doomed = k.doomed \/ r.doomed = {}

LEMMA RequestsAre ==
  ASSUME NEW r \in Requests
  PROVE  /\ r.via \in {"scim", "bulk", "event", "sync"} /\ r.failOnErrors \in Nat
         /\ r.ops \in Seq(Operations) /\ Len(r.ops) \in Nat /\ DOMAIN r.ops = 1 .. Len(r.ops)
         /\ r.prune # "no" => r.via = "sync"
         /\ \A i \in 1 .. Len(r.ops) :
              /\ r.ops[i] \in Operations
              /\ r.ops[i].kind = "push" => r.ops[i].active \in BOOLEAN
              /\ r.ops[i].kind = "put" => r.via \in {"scim", "bulk"}
              /\ r.via = "sync" => r.ops[i].kind \in {"push", "group"}
<1>1. r \in [via : {"scim", "bulk", "event", "sync"}, ops : Seq(Operations),
             failOnErrors : Nat, prune : {"no", "soft", "hard"}]
  BY RequestsAssumption
<1>2. Len(r.ops) \in Nat /\ DOMAIN r.ops = 1 .. Len(r.ops)
      /\ \A i \in 1 .. Len(r.ops) : r.ops[i] \in Operations
  BY <1>1
<1> QED BY <1>1, <1>2, RequestsAssumption

LEMMA NullIsNobody == NULL \notin Users /\ NULL \notin Groups /\ NULL \notin Emails /\ NULL \notin ExternalIds
BY DirectoryAssumption

LEMMA IdleIsOK == LocalOK(Idle) /\ Idle.pc = "idle" /\ Idle.own = {} /\ Idle.at = 0
                  /\ Idle.half = NULL /\ Idle.user = NULL /\ Idle.doomed = {}
<1>1. EmptyMap \in [{} -> Users] /\ {} \in SUBSET (ExternalIds \union Emails)
  BY DEF EmptyMap
<1>2. Idle \in Locals
  BY <1>1 DEF Idle, Locals, Pcs
<1> QED BY <1>2 DEF LocalOK, Idle

\* The members an operation has before any of them is looked up.
LEMMA ResolvedAreReferences ==
  ASSUME NEW k \in Locals, k.request \in Requests, NEW n \in 1 .. Len(k.request.ops)
  PROVE  Resolved(k, k.request.ops[n]) \in SUBSET References
<1> DEFINE op == k.request.ops[n]
<1>1. op.members = NULL \/ op.members \subseteq References
  BY RequestsAre DEF Operations
<1>2. PICK S \in SUBSET (ExternalIds \union Emails) : k.made \in [S -> Users]
  BY DEF Locals
<1>3. {k.made[x] : x \in op.members \intersect DOMAIN k.made} \subseteq Users
  BY <1>2
<1> HIDE DEF op
<1> QED BY <1>1, <1>3 DEF Resolved, References, op

\* The local variables at the start of an operation.
FreshAt(k, n) ==
  LET op == k.request.ops[n]
  IN  [k EXCEPT !.at = n, !.user = NULL, !.read = NULL, !.group = NULL, !.half = NULL,
                !.key = IF op.kind = "group" THEN op.externalId ELSE NULL,
                !.refs = IF op.members = NULL \/ op.byReference THEN {} ELSE op.members,
                !.members = Resolved(k, op)]

\* Only the place is set.
LEMMA SetPc ==
  ASSUME NEW k \in Locals, NEW pc \in Pcs
  PROVE  /\ [k EXCEPT !.pc = pc] \in Locals
         /\ LET r == [k EXCEPT !.pc = pc]
            IN  /\ r.pc = pc /\ r.request = k.request /\ r.at = k.at /\ r.user = k.user
                /\ r.read = k.read /\ r.status = k.status /\ r.group = k.group /\ r.key = k.key
                /\ r.refs = k.refs /\ r.members = k.members /\ r.doomed = k.doomed
                /\ r.made = k.made /\ r.errors = k.errors /\ r.half = k.half /\ r.own = k.own
BY DEF Locals

\* Via, Op and Kind depend on the request and the place in it.
LEMMA SameOp ==
  ASSUME NEW k, NEW r, r.request = k.request, r.at = k.at
  PROVE  /\ Via(r) = Via(k) /\ InOps(r) = InOps(k) /\ Op(r) = Op(k) /\ Kind(r) = Kind(k)
         /\ TellsFirst(r) = TellsFirst(k)
BY DEF Via, InOps, Op, Kind, TellsFirst

LEMMA FreshIs ==
  ASSUME NEW k \in Locals, k.request \in Requests, NEW n \in 1 .. Len(k.request.ops)
  PROVE  LET r == FreshAt(k, n)
             op == k.request.ops[n]
         IN  /\ r \in Locals /\ r.request = k.request /\ r.at = n /\ r.user = NULL
             /\ r.half = NULL /\ r.own = k.own /\ r.doomed = k.doomed /\ r.pc = k.pc
             /\ r.key = IF op.kind = "group" THEN op.externalId ELSE NULL
             /\ r.refs = IF op.members = NULL \/ op.byReference THEN {} ELSE op.members
             /\ Via(r) = Via(k) /\ InOps(r) /\ Op(r) = op /\ Kind(r) = op.kind
<1> DEFINE op == k.request.ops[n]
<1> DEFINE key == IF op.kind = "group" THEN op.externalId ELSE NULL
<1> DEFINE refs == IF op.members = NULL \/ op.byReference THEN {} ELSE op.members
<1>1. op \in Operations /\ Len(k.request.ops) \in Nat
  BY RequestsAre
<1>2. key \in ExternalIds \union {NULL} /\ refs \in SUBSET References /\ n \in Nat
  BY <1>1 DEF Operations
<1>3. PICK members : members = Resolved(k, op)
  OBVIOUS
<1>4. members \in SUBSET References
  BY <1>3, ResolvedAreReferences
<1>5. FreshAt(k, n) = [k EXCEPT !.at = n, !.user = NULL, !.read = NULL, !.group = NULL,
                                !.half = NULL, !.key = key, !.refs = refs, !.members = members]
  BY <1>3 DEF FreshAt
<1> HIDE DEF key, refs
<1>6. /\ FreshAt(k, n) \in Locals
      /\ LET r == FreshAt(k, n)
         IN  /\ r.request = k.request /\ r.at = n /\ r.user = NULL /\ r.half = NULL
             /\ r.own = k.own /\ r.doomed = k.doomed /\ r.pc = k.pc /\ r.key = key /\ r.refs = refs
  BY <1>2, <1>4, <1>5, ZenonT(60) DEF Locals
<1> HIDE DEF op
<1>7. LET r == FreshAt(k, n)
      IN  Via(r) = Via(k) /\ InOps(r) /\ Op(r) = op /\ Kind(r) = op.kind
  BY <1>6 DEF Via, InOps, Op, Kind, op
<1> QED BY <1>6, <1>7 DEF key, refs, op

\* Once its members are known a group has a key, whose group is found or written.
LEMMA MembersKnownIs ==
  ASSUME NEW k \in Locals
  PROVE  \E pc \in {"members", "updateGroup", "findGroup"} :
           MembersKnown(k) = [k EXCEPT !.pc = pc]
BY DEF MembersKnown

LEMMA EnterStarts ==
  ASSUME NEW k \in Locals, k.request \in Requests, NEW n \in 1 .. Len(k.request.ops),
         k.doomed \subseteq Groups, k.own # {} => Via(k) = "sync"
  PROVE  Starts(k, Enter(k, n))
<1> DEFINE op == k.request.ops[n]
<1>1. PICK f : f = FreshAt(k, n)
  OBVIOUS
<1>2. /\ f \in Locals /\ f.request = k.request /\ f.at = n /\ f.user = NULL
      /\ f.half = NULL /\ f.own = k.own /\ f.doomed = k.doomed
      /\ f.key = IF op.kind = "group" THEN op.externalId ELSE NULL
      /\ Via(f) = Via(k) /\ InOps(f) /\ Op(f) = op /\ Kind(f) = op.kind
  BY <1>1, FreshIs
<1>0. f.at # 0
  BY <1>2
<1>3. op \in Operations /\ (op.kind = "push" => op.active \in BOOLEAN)
  BY RequestsAre
<1>4. ASSUME NEW pc \in StartPcs,
             pc \in {"external", "email"} => op.kind = "push",
             pc = "external" => op.externalId # NULL, pc = "email" => op.externalId = NULL,
             pc = "look" => op.kind \in {"put", "remove"},
             pc \in {"members", "findGroup"} => f.key # NULL
      PROVE  Starts(k, [f EXCEPT !.pc = pc])
  <2>1. PICK r : r = [f EXCEPT !.pc = pc]
    OBVIOUS
  <2>2. /\ r \in Locals /\ r.pc = pc /\ r.request = k.request /\ r.at = f.at /\ r.user = NULL
        /\ r.half = NULL /\ r.own = k.own /\ r.doomed = k.doomed /\ r.key = f.key
    <3>1. pc \in Pcs
      BY <1>4 DEF StartPcs, Pcs
    <3> QED BY <1>2, <2>1, <3>1, SetPc
  <2>3. InOps(r) /\ Op(r) = op /\ Kind(r) = op.kind /\ Via(r) = Via(k)
    BY <1>2, <2>2, SameOp
  <2>4. PlaceOK(r)
    BY <1>0, <1>4, <2>2, <2>3 DEF PlaceOK, StartPcs
  <2>5. HandOK(r)
    BY <1>4, <2>2, <2>3 DEF HandOK, StartPcs, HandPcs
  <2>6. LocalOK(r) /\ r.pc # "idle"
    BY <1>4, <2>2, <2>4, <2>5 DEF LocalOK, StartPcs
  <2> QED BY <1>4, <2>1, <2>2, <2>3, <2>6 DEF Starts
<1>5. Enter(k, n) =
        CASE op.kind = "push" -> Provision(f, op)
          [] op.kind \in {"put", "remove"} -> [f EXCEPT !.pc = "look"]
          [] op.kind \in {"regroup", "ungroup"} -> [f EXCEPT !.pc = "lookGroup"]
          [] op.kind = "group" ->
               IF op.externalId = NULL THEN [f EXCEPT !.pc = "listGroups"] ELSE MembersKnown(f)
  BY <1>1 DEF Enter, FreshAt
<1> HIDE DEF op
<1>6. CASE op.kind = "push"
  <2>1. CASE op.externalId = NULL
    BY <1>4, <1>5, <1>6, <2>1 DEF Provision, StartPcs
  <2>2. CASE op.externalId # NULL
    BY <1>4, <1>5, <1>6, <2>2 DEF Provision, StartPcs
  <2> QED BY <2>1, <2>2
<1>7. CASE op.kind \in {"put", "remove"}
  BY <1>4, <1>5, <1>7 DEF StartPcs
<1>8. CASE op.kind \in {"regroup", "ungroup"}
  BY <1>4, <1>5, <1>8 DEF StartPcs
<1>9. CASE op.kind = "group"
  <2>1. CASE op.externalId = NULL
    BY <1>4, <1>5, <1>9, <2>1 DEF StartPcs
  <2>2. CASE op.externalId # NULL
    <3>1. PICK pc \in {"members", "updateGroup", "findGroup"} :
            MembersKnown(f) = [f EXCEPT !.pc = pc]
      BY <1>2, MembersKnownIs
    <3>2. Enter(k, n) = [f EXCEPT !.pc = pc]
      BY <1>5, <1>9, <2>2, <3>1
    <3>3. f.key # NULL
      BY <1>2, <1>9, <2>2
    <3> QED BY <1>4, <3>2, <3>3 DEF StartPcs
  <2> QED BY <2>1, <2>2
<1> QED BY <1>3, <1>6, <1>7, <1>8, <1>9 DEF Operations

\* A request whose doomed are groups, or that is past its operations, goes on.
LEMMA AfterStarts ==
  ASSUME NEW k \in Locals, k.request \in Requests,
         InOps(k) \/ k.at = 0 => k.doomed \subseteq Groups, k.own # {} => Via(k) = "sync"
  PROVE  Starts(k, After(k))
<1>1. Len(k.request.ops) \in Nat /\ k.at \in Nat /\ (k.request.prune # "no" => Via(k) = "sync")
  BY RequestsAre DEF Locals, Via
<1>2. CASE k.at < Len(k.request.ops)
  <2>1. k.at + 1 \in 1 .. Len(k.request.ops) /\ k.doomed \subseteq Groups
    BY <1>1, <1>2 DEF InOps
  <2> QED BY <1>2, <2>1, EnterStarts DEF After
<1>3. CASE /\ ~(k.at < Len(k.request.ops))
           /\ k.at <= Len(k.request.ops) /\ k.request.prune # "no"
  <2>1. PICK r : r = [k EXCEPT !.at = k.at + 1, !.pc = "listUsers", !.user = NULL, !.read = NULL,
                               !.half = NULL, !.group = NULL, !.key = NULL, !.members = {}]
    OBVIOUS
  <2>2. /\ r \in Locals /\ r.pc = "listUsers" /\ r.request = k.request /\ r.at = k.at + 1
        /\ r.user = NULL /\ r.half = NULL /\ r.own = k.own /\ r.doomed = k.doomed
    <3>1. k.at + 1 \in Nat /\ "listUsers" \in Pcs
      BY <1>1 DEF Pcs
    <3> QED BY <2>1, <3>1 DEF Locals
  <2>3. ~InOps(r) /\ Via(r) = "sync"
    BY <1>1, <1>3, <2>2 DEF InOps, Via
  <2>4. k.doomed \subseteq Groups
    BY <1>1, <1>3 DEF InOps
  <2>5. PlaceOK(r) /\ HandOK(r)
    <3>1. r.at # 0
      BY <1>1, <2>2
    <3> QED BY <2>2, <2>3, <2>4, <3>1 DEF PlaceOK, HandOK, HandPcs
  <2>6. After(k) = r
    BY <1>3, <2>1 DEF After
  <2> QED BY <2>2, <2>5, <2>6 DEF Starts, LocalOK
<1>4. CASE /\ ~(k.at < Len(k.request.ops))
           /\ ~(k.at <= Len(k.request.ops) /\ k.request.prune # "no")
  BY <1>4, IdleIsOK DEF After, Starts
<1> QED BY <1>2, <1>3, <1>4

LEMMA FailedStarts ==
  ASSUME NEW k \in Locals, k.request \in Requests,
         InOps(k) \/ k.at = 0 => k.doomed \subseteq Groups, k.own # {} => Via(k) = "sync"
  PROVE  Starts(k, Failed(k))
<1>1. Starts(k, After(k)) /\ Starts(k, Idle)
  BY AfterStarts, IdleIsOK DEF Starts
<1>2. PICK r : r = [k EXCEPT !.errors = @ + 1]
  OBVIOUS
<1>3. /\ r \in Locals /\ r.request = k.request /\ r.at = k.at /\ r.doomed = k.doomed
      /\ r.own = k.own
  BY <1>2 DEF Locals
<1>4. Starts(r, After(r))
  BY <1>3, SameOp, AfterStarts
<1>5. Starts(k, After(r))
  BY <1>3, <1>4 DEF Starts
<1> QED BY <1>1, <1>2, <1>5 DEF Failed

-----------------------------------------------------------------------------
(* The state: types, and what a request has in its hands *)

GroupRows == [externalId : ExternalIds, active : BOOLEAN, members : SUBSET References]

UsersOK ==
  /\ users \in [DOMAIN users -> UserRows] /\ DOMAIN users \subseteq Users \intersect drawn
  /\ \A u \in DOMAIN users : users[u].deleted = TRUE => users[u].active = FALSE

GroupsOK ==
  groups \in [DOMAIN groups -> GroupRows] /\ DOMAIN groups \subseteq Groups \intersect drawn

HistoriesOK ==
  /\ drawn \subseteq Users \union Groups
  /\ told \in [Users -> BOOLEAN] /\ excused \subseteq Users /\ contested \subseteq ExternalIds

InHands(k) == k.user \in drawn \union {NULL} /\ k.own \subseteq drawn /\ k.doomed \subseteq drawn

CallsOK ==
  /\ calls \in [Calls -> Locals]
  /\ \A c \in Calls : LocalOK(calls[c]) /\ InHands(calls[c])

TypeInv == UsersOK /\ GroupsOK /\ HistoriesOK /\ CallsOK

\* An external id has one user that is not deleted and one group that is active.
Single(x) ==
  /\ \A u, v \in FindByExternalId(x) : u = v
  /\ \A g, h \in FindGroupByExternalId(x) : g = h

OnlyOne == \A x \in ExternalIds \ contested : Single(x)

\* What a request found is still so when it acts on it, for ids that are its own.
NothingFound(k) ==
  LET x == Op(k).externalId
  IN  k.pc \in {"email", "create"} /\ x # NULL /\ x \notin contested => FindByExternalId(x) = {}

FoundOnly(k) ==
  LET x == Op(k).externalId
  IN  k.pc = "write" /\ Kind(k) = "push" /\ x # NULL /\ x \notin contested =>
        FindByExternalId(x) \subseteq {k.user}

FoundListed(k) ==
  k.pc = "write" /\ Kind(k) = "push" /\ Op(k).externalId = NULL /\ k.user \in DOMAIN users
    /\ users[k.user].externalId \notin contested \union {NULL} => users[k.user].deleted = FALSE

NoGroupFound(k) ==
  k.pc = "createGroup" /\ k.key \notin contested => FindGroupByExternalId(k.key) = {}

Looked(k) == NothingFound(k) /\ FoundOnly(k) /\ FoundListed(k) /\ NoGroupFound(k)

-----------------------------------------------------------------------------
(* A step of a request that neither writes nor tells of a user: the request *)
(* goes on from k to r, and gives up what it has half done                  *)

Quietly(k, r, lapsed) ==
  /\ LocalOK(r)
  /\ r.user \in drawn \union {NULL} /\ r.doomed \subseteq drawn
  /\ r.own = {} \/ (r.own = k.own /\ r.request = k.request)
  /\ \/ r.doomed \intersect Users \subseteq k.doomed
     \/ \A u \in r.doomed : u \in DOMAIN users /\ ~InSource(k, u)
  /\ r.pc \in {"tell", "remove"} /\ ~InOps(r) =>
       r.user \in k.doomed \/ (k.pc \in {"tell", "remove"} /\ ~InOps(k) /\ r.user = k.user)
  /\ r.half \in lapsed \union {NULL} /\ k.half \in lapsed \union {NULL}
  /\ r.pc = "remove" /\ TellsFirst(r) => r.user \in lapsed
  /\ OnlyOne /\ Looked(k) => Looked(r)

\* Advance, but for the count of requests; Begin does as much.
Moves(c, r, lapsed, given) ==
  /\ calls' = [d \in Calls |-> IF d = c THEN r
                               ELSE [calls[d] EXCEPT !.own = @ \ {calls[c].user}]]
  /\ excused' = excused \union lapsed
       \union {u \in Users : r.half = u /\ \E d \in Calls \ {c} : calls[d].half = u}
  /\ contested' = contested \union given
       \union UNION {Busy(r, users') \intersect Busy(calls[d], users') : d \in Calls \ {c}}

Goes(c, lapsed) ==
  \E r \in Locals : Moves(c, r, lapsed, {}) /\ Quietly(calls[c], r, lapsed)

QuietStep(c) ==
  UNCHANGED <<stores, told>> /\ \E lapsed \in SUBSET Users : Goes(c, lapsed)

LEMMA GotoMoves ==
  ASSUME NEW c, NEW r
  PROVE  /\ Goto(c, r) => Moves(c, r, {}, {})
         /\ \A lapsed, given : Advance(c, r, lapsed, given) => Moves(c, r, lapsed, given)
BY DEF Goto, Advance, Moves

\* The request c goes on quietly as r.
LEMMA GoesOn ==
  ASSUME NEW c, NEW r \in Locals, NEW lapsed \in SUBSET Users, UNCHANGED <<stores, told>>,
         Advance(c, r, lapsed, {}) \/ (lapsed = {} /\ Goto(c, r)), Quietly(calls[c], r, lapsed)
  PROVE  QuietStep(c)
BY GotoMoves DEF QuietStep, Goes

\* What is known of a request in the middle of its way.
LEMMA InPlace ==
  ASSUME TypeInv, NEW c \in Calls, calls[c].pc # "idle"
  PROVE  /\ calls[c] \in Locals /\ calls[c].request \in Requests
         /\ PlaceOK(calls[c]) /\ HandOK(calls[c]) /\ InHands(calls[c])
         /\ calls[c].pc \notin {"tell", "remove"} => calls[c].half = NULL
         /\ InOps(calls[c]) => Op(calls[c]) \in Operations
         /\ calls[c].at # 0
         /\ calls[c].own # {} => Via(calls[c]) = "sync"
<1>1. /\ calls[c] \in Locals /\ PlaceOK(calls[c]) /\ HandOK(calls[c]) /\ InHands(calls[c])
  BY DEF TypeInv, CallsOK, LocalOK
<1>2. calls[c].request \in Requests
  BY <1>1 DEF PlaceOK
<1>3. InOps(calls[c]) => Op(calls[c]) \in Operations
  BY <1>2, RequestsAre DEF InOps, Op
<1> QED BY <1>1, <1>2, <1>3 DEF HandOK, PlaceOK

\* The start of another operation, or the end, is quiet.
LEMMA StartsQuietly ==
  ASSUME TypeInv, NEW c \in Calls, NEW r, Starts(calls[c], r), NEW lapsed,
         calls[c].half \in lapsed \union {NULL}
  PROVE  r \in Locals /\ Quietly(calls[c], r, lapsed)
<1> DEFINE k == calls[c]
<1>1. /\ LocalOK(r) /\ r.half = NULL /\ r.user = NULL
      /\ r = Idle \/ (r.pc \in StartPcs \union {"listUsers"} /\ r.request = k.request /\ r.own = k.own)
      /\ r.pc = "email" => Op(r).externalId = NULL
      /\ r.doomed = k.doomed \/ r.doomed = {}
  BY DEF Starts
<1>2. /\ r.pc \in StartPcs \union {"listUsers", "idle"}
      /\ r.own = {} \/ (r.own = k.own /\ r.request = k.request)
  BY <1>1, IdleIsOK
<1>3. InHands(k)
  BY DEF TypeInv, CallsOK
<1>4. r.user \in drawn \union {NULL} /\ r.doomed \subseteq drawn
      /\ r.doomed \intersect Users \subseteq k.doomed
  BY <1>1, <1>3 DEF InHands
<1>5. /\ r.pc \notin {"tell", "remove", "write", "create", "createGroup"}
      /\ r.half \in lapsed \union {NULL}
  BY <1>1, <1>2 DEF StartPcs
<1>6. Looked(r)
  BY <1>1, <1>5 DEF Looked, NothingFound, FoundOnly, FoundListed, NoGroupFound
<1> QED BY <1>1, <1>2, <1>4, <1>5, <1>6 DEF Quietly, LocalOK

LEMMA TookIs ==
  ASSUME TypeInv, NEW k \in Locals, NEW u \in DOMAIN users, NEW pc \in Pcs
  PROVE  LET r == Took(k, u, pc)
         IN  /\ r \in Locals /\ r.pc = pc /\ r.user = u /\ r.read \in Reads
             /\ r.request = k.request /\ r.at = k.at /\ r.half = k.half /\ r.own = k.own
             /\ r.doomed = k.doomed /\ u \in Users \intersect drawn
<1>1. PICK read : read = [email |-> users[u].email, externalId |-> users[u].externalId]
  OBVIOUS
<1>2. read \in Reads /\ u \in Users \intersect drawn
  BY <1>1 DEF TypeInv, UsersOK, UserRows, Reads
<1>3. Took(k, u, pc) = [k EXCEPT !.pc = pc, !.user = u, !.read = read]
  BY <1>1 DEF Took
<1> QED BY <1>2, <1>3, ZenonT(60) DEF Locals

\* Failed and After, from wherever a request is in its operations.
LEMMA EndsQuietly ==
  ASSUME TypeInv, NEW c \in Calls, calls[c].pc # "idle", NEW lapsed,
         calls[c].half \in lapsed \union {NULL}
  PROVE  /\ Failed(calls[c]) \in Locals /\ Quietly(calls[c], Failed(calls[c]), lapsed)
         /\ After(calls[c]) \in Locals /\ Quietly(calls[c], After(calls[c]), lapsed)
         /\ Idle \in Locals /\ Quietly(calls[c], Idle, lapsed)
<1> DEFINE k == calls[c]
<1>1. /\ k \in Locals /\ k.request \in Requests /\ PlaceOK(k) /\ (k.own # {} => Via(k) = "sync")
      /\ InOps(k) \/ k.at = 0 => k.doomed \subseteq Groups
  BY InPlace DEF PlaceOK
<1> QED BY <1>1, StartsQuietly, AfterStarts, FailedStarts, IdleIsOK DEF Starts, PlaceOK

\* provisionUser looks the user up, by external id and then by address.
LEMMA ProvisionLooks ==
  ASSUME TypeInv, NEW c \in Calls, ProvisionByExternalId(c) \/ ProvisionByEmail(c)
  PROVE  QuietStep(c)
<1> DEFINE k == calls[c]
<1>1. k.pc \in {"external", "email"} /\ UNCHANGED <<stores, told>>
  BY DEF ProvisionByExternalId, ProvisionByEmail
<1>2. /\ k \in Locals /\ k.request \in Requests /\ PlaceOK(k) /\ HandOK(k) /\ InHands(k)
      /\ k.half = NULL
  BY <1>1, InPlace
<1>3. /\ InOps(k) /\ Kind(k) = "push" /\ Op(k) \in Operations
      /\ k.pc = "external" => Op(k).externalId # NULL
  BY <1>1, <1>2, InPlace DEF PlaceOK
<1>4. ASSUME NEW u \in DOMAIN users, Goto(c, Took(k, u, "write")),
             Op(k).email # NULL \/ Op(k).externalId # NULL,
             OnlyOne /\ Looked(k) => Looked(Took(k, u, "write"))
      PROVE  QuietStep(c)
  <2>1. PICK r : r = Took(k, u, "write")
    OBVIOUS
  <2>2. /\ r \in Locals /\ r.pc = "write" /\ r.user = u /\ r.read \in Reads
        /\ r.request = k.request /\ r.at = k.at /\ r.half = NULL /\ r.own = k.own
        /\ r.doomed = k.doomed /\ u \in Users \intersect drawn
    <3>1. "write" \in Pcs
      BY DEF Pcs
    <3> QED BY <1>2, <2>1, <3>1, TookIs
  <2>3. InOps(r) /\ Op(r) = Op(k) /\ Kind(r) = "push" /\ Via(r) = Via(k)
    BY <1>3, <2>2, SameOp
  <2>4. PlaceOK(r) /\ HandOK(r)
    BY <1>2, <1>3, <1>4, <2>2, <2>3 DEF PlaceOK, HandOK, HandPcs
  <2>5. LocalOK(r)
    BY <2>2, <2>4 DEF LocalOK
  <2>6. Quietly(k, r, {})
    BY <1>2, <1>4, <2>1, <2>2, <2>5 DEF Quietly, InHands
  <2> QED BY <1>1, <1>4, <2>1, <2>2, <2>6, GoesOn
<1>5. ASSUME NEW pc \in {"email", "create"}, Goto(c, [k EXCEPT !.pc = pc]),
             pc = "create" => Op(k).email \in Emails,
             Op(k).externalId # NULL /\ OnlyOne /\ Looked(k) => FindByExternalId(Op(k).externalId) = {}
               \/ Op(k).externalId \in contested
      PROVE  QuietStep(c)
  <2>1. PICK r : r = [k EXCEPT !.pc = pc]
    OBVIOUS
  <2>2. /\ r \in Locals /\ r.pc = pc /\ r.user = k.user
        /\ r.request = k.request /\ r.at = k.at /\ r.half = NULL /\ r.own = k.own
        /\ r.doomed = k.doomed
    <3>1. pc \in Pcs
      BY DEF Pcs
    <3> QED BY <1>2, <2>1, <3>1, SetPc
  <2>3. InOps(r) /\ Op(r) = Op(k) /\ Kind(r) = "push" /\ Via(r) = Via(k)
    BY <1>3, <2>2, SameOp
  <2>4. PlaceOK(r) /\ HandOK(r)
    BY <1>2, <1>3, <1>5, <2>2, <2>3 DEF PlaceOK, HandOK, HandPcs
  <2>5. LocalOK(r)
    BY <2>2, <2>4 DEF LocalOK
  <2>6. OnlyOne /\ Looked(k) => Looked(r)
    BY <1>5, <2>2, <2>3 DEF Looked, NothingFound, FoundOnly, FoundListed, NoGroupFound
  <2>7. Quietly(k, r, {})
    BY <1>2, <2>2, <2>5, <2>6 DEF Quietly, InHands
  <2> QED BY <1>1, <1>5, <2>1, <2>2, <2>7, GoesOn
<1>6. CASE ProvisionByExternalId(c)
  <2>1. PICK x : x = Op(k).externalId /\ x # NULL
    BY <1>3, <1>6 DEF ProvisionByExternalId
  <2>2. CASE FindByExternalId(x) = {} /\ Goto(c, [k EXCEPT !.pc = "email"])
    BY <1>5, <2>1, <2>2
  <2>3. ASSUME NEW u \in FindByExternalId(x), Goto(c, Took(k, u, "write")) PROVE QuietStep(c)
    <3>1. u \in DOMAIN users /\ x \in ExternalIds
      BY <1>3, <2>1, <2>3 DEF FindByExternalId, Operations
    <3>2. OnlyOne /\ Looked(k) => Looked(Took(k, u, "write"))
      <4>1. PICK r : r = Took(k, u, "write")
        OBVIOUS
      <4>2. r.pc = "write" /\ r.user = u /\ r.request = k.request /\ r.at = k.at
        <5>1. "write" \in Pcs
          BY DEF Pcs
        <5> QED BY <1>2, <3>1, <4>1, <5>1, TookIs
      <4>3. Op(r).externalId = x
        BY <2>1, <4>2, SameOp
      <4>4. OnlyOne => FindByExternalId(x) \subseteq {u} \/ x \in contested
        BY <2>3, <3>1 DEF OnlyOne, Single
      <4> QED BY <2>1, <4>1, <4>2, <4>3, <4>4
              DEF Looked, NothingFound, FoundOnly, FoundListed, NoGroupFound
    <3> QED BY <1>4, <2>1, <2>3, <3>1, <3>2
  <2> QED BY <1>6, <2>1, <2>2, <2>3 DEF ProvisionByExternalId
<1>7. CASE ProvisionByEmail(c)
  <2>1. k.pc = "email"
    BY <1>7 DEF ProvisionByEmail
  <2>2. ASSUME NEW u \in FindByEmail(Op(k).email), Goto(c, Took(k, u, "write")) PROVE QuietStep(c)
    <3>1. /\ u \in DOMAIN users /\ users[u].active = TRUE /\ users[u].email = Op(k).email
          /\ users[u] \in UserRows
      BY <2>2 DEF FindByEmail, TypeInv, UsersOK, UserRows
    <3>2. Op(k).email # NULL /\ users[u].deleted = FALSE
      BY <3>1, NullIsNobody DEF UserRows, TypeInv, UsersOK
    <3>3. OnlyOne /\ Looked(k) => Looked(Took(k, u, "write"))
      <4>1. PICK r : r = Took(k, u, "write")
        OBVIOUS
      <4>2. r.pc = "write" /\ r.user = u /\ r.request = k.request /\ r.at = k.at
        <5>1. "write" \in Pcs
          BY DEF Pcs
        <5> QED BY <1>2, <3>1, <4>1, <5>1, TookIs
      <4>3. Op(r) = Op(k)
        BY <4>2, SameOp
      <4> QED BY <2>1, <3>2, <4>1, <4>2, <4>3
              DEF Looked, NothingFound, FoundOnly, FoundListed, NoGroupFound
    <3> QED BY <1>4, <2>2, <3>1, <3>2, <3>3
  <2>3. CASE Goto(c, [k EXCEPT !.pc = "create"]) /\ Op(k).email \in AllowedEmails
    <3>1. Op(k).email \in Emails
      BY <2>3, DirectoryAssumption
    <3>2. Op(k).externalId # NULL /\ OnlyOne /\ Looked(k) =>
            FindByExternalId(Op(k).externalId) = {} \/ Op(k).externalId \in contested
      BY <2>1 DEF Looked, NothingFound
    <3> QED BY <1>5, <2>3, <3>1, <3>2
  <2>4. CASE Goto(c, Failed(k))
    BY <1>1, <1>2, <2>4, EndsQuietly, GoesOn
  <2> QED BY <1>7, <2>2, <2>3, <2>4 DEF ProvisionByEmail
<1> QED BY <1>6, <1>7

\* UpdateRefused, GiveUp's and others' ends: an operation fails or ends.
LEMMA EndStep ==
  ASSUME TypeInv, NEW c \in Calls, calls[c].pc # "idle", UNCHANGED <<stores, told>>,
         NEW r \in {Failed(calls[c]), After(calls[c]), Idle}, NEW lapsed \in SUBSET Users,
         calls[c].half \in lapsed \union {NULL},
         Advance(c, r, lapsed, {}) \/ (lapsed = {} /\ Goto(c, r))
  PROVE  QuietStep(c)
<1>1. r \in Locals /\ Quietly(calls[c], r, lapsed)
  BY EndsQuietly
<1> QED BY <1>1, GoesOn

\* A store rejects, or the process dies.
LEMMA RejectDie ==
  ASSUME TypeInv, NEW c \in Calls, Reject(c) \/ Die(c)
  PROVE  QuietStep(c)
<1>1. calls[c].pc # "idle" /\ UNCHANGED <<stores, told>>
  BY DEF Reject, Die
<1>2. calls[c] \in Locals
  BY <1>1, InPlace
<1>3. PICK lapsed : lapsed = {calls[c].half} \ {NULL}
  OBVIOUS
<1>4. lapsed \in SUBSET Users /\ calls[c].half \in lapsed \union {NULL}
  BY <1>2, <1>3 DEF Locals
<1>5. PICK r \in {Failed(calls[c]), After(calls[c]), Idle} : Advance(c, r, lapsed, {})
  BY <1>3 DEF Reject, Die
<1> QED BY <1>1, <1>4, <1>5, EndStep

\* Wherever a request is busy with groups.
GroupPcs ==
  {"lookGroup", "members", "findGroup", "updateGroup", "setMembers", "announceGroup",
   "removeGroup", "listGroups", "pruneGroups"}

LEMMA InGroups ==
  ASSUME TypeInv, NEW c \in Calls, calls[c].pc \in GroupPcs \union {"createGroup"}
  PROVE  /\ calls[c].pc # "idle" /\ InOps(calls[c]) /\ calls[c].half = NULL
         /\ calls[c] \in Locals /\ calls[c].request \in Requests /\ Op(calls[c]) \in Operations
         /\ calls[c].doomed \subseteq Groups \intersect drawn
         /\ calls[c].pc \in {"members", "findGroup", "createGroup"} => calls[c].key # NULL
<1>1. calls[c].pc # "idle" /\ calls[c].pc \notin {"listUsers", "prune", "tell", "remove"}
  BY DEF GroupPcs
<1>2. calls[c] \in Locals /\ PlaceOK(calls[c]) /\ InHands(calls[c]) /\ calls[c].half = NULL
  BY <1>1, InPlace
<1>3. InOps(calls[c])
  BY <1>1, <1>2 DEF PlaceOK
<1>4. calls[c].doomed \subseteq Groups \intersect drawn
      /\ (calls[c].pc \in {"members", "findGroup", "createGroup"} => calls[c].key # NULL)
  BY <1>2, <1>3 DEF PlaceOK, InHands
<1> QED BY <1>1, <1>2, <1>3, <1>4, InPlace

\* From one place among the groups to another.
LEMMA GroupPhase ==
  ASSUME TypeInv, NEW c \in Calls, calls[c].pc \in GroupPcs \union {"createGroup"},
         NEW r \in Locals, r.pc \in GroupPcs \union {"createGroup"},
         r.request = calls[c].request, r.at = calls[c].at, r.own = calls[c].own,
         r.user = calls[c].user, r.half = calls[c].half,
         r.doomed \subseteq Groups, r.doomed \subseteq drawn \union calls[c].doomed,
         r.pc \in {"members", "findGroup", "createGroup"} => r.key # NULL,
         r.pc = "createGroup" => NoGroupFound(r)
  PROVE  Quietly(calls[c], r, {})
<1> DEFINE k == calls[c]
<1>1. /\ k.pc # "idle" /\ InOps(k) /\ k.half = NULL /\ k \in Locals /\ k.request \in Requests
      /\ k.doomed \subseteq Groups \intersect drawn
  BY InGroups
<1>2. PlaceOK(k) /\ HandOK(k) /\ InHands(k)
  BY <1>1, InPlace
<1>3. Via(r) = Via(k) /\ InOps(r) /\ Op(r) = Op(k) /\ Kind(r) = Kind(k)
  BY <1>1, SameOp
<1>4. r.pc \notin {"idle", "external", "email", "create", "look", "write", "announce", "remove",
                   "tell", "listUsers", "prune"}
  BY DEF GroupPcs
<1>5. PlaceOK(r)
  BY <1>1, <1>2, <1>3, <1>4 DEF PlaceOK
<1>6. HandOK(r)
  BY <1>1, <1>2, <1>3, <1>4 DEF HandOK, HandPcs
<1>7. LocalOK(r)
  BY <1>4, <1>5, <1>6 DEF LocalOK
<1>8. Looked(r)
  BY <1>4 DEF Looked, NothingFound, FoundOnly, FoundListed, NoGroupFound
<1>9. r.user \in drawn \union {NULL} /\ r.doomed \subseteq drawn /\ r.doomed \intersect Users = {}
  BY <1>1, <1>2, DirectoryAssumption DEF InHands
<1> QED BY <1>1, <1>3, <1>4, <1>7, <1>8, <1>9 DEF Quietly

\* UpdateGroup, AnnounceGroup and GroupsPruned only move on or end.
LEMMA GroupMoves ==
  ASSUME TypeInv, NEW c \in Calls, UpdateGroup(c) \/ AnnounceGroup(c) \/ GroupsPruned(c)
  PROVE  QuietStep(c)
<1> DEFINE k == calls[c]
<1>1. k.pc \in GroupPcs /\ UNCHANGED <<stores, told>>
  BY DEF UpdateGroup, AnnounceGroup, GroupsPruned, GroupPcs
<1>2. /\ k.pc # "idle" /\ InOps(k) /\ k.half = NULL /\ k \in Locals
      /\ k.doomed \subseteq Groups \intersect drawn
  BY <1>1, InGroups
<1>3. ASSUME NEW r \in {Failed(k), After(k)}, Goto(c, r) PROVE QuietStep(c)
  BY <1>1, <1>2, <1>3, EndStep
<1>4. ASSUME NEW pc \in {"setMembers", "listGroups", "announceGroup"},
             Goto(c, [k EXCEPT !.pc = pc])
      PROVE  QuietStep(c)
  <2>1. PICK r : r = [k EXCEPT !.pc = pc]
    OBVIOUS
  <2>2. pc \in Pcs /\ pc \in GroupPcs
    BY DEF Pcs, GroupPcs
  <2>3. /\ r \in Locals /\ r.pc = pc /\ r.request = k.request /\ r.at = k.at /\ r.own = k.own
        /\ r.user = k.user /\ r.half = k.half /\ r.doomed = k.doomed
    BY <1>2, <2>1, <2>2, SetPc
  <2>4. Quietly(k, r, {})
    BY <1>1, <1>2, <2>2, <2>3, GroupPhase
  <2> QED BY <1>1, <1>4, <2>1, <2>3, <2>4, GoesOn
<1> QED BY <1>3, <1>4 DEF UpdateGroup, AnnounceGroup, GroupsPruned

\* MembersKnown leads on to where the group is found or written.
LEMMA MembersKnownStep ==
  ASSUME TypeInv, NEW c \in Calls, calls[c].pc \in GroupPcs, UNCHANGED <<stores, told>>,
         NEW m \in Locals, m.request = calls[c].request, m.at = calls[c].at,
         m.own = calls[c].own, m.user = calls[c].user, m.half = calls[c].half,
         m.doomed = calls[c].doomed, m.key # NULL, Goto(c, MembersKnown(m))
  PROVE  QuietStep(c)
<1> DEFINE k == calls[c]
<1>1. k.doomed \subseteq Groups \intersect drawn
  BY InGroups
<1>2. PICK pc \in {"members", "updateGroup", "findGroup"} : MembersKnown(m) = [m EXCEPT !.pc = pc]
  BY MembersKnownIs
<1>3. PICK r : r = [m EXCEPT !.pc = pc]
  OBVIOUS
<1>4. pc \in Pcs /\ pc \in GroupPcs
  BY DEF Pcs, GroupPcs
<1>5. /\ r \in Locals /\ r.pc = pc /\ r.request = k.request /\ r.at = k.at /\ r.own = k.own
      /\ r.user = k.user /\ r.half = k.half /\ r.doomed = k.doomed /\ r.key # NULL
  BY <1>3, <1>4, SetPc
<1>6. Quietly(k, r, {})
  BY <1>1, <1>4, <1>5, GroupPhase
<1> QED BY <1>2, <1>3, <1>5, <1>6, GoesOn

LEMMA MembersAreResolved ==
  ASSUME TypeInv, NEW c \in Calls, ResolveMember(c) \/ KeepMembers(c)
  PROVE  QuietStep(c)
<1> DEFINE k == calls[c]
<1>1. k.pc = "members" /\ k.pc \in GroupPcs /\ UNCHANGED <<stores, told>>
  BY DEF ResolveMember, KeepMembers, GroupPcs
<1>2. k \in Locals /\ k.key # NULL
  BY <1>1, InGroups
<1>3. CASE ResolveMember(c)
  <2>1. PICK ref \in k.refs, new \in {{}} \union {{u} : u \in DOMAIN users} :
          Goto(c, MembersKnown([k EXCEPT !.refs = @ \ {ref}, !.members = @ \union new]))
    <3>1. PICK ref \in k.refs :
            \/ Goto(c, MembersKnown([k EXCEPT !.refs = @ \ {ref}, !.members = @ \union {}]))
            \/ \E u \in Find(ref) :
                 Goto(c, MembersKnown([k EXCEPT !.refs = @ \ {ref},
                           !.members = @ \union (IF users[u].active THEN {u} ELSE {})]))
      BY <1>3 DEF ResolveMember
    <3>2. \A u \in Find(ref) : u \in DOMAIN users
      BY DEF Find, FindByExternalId
    <3> QED BY <3>1, <3>2
  <2>2. new \in SUBSET References
    BY DEF TypeInv, UsersOK, References
  <2>3. PICK m : m = [k EXCEPT !.refs = @ \ {ref}, !.members = @ \union new]
    OBVIOUS
  <2>4. /\ m \in Locals /\ m.request = k.request /\ m.at = k.at /\ m.own = k.own
        /\ m.user = k.user /\ m.half = k.half /\ m.doomed = k.doomed /\ m.key = k.key
    BY <1>2, <2>2, <2>3 DEF Locals
  <2> QED BY <1>1, <1>2, <2>1, <2>3, <2>4, MembersKnownStep
<1>4. CASE KeepMembers(c)
  <2>1. PICK members : members = IF k.group \in DOMAIN groups THEN groups[k.group].members ELSE {}
    OBVIOUS
  <2>2. members \in SUBSET References
    BY <2>1 DEF TypeInv, GroupsOK, GroupRows
  <2>3. PICK m : m = [k EXCEPT !.members = members]
    OBVIOUS
  <2>4. /\ m \in Locals /\ m.request = k.request /\ m.at = k.at /\ m.own = k.own
        /\ m.user = k.user /\ m.half = k.half /\ m.doomed = k.doomed /\ m.key = k.key
    BY <1>2, <2>2, <2>3 DEF Locals
  <2>5. Goto(c, MembersKnown(m))
    BY <1>4, <2>1, <2>3 DEF KeepMembers
  <2> QED BY <1>1, <1>2, <2>4, <2>5, MembersKnownStep
<1> QED BY <1>3, <1>4

LEMMA GroupsAreLooked ==
  ASSUME TypeInv, NEW c \in Calls, LookGroup(c)
  PROVE  QuietStep(c)
<1> DEFINE k == calls[c]
<1>1. k.pc = "lookGroup" /\ k.pc \in GroupPcs /\ UNCHANGED <<stores, told>>
  BY DEF LookGroup, GroupPcs
<1>2. /\ k.pc # "idle" /\ k.half = NULL /\ k \in Locals
      /\ k.doomed \subseteq Groups \intersect drawn
  BY <1>1, InGroups
<1>3. ASSUME NEW r \in {Failed(k), After(k)}, Goto(c, r) PROVE QuietStep(c)
  BY <1>1, <1>2, <1>3, EndStep
<1>4. ASSUME NEW g \in DOMAIN groups,
             LET at == [k EXCEPT !.group = g, !.key = groups[g].externalId]
             IN  \/ Goto(c, [at EXCEPT !.pc = "removeGroup"])
                 \/ Goto(c, [at EXCEPT !.pc = "members"])
                 \/ Goto(c, MembersKnown(at))
      PROVE  QuietStep(c)
  <2>1. PICK key : key = groups[g].externalId
    OBVIOUS
  <2>2. key \in ExternalIds /\ g \in Groups
    BY <2>1 DEF TypeInv, GroupsOK, GroupRows
  <2>3. PICK at : at = [k EXCEPT !.group = g, !.key = key]
    OBVIOUS
  <2>4. /\ at \in Locals /\ at.request = k.request /\ at.at = k.at /\ at.own = k.own
        /\ at.user = k.user /\ at.half = k.half /\ at.doomed = k.doomed /\ at.key = key
    BY <1>2, <2>2, <2>3, ZenonT(60) DEF Locals
  <2>5. ASSUME NEW pc \in {"removeGroup", "members"}, Goto(c, [at EXCEPT !.pc = pc])
        PROVE  QuietStep(c)
    <3>1. PICK r : r = [at EXCEPT !.pc = pc]
      OBVIOUS
    <3>2. pc \in Pcs /\ pc \in GroupPcs
      BY DEF Pcs, GroupPcs
    <3>3. /\ r \in Locals /\ r.pc = pc /\ r.request = k.request /\ r.at = k.at /\ r.own = k.own
          /\ r.user = k.user /\ r.half = k.half /\ r.doomed = k.doomed /\ r.key = key
      BY <2>4, <3>1, <3>2, SetPc
    <3>4. Quietly(k, r, {})
      BY <1>1, <1>2, <2>2, <3>2, <3>3, NullIsNobody, GroupPhase
    <3> QED BY <1>1, <2>5, <3>1, <3>3, <3>4, GoesOn
  <2>6. CASE Goto(c, MembersKnown(at))
    BY <1>1, <2>2, <2>4, <2>6, NullIsNobody, MembersKnownStep
  <2> QED BY <1>4, <2>1, <2>3, <2>5, <2>6
<1>5. \A ref : FindGroup(ref) \subseteq DOMAIN groups /\ FindGroupByExternalId(ref) \subseteq DOMAIN groups
  BY DEF FindGroup, FindGroupByExternalId
<1>6. \/ Goto(c, Failed(k)) \/ Goto(c, After(k))
      \/ \E g \in DOMAIN groups :
           LET at == [k EXCEPT !.group = g, !.key = groups[g].externalId]
           IN  \/ Goto(c, [at EXCEPT !.pc = "removeGroup"])
               \/ Goto(c, [at EXCEPT !.pc = "members"])
               \/ Goto(c, MembersKnown(at))
  BY <1>5 DEF LookGroup
<1> QED BY <1>3, <1>4, <1>6

LEMMA GroupsAreFound ==
  ASSUME TypeInv, NEW c \in Calls, FindOrCreateGroup(c)
  PROVE  QuietStep(c)
<1> DEFINE k == calls[c]
<1>1. k.pc = "findGroup" /\ k.pc \in GroupPcs /\ UNCHANGED <<stores, told>>
  BY DEF FindOrCreateGroup, GroupPcs
<1>2. k \in Locals /\ k.key # NULL /\ k.doomed \subseteq Groups \intersect drawn
  BY <1>1, InGroups
<1>3. CASE FindGroupByExternalId(k.key) = {} /\ Goto(c, [k EXCEPT !.pc = "createGroup"])
  <2>1. PICK r : r = [k EXCEPT !.pc = "createGroup"]
    OBVIOUS
  <2>2. "createGroup" \in Pcs
    BY DEF Pcs
  <2>3. /\ r \in Locals /\ r.pc = "createGroup" /\ r.request = k.request /\ r.at = k.at
        /\ r.own = k.own /\ r.user = k.user /\ r.half = k.half /\ r.doomed = k.doomed
        /\ r.key = k.key
    BY <1>2, <2>1, <2>2, SetPc
  <2>4. NoGroupFound(r)
    BY <1>3, <2>3 DEF NoGroupFound
  <2>5. Quietly(k, r, {})
    BY <1>1, <1>2, <2>3, <2>4, GroupPhase
  <2> QED BY <1>1, <1>3, <2>1, <2>3, <2>5, GoesOn
<1>4. ASSUME NEW g \in FindGroupByExternalId(k.key),
             Goto(c, [k EXCEPT !.pc = "updateGroup", !.group = g])
      PROVE  QuietStep(c)
  <2>1. g \in Groups
    BY <1>4 DEF FindGroupByExternalId, TypeInv, GroupsOK
  <2>2. PICK r : r = [k EXCEPT !.pc = "updateGroup", !.group = g]
    OBVIOUS
  <2>3. "updateGroup" \in Pcs /\ "updateGroup" \in GroupPcs
    BY DEF Pcs, GroupPcs
  <2>4. /\ r \in Locals /\ r.pc = "updateGroup" /\ r.request = k.request /\ r.at = k.at
        /\ r.own = k.own /\ r.user = k.user /\ r.half = k.half /\ r.doomed = k.doomed
    BY <1>2, <2>1, <2>2, <2>3 DEF Locals
  <2>5. Quietly(k, r, {})
    BY <1>1, <1>2, <2>3, <2>4, GroupPhase
  <2> QED BY <1>1, <1>4, <2>2, <2>4, <2>5, GoesOn
<1> QED BY <1>3, <1>4 DEF FindOrCreateGroup

LEMMA GroupsAreListed ==
  ASSUME TypeInv, NEW c \in Calls, ListGroups(c)
  PROVE  QuietStep(c)
<1> DEFINE k == calls[c]
<1>1. k.pc = "listGroups" /\ k.pc \in GroupPcs /\ UNCHANGED <<stores, told>>
  BY DEF ListGroups, GroupPcs
<1>2. k \in Locals
  BY <1>1, InGroups
<1>3. PICK doomed : doomed = {g \in DOMAIN groups : groups[g].active /\ groups[g].externalId \notin GivenGroups(k)}
  OBVIOUS
<1>4. doomed \subseteq Groups \intersect drawn
  BY <1>3 DEF TypeInv, GroupsOK
<1>5. PICK r : r = [k EXCEPT !.pc = "pruneGroups", !.doomed = doomed]
  OBVIOUS
<1>6. "pruneGroups" \in Pcs /\ "pruneGroups" \in GroupPcs
  BY DEF Pcs, GroupPcs
<1>7. /\ r \in Locals /\ r.pc = "pruneGroups" /\ r.request = k.request /\ r.at = k.at
      /\ r.own = k.own /\ r.user = k.user /\ r.half = k.half /\ r.doomed = doomed
  <2>1. doomed \in SUBSET (Users \union Groups)
    BY <1>4
  <2> QED BY <1>2, <1>5, <1>6, <2>1 DEF Locals
<1>8. Quietly(k, r, {})
  BY <1>1, <1>4, <1>6, <1>7, GroupPhase
<1>9. Goto(c, r)
  BY <1>3, <1>5 DEF ListGroups
<1> QED BY <1>1, <1>7, <1>8, <1>9, GoesOn

-----------------------------------------------------------------------------
(* Users are looked up and listed *)

LEMMA UsersAreLooked ==
  ASSUME TypeInv, NEW c \in Calls, LookUser(c)
  PROVE  QuietStep(c)
<1> DEFINE k == calls[c]
<1> DEFINE next == IF Op(k).kind = "put" THEN "write" ELSE IF TellsFirst(k) THEN "announce" ELSE "remove"
<1>1. k.pc = "look" /\ k.pc # "idle" /\ UNCHANGED <<stores, told>>
  BY DEF LookUser
<1>2. /\ k \in Locals /\ k.request \in Requests /\ PlaceOK(k) /\ HandOK(k) /\ InHands(k)
      /\ k.half = NULL
  BY <1>1, InPlace
<1>3. InOps(k) /\ Kind(k) \in {"put", "remove"} /\ Op(k) \in Operations /\ Kind(k) = Op(k).kind
  BY <1>1, <1>2, InPlace DEF PlaceOK, Kind
<1>4. ASSUME NEW u \in DOMAIN users, Goto(c, Took(k, u, next)) PROVE QuietStep(c)
  <2>1. PICK r : r = Took(k, u, next)
    OBVIOUS
  <2>2. next \in Pcs /\ next \in {"write", "announce", "remove"}
    BY DEF Pcs
  <2>3. /\ r \in Locals /\ r.pc = next /\ r.user = u /\ r.read \in Reads
        /\ r.request = k.request /\ r.at = k.at /\ r.half = NULL /\ r.own = k.own
        /\ r.doomed = k.doomed /\ u \in Users \intersect drawn
    BY <1>2, <2>1, <2>2, TookIs
  <2>4. InOps(r) /\ Op(r) = Op(k) /\ Kind(r) = Kind(k) /\ Via(r) = Via(k) /\ TellsFirst(r) = TellsFirst(k)
    BY <1>3, <2>3, SameOp
  <2>5. /\ next = "write" => Kind(k) = "put"
        /\ next = "announce" => Kind(k) = "remove" /\ TellsFirst(k)
        /\ next = "remove" => Kind(k) = "remove" /\ ~TellsFirst(k)
    BY <1>3
  <2> HIDE DEF next
  <2>6. PlaceOK(r)
    BY <1>2, <1>3, <2>2, <2>3, <2>4, <2>5 DEF PlaceOK
  <2>7. HandOK(r)
    BY <1>2, <1>3, <2>2, <2>3, <2>4, <2>5 DEF HandOK, HandPcs
  <2>8. LocalOK(r)
    BY <2>2, <2>3, <2>6, <2>7 DEF LocalOK
  <2>9. Looked(r)
    BY <2>2, <2>3, <2>4, <2>5 DEF Looked, NothingFound, FoundOnly, FoundListed, NoGroupFound
  <2>10. Quietly(k, r, {})
    BY <1>2, <1>3, <2>2, <2>3, <2>4, <2>5, <2>8, <2>9 DEF Quietly, InHands
  <2> QED BY <1>1, <1>4, <2>1, <2>3, <2>10, GoesOn
<1>5. \A ref : Find(ref) \subseteq DOMAIN users /\ FindByExternalId(ref) \subseteq DOMAIN users
  BY DEF Find, FindByExternalId
<1>6. \/ Goto(c, Failed(k)) \/ Goto(c, After(k)) \/ \E u \in DOMAIN users : Goto(c, Took(k, u, next))
  BY <1>5 DEF LookUser
<1> HIDE DEF next
<1>7. ASSUME NEW r \in {Failed(k), After(k)}, Goto(c, r) PROVE QuietStep(c)
  BY <1>1, <1>2, <1>7, EndStep
<1> QED BY <1>4, <1>6, <1>7

\* A user is made known to the operations that follow.
LEMMA KnownIs ==
  ASSUME NEW k \in Locals, k.request \in Requests, InOps(k), k.read \in Reads, NEW u \in Users
  PROVE  LET r == Known(k, u)
         IN  /\ r \in Locals /\ r.pc = k.pc /\ r.request = k.request /\ r.at = k.at
             /\ r.user = k.user /\ r.read = k.read /\ r.status = k.status /\ r.half = k.half
             /\ r.own = k.own /\ r.doomed = k.doomed /\ r.key = k.key
<1>1. PICK names : names = Names(k)
  OBVIOUS
<1>2. names \subseteq ExternalIds \union Emails
  <2>1. Op(k).externalId \in ExternalIds \union {NULL}
    BY RequestsAre DEF InOps, Op, Operations
  <2>2. k.read.externalId \in ExternalIds \union {NULL} /\ k.read.email \in Emails
    BY DEF Reads
  <2> QED BY <1>1, <2>1, <2>2 DEF Names
<1>3. PICK S \in SUBSET (ExternalIds \union Emails) : k.made \in [S -> Users]
  BY DEF Locals
<1>4. PICK made : made = [x \in DOMAIN k.made \union names |-> IF x \in names THEN u ELSE k.made[x]]
  OBVIOUS
<1>5. made \in [S \union names -> Users]
  BY <1>3, <1>4
<1>6. made \in UNION {[T -> Users] : T \in SUBSET (ExternalIds \union Emails)}
  BY <1>2, <1>5
<1>7. Known(k, u) = [k EXCEPT !.made = made]
  BY <1>1, <1>4 DEF Known
<1> QED BY <1>6, <1>7 DEF Locals

\* After an event a deletion is due, or the next operation.
LEMMA ToldIs ==
  ASSUME NEW k \in Locals, k.request \in Requests, k.at # 0, k.user \in Users,
         Kind(k) \in {"push", "put", "remove", "prune"},
         Kind(k) = "push" => k.read \in Reads,
         InOps(k) => k.doomed \subseteq Groups, k.own # {} => Via(k) = "sync"
  PROVE  /\ TellsFirst(k) => Told(k) = [k EXCEPT !.pc = "remove"]
         /\ ~TellsFirst(k) => Starts(k, Told(k))
<1>1. CASE TellsFirst(k)
  BY <1>1 DEF Told
<1>2. CASE ~TellsFirst(k) /\ Kind(k) = "push" /\ Via(k) = "sync"
  <2>1. InOps(k)
    BY <1>2 DEF Kind
  <2>2. PICK r : r = Known(k, k.user)
    OBVIOUS
  <2>3. /\ r \in Locals /\ r.request = k.request /\ r.at = k.at /\ r.own = k.own
        /\ r.doomed = k.doomed
    BY <1>2, <2>1, <2>2, KnownIs
  <2>4. Starts(r, After(r))
    <3>1. Via(r) = Via(k) /\ InOps(r) = InOps(k)
      BY <2>3, SameOp
    <3> QED BY <2>3, <3>1, AfterStarts
  <2>5. Told(k) = After(r)
    BY <1>2, <2>2 DEF Told
  <2> QED BY <1>2, <2>3, <2>4, <2>5 DEF Starts
<1>3. CASE ~TellsFirst(k) /\ ~(Kind(k) = "push" /\ Via(k) = "sync")
  <2>1. Starts(k, After(k))
    BY AfterStarts
  <2> QED BY <1>3, <2>1 DEF Told
<1> QED BY <1>1, <1>2, <1>3

\* A user in hand whose event comes first: announced, or given up and removed.
LEMMA FirstQuietly ==
  ASSUME TypeInv, NEW c \in Calls, calls[c].pc # "idle", NEW r \in Locals,
         r.pc \in {"tell", "remove"}, TellsFirst(r), r.status = FALSE,
         r.request = calls[c].request, r.at = calls[c].at, r.own = calls[c].own,
         r.half \in {NULL, r.user}, r.user \in Users \intersect drawn,
         r.doomed \subseteq calls[c].doomed, InOps(r) => r.doomed \subseteq Groups,
         ~InOps(r) => \/ r.user \in calls[c].doomed
                      \/ calls[c].pc \in {"tell", "remove"} /\ r.user = calls[c].user,
         NEW lapsed, r.half \in lapsed \union {NULL}, calls[c].half \in lapsed \union {NULL},
         r.pc = "remove" => r.user \in lapsed
  PROVE  Quietly(calls[c], r, lapsed)
<1> DEFINE k == calls[c]
<1>1. /\ k \in Locals /\ k.request \in Requests /\ PlaceOK(k) /\ HandOK(k) /\ InHands(k)
      /\ k.at # 0 /\ (k.own # {} => Via(k) = "sync")
  BY InPlace
<1>2. Via(r) = Via(k) /\ InOps(r) = InOps(k) /\ Op(r) = Op(k) /\ Kind(r) = Kind(k)
  BY <1>1, SameOp
<1>3. Kind(r) \in {"remove", "prune"} /\ Via(r) \in {"scim", "sync"}
  BY DEF TellsFirst
<1>4. PlaceOK(r)
  BY <1>1, <1>2, <1>3 DEF PlaceOK
<1>5. HandOK(r)
  BY <1>1, <1>2, <1>3 DEF HandOK, HandPcs
<1>6. LocalOK(r)
  BY <1>4, <1>5 DEF LocalOK
<1>7. Looked(r)
  BY DEF Looked, NothingFound, FoundOnly, FoundListed, NoGroupFound
<1> QED BY <1>1, <1>2, <1>6, <1>7 DEF Quietly, InHands

LEMMA RemovalsAnnounced ==
  ASSUME TypeInv, NEW c \in Calls, AnnounceRemoval(c)
  PROVE  QuietStep(c)
<1> DEFINE k == calls[c]
<1>1. k.pc = "announce" /\ k.pc # "idle" /\ UNCHANGED <<stores, told>>
  BY DEF AnnounceRemoval
<1>2. /\ k \in Locals /\ PlaceOK(k) /\ HandOK(k) /\ InHands(k) /\ k.half = NULL
  BY <1>1, InPlace
<1>3. InOps(k) /\ Kind(k) = "remove" /\ TellsFirst(k) /\ k.doomed \subseteq Groups
      /\ k.user \in Users \intersect drawn
  BY <1>1, <1>2, NullIsNobody DEF PlaceOK, HandOK, HandPcs, InHands
<1>4. CASE Goto(c, [k EXCEPT !.pc = "tell", !.status = FALSE])
  <2>1. PICK r : r = [k EXCEPT !.pc = "tell", !.status = FALSE]
    OBVIOUS
  <2>2. "tell" \in Pcs /\ FALSE \in BOOLEAN
    BY DEF Pcs
  <2>3. /\ r \in Locals /\ r.pc = "tell" /\ r.status = FALSE /\ r.request = k.request /\ r.at = k.at
        /\ r.own = k.own /\ r.user = k.user /\ r.half = k.half /\ r.doomed = k.doomed
    BY <1>2, <2>1, <2>2, ZenonT(60) DEF Locals
  <2>4. TellsFirst(r) /\ InOps(r)
    BY <1>3, <2>3, SameOp
  <2>5. Quietly(k, r, {})
    BY <1>1, <1>2, <1>3, <2>3, <2>4, FirstQuietly
  <2> QED BY <1>1, <1>4, <2>1, <2>3, <2>5, GoesOn
<1>5. CASE Goto(c, Removed(k))
  <2>1. Removed(k) = After(k)
    BY <1>3 DEF Removed
  <2> QED BY <1>1, <1>2, <1>5, <2>1, EndStep
<1> QED BY <1>4, <1>5 DEF AnnounceRemoval

LEMMA EventsGivenUp ==
  ASSUME TypeInv, NEW c \in Calls, GiveUp(c)
  PROVE  QuietStep(c)
<1> DEFINE k == calls[c]
<1>1. k.pc = "tell" /\ k.pc # "idle" /\ UNCHANGED <<stores, told>>
      /\ Advance(c, Told(k), {k.user}, {})
  BY DEF GiveUp
<1>2. /\ k \in Locals /\ k.request \in Requests /\ PlaceOK(k) /\ HandOK(k) /\ InHands(k)
      /\ k.at # 0 /\ (k.own # {} => Via(k) = "sync")
  BY <1>1, InPlace
<1>3. /\ k.user \in Users \intersect drawn /\ k.half \in {NULL, k.user}
      /\ Kind(k) \in {"push", "put", "remove", "prune"}
      /\ InOps(k) => k.doomed \subseteq Groups
      /\ TellsFirst(k) => k.status = FALSE
      /\ Kind(k) = "push" => k.read \in Reads
  BY <1>1, <1>2, NullIsNobody DEF PlaceOK, HandOK, HandPcs, InHands
<1>4. CASE TellsFirst(k)
  <2>1. PICK r : r = [k EXCEPT !.pc = "remove"]
    OBVIOUS
  <2>2. "remove" \in Pcs
    BY DEF Pcs
  <2>3. /\ r \in Locals /\ r.pc = "remove" /\ r.status = k.status /\ r.request = k.request /\ r.at = k.at
        /\ r.own = k.own /\ r.user = k.user /\ r.half = k.half /\ r.doomed = k.doomed
    BY <1>2, <2>1, <2>2, SetPc
  <2>4. TellsFirst(r) /\ InOps(r) = InOps(k)
    BY <1>4, <2>3, SameOp
  <2>5. Quietly(k, r, {k.user})
    BY <1>1, <1>2, <1>3, <1>4, <2>3, <2>4, FirstQuietly
  <2>6. r = Told(k)
    BY <1>4, <2>1 DEF Told
  <2>7. {k.user} \in SUBSET Users /\ Advance(c, r, {k.user}, {})
    BY <1>1, <1>3, <2>6
  <2> HIDE DEF k
  <2> QED BY <1>1, <2>3, <2>5, <2>7, GoesOn DEF k
<1>5. CASE ~TellsFirst(k)
  <2>1. Starts(k, Told(k))
    BY <1>2, <1>3, <1>5, ToldIs
  <2>2. Told(k) \in Locals /\ Quietly(k, Told(k), {k.user})
    BY <1>3, <2>1, StartsQuietly
  <2> QED BY <1>1, <1>3, <2>2, GoesOn
<1> QED BY <1>4, <1>5

LEMMA UpdatesRefused ==
  ASSUME TypeInv, NEW c \in Calls, UpdateRefused(c)
  PROVE  QuietStep(c)
<1>1. calls[c].pc = "write" /\ calls[c].pc # "idle" /\ UNCHANGED <<stores, told>>
      /\ Goto(c, Failed(calls[c]))
  BY DEF UpdateRefused
<1>2. calls[c].half = NULL
  BY <1>1, InPlace
<1> QED BY <1>1, <1>2, EndStep

\* The removal phase of a synchronization.
LEMMA UsersAreListed ==
  ASSUME TypeInv, NEW c \in Calls, ListUsers(c)
  PROVE  QuietStep(c)
<1> DEFINE k == calls[c]
<1>1. k.pc = "listUsers" /\ k.pc # "idle" /\ UNCHANGED <<stores, told>>
  BY DEF ListUsers
<1>2. /\ k \in Locals /\ k.request \in Requests /\ PlaceOK(k) /\ HandOK(k) /\ InHands(k)
      /\ k.half = NULL
  BY <1>1, InPlace
<1>3. PICK doomed : doomed = {u \in DOMAIN users : users[u].active /\ ~InSource(k, u)}
  OBVIOUS
<1>4. doomed \subseteq Users \intersect drawn /\ \A u \in doomed : u \in DOMAIN users /\ ~InSource(k, u)
  BY <1>3 DEF TypeInv, UsersOK
<1>5. PICK r : r = [k EXCEPT !.pc = "prune", !.doomed = doomed]
  OBVIOUS
<1>6. /\ r \in Locals /\ r.pc = "prune" /\ r.request = k.request /\ r.at = k.at
      /\ r.own = k.own /\ r.user = k.user /\ r.half = k.half /\ r.doomed = doomed
  <2>1. doomed \in SUBSET (Users \union Groups) /\ "prune" \in Pcs
    BY <1>4 DEF Pcs
  <2> QED BY <1>2, <1>5, <2>1, ZenonT(60) DEF Locals
<1>7. Via(r) = Via(k) /\ InOps(r) = InOps(k) /\ Op(r) = Op(k) /\ Kind(r) = Kind(k)
  BY <1>6, SameOp
<1>8. LocalOK(r)
  BY <1>1, <1>2, <1>6, <1>7 DEF LocalOK, PlaceOK, HandOK, HandPcs
<1>9. Looked(r)
  BY <1>6 DEF Looked, NothingFound, FoundOnly, FoundListed, NoGroupFound
<1>10. Quietly(k, r, {})
  BY <1>2, <1>4, <1>6, <1>8, <1>9 DEF Quietly, InHands
<1>11. Goto(c, r)
  BY <1>3, <1>5 DEF ListUsers
<1> QED BY <1>1, <1>6, <1>10, <1>11, GoesOn

LEMMA UsersArePruned ==
  ASSUME TypeInv, NEW c \in Calls, PruneUser(c) \/ SyncEnds(c)
  PROVE  QuietStep(c)
<1> DEFINE k == calls[c]
<1>1. k.pc = "prune" /\ k.pc # "idle" /\ UNCHANGED <<stores, told>>
  BY DEF PruneUser, SyncEnds
<1>2. /\ k \in Locals /\ k.request \in Requests /\ PlaceOK(k) /\ HandOK(k) /\ InHands(k)
      /\ k.half = NULL
  BY <1>1, InPlace
<1>3. CASE SyncEnds(c)
  BY <1>1, <1>2, <1>3, EndStep DEF SyncEnds
<1>4. CASE PruneUser(c)
  <2>1. PICK u \in k.doomed :
          \/ /\ u \in DOMAIN users
             /\ Goto(c, [k EXCEPT !.doomed = @ \ {u}, !.user = u, !.pc = "tell", !.status = FALSE])
          \/ Goto(c, [k EXCEPT !.doomed = @ \ {u}])
    BY <1>4 DEF PruneUser
  <2>2. PICK doomed : doomed = k.doomed \ {u}
    OBVIOUS
  <2>3. doomed \in SUBSET (Users \union Groups) /\ doomed \subseteq k.doomed
    BY <1>2, <2>2 DEF Locals
  <2>4. CASE u \in DOMAIN users
             /\ Goto(c, [k EXCEPT !.doomed = doomed, !.user = u, !.pc = "tell", !.status = FALSE])
    <3>1. PICK r : r = [k EXCEPT !.doomed = doomed, !.user = u, !.pc = "tell", !.status = FALSE]
      OBVIOUS
    <3>2. "tell" \in Pcs /\ FALSE \in BOOLEAN /\ u \in Users \intersect drawn
      BY <2>4 DEF Pcs, TypeInv, UsersOK
    <3>3. /\ r \in Locals /\ r.pc = "tell" /\ r.status = FALSE /\ r.request = k.request /\ r.at = k.at
          /\ r.own = k.own /\ r.user = u /\ r.half = k.half /\ r.doomed = doomed
      BY <1>2, <2>3, <3>1, <3>2, ZenonT(60) DEF Locals
    <3>4. TellsFirst(r) /\ ~InOps(r)
      <4>1. ~InOps(k) /\ TellsFirst(k)
        BY <1>1, <1>2 DEF PlaceOK, TellsFirst, Kind
      <4> QED BY <3>3, <4>1, SameOp
    <3>5. Quietly(k, r, {})
      BY <1>1, <1>2, <2>1, <2>3, <3>2, <3>3, <3>4, FirstQuietly
    <3> QED BY <1>1, <2>4, <3>1, <3>3, <3>5, GoesOn
  <2>5. CASE Goto(c, [k EXCEPT !.doomed = doomed])
    <3>1. PICK r : r = [k EXCEPT !.doomed = doomed]
      OBVIOUS
    <3>2. /\ r \in Locals /\ r.pc = "prune" /\ r.request = k.request /\ r.at = k.at
          /\ r.own = k.own /\ r.user = k.user /\ r.half = k.half /\ r.doomed = doomed
      BY <1>1, <1>2, <2>3, <3>1 DEF Locals
    <3>3. Via(r) = Via(k) /\ InOps(r) = InOps(k) /\ Op(r) = Op(k) /\ Kind(r) = Kind(k)
      BY <3>2, SameOp
    <3>4. LocalOK(r)
      BY <1>1, <1>2, <3>2, <3>3 DEF LocalOK, PlaceOK, HandOK, HandPcs
    <3>5. Looked(r)
      BY <3>2 DEF Looked, NothingFound, FoundOnly, FoundListed, NoGroupFound
    <3>6. Quietly(k, r, {})
      BY <1>2, <2>3, <3>2, <3>4, <3>5 DEF Quietly, InHands
    <3> QED BY <1>1, <2>5, <3>1, <3>2, <3>6, GoesOn
  <2> QED BY <2>1, <2>2, <2>4, <2>5
<1> QED BY <1>3, <1>4

LEMMA RequestsBegin ==
  ASSUME TypeInv, NEW c \in Calls, NEW request \in Requests, Begin(c, request)
  PROVE  QuietStep(c)
<1> DEFINE k == calls[c]
<1>1. k.pc = "idle" /\ UNCHANGED <<stores, told>> /\ excused' = excused
  BY DEF Begin
<1>2. k \in Locals /\ k.half = NULL /\ k.own = {} /\ k.user = NULL
  BY <1>1 DEF TypeInv, CallsOK, LocalOK
<1>3. PICK j : j = [Idle EXCEPT !.request = request]
  OBVIOUS
<1>4. /\ j \in Locals /\ j.request = request /\ j.at = 0 /\ j.own = {} /\ j.doomed = {}
  BY <1>3, IdleIsOK DEF LocalOK, Locals
<1>5. PICK r : r = After(j)
  OBVIOUS
<1>6. Starts(j, r)
  BY <1>4, <1>5, AfterStarts
<1>7. /\ LocalOK(r) /\ r \in Locals /\ r.half = NULL /\ r.user = NULL /\ r.own = {} /\ r.doomed = {}
      /\ r.pc \in StartPcs \union {"listUsers", "idle"}
      /\ r.pc = "email" => Op(r).externalId = NULL
  BY <1>4, <1>6, IdleIsOK DEF Starts, LocalOK
<1>8. Looked(r)
  BY <1>7 DEF Looked, NothingFound, FoundOnly, FoundListed, NoGroupFound, StartPcs
<1>9. Quietly(k, r, {})
  BY <1>2, <1>7, <1>8 DEF Quietly, StartPcs
<1>10. Moves(c, r, {}, {})
  <2>1. calls' = [d \in Calls |-> IF d = c THEN r
                                 ELSE [calls[d] EXCEPT !.own = @ \ {calls[c].user}]]
    <3>1. calls' = [calls EXCEPT ![c] = r] /\ calls \in [Calls -> Locals]
      BY <1>3, <1>5 DEF Begin, TypeInv, CallsOK
    <3>2. ASSUME NEW d \in Calls PROVE calls[d] = [calls[d] EXCEPT !.own = @ \ {calls[c].user}]
      <4>1. calls[d] \in Locals /\ calls[d].own \ {NULL} = calls[d].own
        BY <3>1, NullIsNobody DEF Locals
      <4>2. [calls[d] EXCEPT !.own = calls[d].own] = calls[d]
        BY <4>1 DEF Locals
      <4> QED BY <1>2, <4>1, <4>2
    <3> QED BY <3>1, <3>2
  <2>2. excused' = excused \union {}
          \union {u \in Users : r.half = u /\ \E d \in Calls \ {c} : calls[d].half = u}
    BY <1>1, <1>7, NullIsNobody
  <2>3. contested' = contested \union {}
          \union UNION {Busy(r, users') \intersect Busy(calls[d], users') : d \in Calls \ {c}}
    <3>1. users' = users
      BY <1>1 DEF stores
    <3>2. contested' = contested
            \union UNION {Busy(r, users) \intersect Busy(calls[d], users) : d \in Calls \ {c}}
      BY <1>3, <1>5 DEF Begin
    <3> QED BY <3>1, <3>2
  <2> QED BY <2>1, <2>2, <2>3 DEF Moves
<1> QED BY <1>1, <1>7, <1>9, <1>10 DEF QuietStep, Goes

-----------------------------------------------------------------------------
(* Types are kept *)

\* A request whose user another has had in its hands keeps all but that user.
LEMMA OwnShrinks ==
  ASSUME NEW k \in Locals, LocalOK(k), NEW u
  PROVE  LET m == [k EXCEPT !.own = @ \ {u}]
         IN  /\ m \in Locals /\ LocalOK(m) /\ m.pc = k.pc /\ m.request = k.request /\ m.at = k.at
             /\ m.user = k.user /\ m.read = k.read /\ m.status = k.status /\ m.group = k.group
             /\ m.key = k.key /\ m.doomed = k.doomed /\ m.half = k.half /\ m.own = k.own \ {u}
             /\ Via(m) = Via(k) /\ InOps(m) = InOps(k) /\ Op(m) = Op(k) /\ Kind(m) = Kind(k)
             /\ TellsFirst(m) = TellsFirst(k)
<1>1. PICK m : m = [k EXCEPT !.own = @ \ {u}]
  OBVIOUS
<1>2. /\ m \in Locals /\ m.pc = k.pc /\ m.request = k.request /\ m.at = k.at
      /\ m.user = k.user /\ m.read = k.read /\ m.status = k.status /\ m.group = k.group
      /\ m.key = k.key /\ m.doomed = k.doomed /\ m.half = k.half /\ m.own = k.own \ {u}
  <2>1. k.own \ {u} \in SUBSET Users
    BY DEF Locals
  <2> QED BY <1>1, <2>1 DEF Locals
<1>3. /\ Via(m) = Via(k) /\ InOps(m) = InOps(k) /\ Op(m) = Op(k) /\ Kind(m) = Kind(k)
      /\ TellsFirst(m) = TellsFirst(k)
  BY <1>2, SameOp
<1>4. k.pc # "idle" => PlaceOK(m)
  BY <1>2, <1>3 DEF LocalOK, PlaceOK
<1>5. k.pc # "idle" => HandOK(m)
  BY <1>2, <1>3 DEF LocalOK, HandOK
<1>6. LocalOK(m)
  BY <1>2, <1>4, <1>5 DEF LocalOK
<1> QED BY <1>1, <1>2, <1>3, <1>6

LEMMA BusyAreIds ==
  ASSUME NEW k \in Locals, LocalOK(k), NEW store, store \in [DOMAIN store -> UserRows]
  PROVE  Busy(k, store) \subseteq ExternalIds
<1>1. CASE k.pc = "idle"
  BY <1>1 DEF Busy
<1>2. CASE k.pc # "idle"
  <2>1. k.request \in Requests
    BY <1>2 DEF LocalOK, PlaceOK
  <2>2. InOps(k) => Op(k).externalId \in ExternalIds \union {NULL}
    <3>1. InOps(k) => Op(k) \in Operations
      BY <2>1, RequestsAre DEF InOps, Op
    <3> QED BY <3>1 DEF Operations
  <2>3. \A u \in DOMAIN store : store[u].externalId \in ExternalIds \union {NULL}
    BY DEF UserRows
  <2>4. k.key \in ExternalIds \union {NULL}
    BY DEF Locals
  <2> QED BY <1>2, <2>2, <2>3, <2>4 DEF Busy
<1> QED BY <1>1, <1>2

\* What a step of c leaves of the other requests.
LEMMA OthersAre ==
  ASSUME TypeInv, NEW c \in Calls, NEW r, NEW lapsed, NEW given, Moves(c, r, lapsed, given),
         NEW d \in Calls, d # c
  PROVE  /\ calls'[d] \in Locals /\ LocalOK(calls'[d]) /\ calls'[d].pc = calls[d].pc
         /\ calls'[d].request = calls[d].request /\ calls'[d].at = calls[d].at
         /\ calls'[d].user = calls[d].user /\ calls'[d].key = calls[d].key
         /\ calls'[d].status = calls[d].status
         /\ calls'[d].doomed = calls[d].doomed /\ calls'[d].half = calls[d].half
         /\ calls'[d].own = calls[d].own \ {calls[c].user}
         /\ InOps(calls'[d]) = InOps(calls[d]) /\ Op(calls'[d]) = Op(calls[d])
         /\ Kind(calls'[d]) = Kind(calls[d]) /\ TellsFirst(calls'[d]) = TellsFirst(calls[d])
<1>1. calls'[d] = [calls[d] EXCEPT !.own = @ \ {calls[c].user}]
  BY DEF Moves
<1>2. PICK k : k = calls[d]
  OBVIOUS
<1>3. k \in Locals /\ LocalOK(k)
  BY <1>2 DEF TypeInv, CallsOK
<1>4. PICK u : u = calls[c].user
  OBVIOUS
<1>5. calls'[d] = [k EXCEPT !.own = @ \ {u}]
  BY <1>1, <1>2, <1>4
<1>6. PICK m : m = [k EXCEPT !.own = @ \ {u}]
  OBVIOUS
<1>7. /\ m \in Locals /\ LocalOK(m) /\ m.pc = k.pc /\ m.request = k.request /\ m.at = k.at
      /\ m.user = k.user /\ m.key = k.key /\ m.status = k.status
      /\ m.doomed = k.doomed /\ m.half = k.half /\ m.own = k.own \ {u}
      /\ InOps(m) = InOps(k) /\ Op(m) = Op(k) /\ Kind(m) = Kind(k)
      /\ TellsFirst(m) = TellsFirst(k)
  BY <1>3, <1>6, OwnShrinks
<1>8. m = calls'[d] /\ k = calls[d] /\ u = calls[c].user
  BY <1>2, <1>4, <1>5, <1>6
<1> QED BY <1>7, <1>8

LEMMA TypesKept ==
  ASSUME TypeInv, NEW c \in Calls, NEW r \in Locals, NEW lapsed \in SUBSET Users,
         NEW given \in SUBSET ExternalIds, Moves(c, r, lapsed, given), LocalOK(r),
         r.user \in drawn' \union {NULL}, r.own \subseteq drawn', r.doomed \subseteq drawn',
         drawn \subseteq drawn', drawn' \subseteq Users \union Groups,
         UsersOK', GroupsOK', told' \in [Users -> BOOLEAN]
  PROVE  TypeInv'
<1>1. calls' \in [Calls -> Locals] /\ \A d \in Calls : LocalOK(calls'[d])
  <2>1. DOMAIN calls' = Calls /\ calls'[c] = r /\ calls' = [d \in Calls |-> calls'[d]]
    BY DEF Moves
  <2>2. \A d \in Calls : calls'[d] \in Locals /\ LocalOK(calls'[d])
    BY <2>1, OthersAre
  <2> QED BY <2>1, <2>2
<1>2. ASSUME NEW d \in Calls
      PROVE  /\ calls'[d].user \in drawn' \union {NULL} /\ calls'[d].own \subseteq drawn'
             /\ calls'[d].doomed \subseteq drawn'
  <2>1. CASE d = c
    <3>1. calls'[c] = r
      BY DEF Moves
    <3> QED BY <2>1, <3>1
  <2>2. CASE d # c
    <3>1. /\ calls[d].user \in drawn \union {NULL} /\ calls[d].own \subseteq drawn
          /\ calls[d].doomed \subseteq drawn
      BY DEF TypeInv, CallsOK, InHands
    <3>2. /\ calls'[d].user = calls[d].user /\ calls'[d].doomed = calls[d].doomed
          /\ calls'[d].own = calls[d].own \ {calls[c].user}
      BY <2>2, OthersAre
    <3> QED BY <3>1, <3>2
  <2> QED BY <2>1, <2>2
<1>3. CallsOK'
  BY <1>1, <1>2 DEF CallsOK, InHands, LocalOK, PlaceOK, HandOK
<1>4. excused' \subseteq Users
  BY DEF Moves, TypeInv, HistoriesOK
<1>5. contested' \subseteq ExternalIds
  <2>1. Busy(r, users') \subseteq ExternalIds
    BY BusyAreIds DEF UsersOK
  <2>2. contested \subseteq ExternalIds
    BY DEF TypeInv, HistoriesOK
  <2> QED BY <2>1, <2>2 DEF Moves
<1>6. HistoriesOK'
  BY <1>4, <1>5 DEF HistoriesOK
<1> QED BY <1>3, <1>6 DEF TypeInv

-----------------------------------------------------------------------------
(* A step that writes a group: users and the subscriber are left alone, and *)
(* an external id gains a group only from a request that has found none     *)

GroupGain(k, r) ==
  \A x \in ExternalIds :
    \/ FindGroupByExternalId(x)' \subseteq FindGroupByExternalId(x)
    \/ /\ k.pc = "createGroup" /\ x = k.key /\ x = r.key /\ r.pc \notin {"idle", "createGroup"}
       /\ \E g : FindGroupByExternalId(x)' \subseteq FindGroupByExternalId(x) \union {g}

CalmStep(c) ==
  /\ UNCHANGED <<users, told>> /\ GroupsOK'
  /\ drawn \subseteq drawn' /\ drawn' \subseteq Users \union Groups
  /\ \E r \in Locals, lapsed \in SUBSET Users :
       Moves(c, r, lapsed, {}) /\ Quietly(calls[c], r, lapsed) /\ GroupGain(calls[c], r)

LEMMA QuietIsCalm ==
  ASSUME TypeInv, NEW c \in Calls, QuietStep(c)
  PROVE  CalmStep(c)
<1>1. UNCHANGED <<users, groups, drawn, told>>
  BY DEF QuietStep, stores
<1>2. PICK r \in Locals, lapsed \in SUBSET Users : Moves(c, r, lapsed, {}) /\ Quietly(calls[c], r, lapsed)
  BY DEF QuietStep, Goes
<1>3. GroupGain(calls[c], r)
  BY <1>1 DEF GroupGain, FindGroupByExternalId
<1>4. GroupsOK' /\ drawn' \subseteq Users \union Groups
  BY <1>1 DEF TypeInv, GroupsOK, HistoriesOK
<1> QED BY <1>1, <1>2, <1>3, <1>4 DEF CalmStep

\* The groups that remain are as they were, but for their members and for one that is
\* no longer active.
LEMMA GroupsShrink ==
  ASSUME TypeInv, NEW k, NEW r, drawn' = drawn,
         DOMAIN groups' \subseteq DOMAIN groups, groups' = [g \in DOMAIN groups' |-> groups'[g]],
         \A g \in DOMAIN groups' : /\ groups'[g] \in GroupRows
                                   /\ groups'[g].externalId = groups[g].externalId
                                   /\ groups'[g].active = TRUE => groups[g].active = TRUE
  PROVE  GroupsOK' /\ GroupGain(k, r)
<1>1. DOMAIN groups \subseteq Groups \intersect drawn /\ groups \in [DOMAIN groups -> GroupRows]
  BY DEF TypeInv, GroupsOK
<1>2. GroupsOK'
  <2>1. groups' \in [DOMAIN groups' -> GroupRows]
    OBVIOUS
  <2> QED BY <1>1, <2>1 DEF GroupsOK
<1>3. GroupGain(k, r)
  <2>1. ASSUME NEW x \in ExternalIds, NEW g \in DOMAIN groups',
               groups'[g].externalId = x, groups'[g].active
        PROVE  g \in DOMAIN groups /\ groups[g].externalId = x /\ groups[g].active
    <3>1. g \in DOMAIN groups /\ groups[g].externalId = x
      BY <2>1
    <3>2. groups'[g].active = TRUE
      BY <2>1 DEF GroupRows
    <3> QED BY <3>1, <3>2
  <2>2. \A x \in ExternalIds : FindGroupByExternalId(x)' \subseteq FindGroupByExternalId(x)
    BY <2>1 DEF FindGroupByExternalId
  <2> QED BY <2>2 DEF GroupGain
<1> QED BY <1>2, <1>3

LEMMA MembersSet ==
  ASSUME TypeInv, NEW c \in Calls, SetGroupMembers(c)
  PROVE  CalmStep(c)
<1> DEFINE k == calls[c]
<1>1. k.pc = "setMembers" /\ k.pc \in GroupPcs /\ UNCHANGED <<users, drawn, told>>
  BY DEF SetGroupMembers, GroupPcs
<1>2. /\ k.pc # "idle" /\ k.half = NULL /\ k \in Locals
      /\ k.doomed \subseteq Groups \intersect drawn
  BY <1>1, InGroups
<1>3. groups \in [DOMAIN groups -> GroupRows] /\ k.members \in SUBSET References
  BY <1>2 DEF TypeInv, GroupsOK, Locals
<1>4. \A r : GroupsOK' /\ GroupGain(k, r)
  <2>1. groups' = IF k.group \in DOMAIN groups
                  THEN [groups EXCEPT ![k.group].members = k.members] ELSE groups
    BY DEF SetGroupMembers
  <2>2. DOMAIN groups' \subseteq DOMAIN groups /\ groups' = [g \in DOMAIN groups' |-> groups'[g]]
    BY <1>3, <2>1
  <2>3. ASSUME NEW g \in DOMAIN groups'
        PROVE  /\ groups'[g] \in GroupRows /\ groups'[g].externalId = groups[g].externalId
               /\ groups'[g].active = TRUE => groups[g].active = TRUE
    BY <1>3, <2>1, <2>3 DEF GroupRows
  <2> QED BY <1>1, <2>2, <2>3, GroupsShrink
<1>5. ASSUME NEW pc \in {"listGroups", "announceGroup"}, Goto(c, [k EXCEPT !.pc = pc])
      PROVE  \E r \in Locals : Goto(c, r) /\ Quietly(k, r, {})
  <2>1. PICK r : r = [k EXCEPT !.pc = pc]
    OBVIOUS
  <2>2. pc \in Pcs /\ pc \in GroupPcs
    BY DEF Pcs, GroupPcs
  <2>3. /\ r \in Locals /\ r.pc = pc /\ r.request = k.request /\ r.at = k.at /\ r.own = k.own
        /\ r.user = k.user /\ r.half = k.half /\ r.doomed = k.doomed
    BY <1>2, <2>1, <2>2, SetPc
  <2>4. Quietly(k, r, {})
    BY <1>1, <1>2, <2>2, <2>3, GroupPhase
  <2> QED BY <1>5, <2>1, <2>3, <2>4
<1>6. ASSUME Goto(c, After(k)) PROVE \E r \in Locals : Goto(c, r) /\ Quietly(k, r, {})
  BY <1>2, <1>6, EndsQuietly
<1>7. \E r \in Locals : Goto(c, r) /\ Quietly(k, r, {})
  BY <1>5, <1>6 DEF SetGroupMembers
<1>8. PICK r \in Locals : Moves(c, r, {}, {}) /\ Quietly(k, r, {})
  BY <1>7, GotoMoves
<1>9. drawn' \subseteq Users \union Groups
  BY <1>1 DEF TypeInv, HistoriesOK
<1> QED BY <1>1, <1>4, <1>8, <1>9 DEF CalmStep

LEMMA GroupsRemoved ==
  ASSUME TypeInv, NEW c \in Calls, RemoveGroup(c) \/ PruneGroup(c)
  PROVE  CalmStep(c)
<1> DEFINE k == calls[c]
<1>1. k.pc \in {"removeGroup", "pruneGroups"} /\ k.pc \in GroupPcs /\ UNCHANGED <<users, drawn, told>>
  BY DEF RemoveGroup, PruneGroup, GroupPcs
<1>2. /\ k.pc # "idle" /\ k.half = NULL /\ k \in Locals
      /\ k.doomed \subseteq Groups \intersect drawn
  BY <1>1, InGroups
<1>3. groups \in [DOMAIN groups -> GroupRows]
  BY <1>2 DEF TypeInv, GroupsOK
<1>4. \A r : GroupsOK' /\ GroupGain(k, r)
  <2>1. PICK g : \/ groups' = groups
                 \/ g \in DOMAIN groups /\ groups' = [groups EXCEPT ![g].active = FALSE]
                 \/ groups' = MapDelete(groups, {g})
    BY DEF RemoveGroup, PruneGroup
  <2>2. DOMAIN groups' \subseteq DOMAIN groups /\ groups' = [h \in DOMAIN groups' |-> groups'[h]]
    BY <1>3, <2>1 DEF MapDelete
  <2>3. ASSUME NEW h \in DOMAIN groups'
        PROVE  /\ groups'[h] \in GroupRows /\ groups'[h].externalId = groups[h].externalId
               /\ groups'[h].active = TRUE => groups[h].active = TRUE
    BY <1>3, <2>1, <2>3, ZenonT(60) DEF GroupRows, MapDelete
  <2> QED BY <1>1, <2>2, <2>3, GroupsShrink
<1>5. \E r \in Locals : Goto(c, r) /\ Quietly(k, r, {})
  <2>1. CASE Goto(c, After(k))
    BY <1>2, <2>1, EndsQuietly
  <2>2. CASE Goto(c, [k EXCEPT !.pc = "announceGroup"])
    <3>1. PICK r : r = [k EXCEPT !.pc = "announceGroup"]
      OBVIOUS
    <3>2. "announceGroup" \in Pcs /\ "announceGroup" \in GroupPcs
      BY DEF Pcs, GroupPcs
    <3>3. /\ r \in Locals /\ r.pc = "announceGroup" /\ r.request = k.request /\ r.at = k.at /\ r.own = k.own
          /\ r.user = k.user /\ r.half = k.half /\ r.doomed = k.doomed
      BY <1>2, <3>1, <3>2, SetPc
    <3>4. Quietly(k, r, {})
      BY <1>1, <1>2, <3>2, <3>3, GroupPhase
    <3> QED BY <2>2, <3>1, <3>3, <3>4
  <2>3. ASSUME NEW g \in k.doomed, Goto(c, [k EXCEPT !.doomed = @ \ {g}])
        PROVE  \E r \in Locals : Goto(c, r) /\ Quietly(k, r, {})
    <3>1. PICK r : r = [k EXCEPT !.doomed = @ \ {g}]
      OBVIOUS
    <3>2. k.doomed \ {g} \in SUBSET (Users \union Groups)
      BY <1>2
    <3>3. /\ r \in Locals /\ r.pc = k.pc /\ r.request = k.request /\ r.at = k.at /\ r.own = k.own
          /\ r.user = k.user /\ r.half = k.half /\ r.doomed = k.doomed \ {g}
      BY <1>2, <3>1, <3>2 DEF Locals
    <3>4. Quietly(k, r, {})
      BY <1>1, <1>2, <3>3, GroupPhase
    <3> QED BY <2>3, <3>1, <3>3, <3>4
  <2>4. Goto(c, After(k)) \/ Goto(c, [k EXCEPT !.pc = "announceGroup"])
        \/ \E g \in k.doomed : Goto(c, [k EXCEPT !.doomed = @ \ {g}])
    BY DEF RemoveGroup, PruneGroup
  <2> QED BY <2>1, <2>2, <2>3, <2>4
<1>6. PICK r \in Locals : Moves(c, r, {}, {}) /\ Quietly(k, r, {})
  BY <1>5, GotoMoves
<1>7. drawn' \subseteq Users \union Groups
  BY <1>1 DEF TypeInv, HistoriesOK
<1> QED BY <1>1, <1>4, <1>6, <1>7 DEF CalmStep

LEMMA GroupsCreated ==
  ASSUME TypeInv, NEW c \in Calls, CreateGroup(c)
  PROVE  CalmStep(c)
<1> DEFINE k == calls[c]
<1>1. k.pc = "createGroup" /\ UNCHANGED <<users, told>>
  BY DEF CreateGroup
<1>2. k \in Locals /\ k.key # NULL /\ k.doomed \subseteq Groups \intersect drawn
  BY <1>1, InGroups
<1>3. PICK g \in Groups \ drawn :
        /\ groups' = MapSet(groups, g, [externalId |-> k.key, active |-> TRUE, members |-> {}])
        /\ drawn' = drawn \union {g}
        /\ Goto(c, [k EXCEPT !.pc = "setMembers", !.group = g])
  BY DEF CreateGroup
<1>4. PICK r : r = [k EXCEPT !.pc = "setMembers", !.group = g]
  OBVIOUS
<1>5. "setMembers" \in Pcs /\ "setMembers" \in GroupPcs
  BY DEF Pcs, GroupPcs
<1>6. /\ r \in Locals /\ r.pc = "setMembers" /\ r.request = k.request /\ r.at = k.at
      /\ r.own = k.own /\ r.user = k.user /\ r.half = k.half /\ r.doomed = k.doomed /\ r.key = k.key
  BY <1>2, <1>4, <1>5 DEF Locals
<1>7. Quietly(k, r, {})
  BY <1>1, <1>2, <1>5, <1>6, GroupPhase
<1>8. PICK row : row = [externalId |-> k.key, active |-> TRUE, members |-> {}]
  OBVIOUS
<1>9. row \in GroupRows /\ row.externalId = k.key
  BY <1>2, <1>8 DEF GroupRows, Locals
<1>10. groups \in [DOMAIN groups -> GroupRows] /\ DOMAIN groups \subseteq Groups \intersect drawn
  BY DEF TypeInv, GroupsOK
<1>11. groups' = [h \in DOMAIN groups \union {g} |-> IF h = g THEN row ELSE groups[h]]
  BY <1>3, <1>8 DEF MapSet
<1>12. GroupsOK'
  <2>1. groups' \in [DOMAIN groups' -> GroupRows] /\ DOMAIN groups' = DOMAIN groups \union {g}
    BY <1>9, <1>10, <1>11
  <2> QED BY <1>3, <1>10, <2>1 DEF GroupsOK
<1>13. GroupGain(k, r)
  <2>1. \A x \in ExternalIds : FindGroupByExternalId(x)' \subseteq FindGroupByExternalId(x) \union {g}
    BY <1>11 DEF FindGroupByExternalId
  <2>2. ASSUME NEW x \in ExternalIds, x # k.key
        PROVE  FindGroupByExternalId(x)' \subseteq FindGroupByExternalId(x)
    BY <1>9, <1>11, <2>2 DEF FindGroupByExternalId
  <2> QED BY <1>1, <1>6, <2>1, <2>2 DEF GroupGain
<1>14. drawn \subseteq drawn' /\ drawn' \subseteq Users \union Groups
  BY <1>3 DEF TypeInv, HistoriesOK
<1>15. Moves(c, r, {}, {})
  BY <1>3, <1>4, GotoMoves
<1> QED BY <1>1, <1>6, <1>7, <1>12, <1>13, <1>14, <1>15 DEF CalmStep

-----------------------------------------------------------------------------
(* A step that writes a user *)

Active(u) == u \in DOMAIN users /\ users[u].active = TRUE

\* A request in a place where nothing it has looked up matters.
Settled(r) ==
  /\ r.pc \notin {"create", "write", "createGroup"}
  /\ r.pc = "email" => Op(r).externalId = NULL

\* Only w is written; it is the user in hand or a new one.
OnlyUser(k, w) ==
  /\ w = k.user \/ w \notin drawn
  /\ \A u \in Users \ {w} : /\ u \in DOMAIN users' <=> u \in DOMAIN users
                            /\ u \in DOMAIN users => users'[u] = users[u]

\* An external id that w did not have is one that r is busy with, or given.
IdHow(k, r, w, given) ==
  w \in DOMAIN users' =>
    \/ w \in DOMAIN users /\ users'[w].externalId = users[w].externalId
    \/ users'[w].externalId \in given \union {NULL}
    \/ r.user = w /\ r.pc # "idle"

\* Of an external id that was looked up, w is the only user.
IdGain(k, r, w, given) ==
  OnlyOne /\ Looked(k) =>
    \A x \in ExternalIds \ (contested \union given) :
      \/ FindByExternalId(x)' \subseteq FindByExternalId(x)
      \/ r.user = w /\ r.pc # "idle" /\ FindByExternalId(x)' \subseteq {w}

DeletedHow(k, w) ==
  w \in DOMAIN users' /\ users'[w].deleted = TRUE =>
    k.pc = "remove" /\ k.user = w /\ w \in DOMAIN users /\ users'[w].externalId = users[w].externalId

\* A synchronization keeps account of the users of its source that it wrote.
OwnHow(k, r, w) ==
  \/ r.own = {}
  \/ r.own = k.own /\ r.request = k.request /\ k.pc = "remove" /\ ~InOps(k) /\ w = k.user
  \/ /\ r.own = k.own \union {w} /\ r.request = k.request /\ InOps(k)
     /\ w \in DOMAIN users' /\ InSource(r, w)'

\* The event of the change is due, or nothing changed, or it is known already.
PictureHow(k, r, w, lapsed) ==
  \/ /\ r.pc = "tell" /\ r.half = w /\ ~TellsFirst(r) /\ (r.status = TRUE <=> Active(w)')
     /\ k.half = NULL
  \/ r.half = NULL /\ k.half = NULL /\ (w \in lapsed \/ (Active(w)' <=> Active(w)))
  \/ r.half = NULL /\ k.pc = "remove" /\ TellsFirst(k) /\ w = k.user /\ ~Active(w)'

Writes(k, r, w, lapsed, given) ==
  /\ LocalOK(r) /\ Settled(r) /\ r.user \in drawn' \union {NULL}
  /\ r.doomed = k.doomed \/ r.doomed = {}
  /\ r.pc # "remove" /\ (r.pc = "tell" => r.half = w /\ InOps(r))
  /\ OnlyUser(k, w) /\ IdHow(k, r, w, given) /\ IdGain(k, r, w, given) /\ DeletedHow(k, w)
  /\ OwnHow(k, r, w) /\ PictureHow(k, r, w, lapsed)

UserStep(c) ==
  /\ UNCHANGED <<groups, told>> /\ UsersOK'
  /\ drawn \subseteq drawn' /\ drawn' \subseteq Users \union Groups
  /\ \E r \in Locals, w \in Users, lapsed \in SUBSET Users, given \in SUBSET ExternalIds :
       Moves(c, r, lapsed, given) /\ Writes(calls[c], r, w, lapsed, given)

\* An attempt to tell of a user has arrived.
Tells(k, r) ==
  /\ k.pc = "tell" /\ told' = [told EXCEPT ![k.user] = k.status]
  /\ LocalOK(r) /\ Settled(r) /\ r.user \in {k.user, NULL}
  /\ r.own = {} \/ (r.own = k.own /\ r.request = k.request)
  /\ r.doomed = k.doomed \/ r.doomed = {}
  /\ \/ /\ r.pc = "tell" /\ r.half = k.user /\ r.user = k.user /\ r.status = k.status
        /\ TellsFirst(r) = TellsFirst(k) /\ InOps(r) = InOps(k)
     \/ /\ r.pc = "remove" /\ r.half = k.user /\ r.user = k.user
        /\ TellsFirst(k) /\ TellsFirst(r) /\ InOps(r) = InOps(k)
     \/ ~TellsFirst(k) /\ r.half = NULL /\ r.pc \notin {"tell", "remove"}

TellStep(c) ==
  UNCHANGED stores /\ \E r \in Locals : Moves(c, r, {}, {}) /\ Tells(calls[c], r)

LEMMA DeliverTells ==
  ASSUME TypeInv, NEW c \in Calls, Deliver(c)
  PROVE  TellStep(c)
<1> DEFINE k == calls[c]
<1>1. k.pc = "tell" /\ k.pc # "idle"
  BY DEF Deliver
<1>2. /\ k \in Locals /\ k.request \in Requests /\ PlaceOK(k) /\ HandOK(k) /\ InHands(k)
      /\ k.at # 0 /\ (k.own # {} => Via(k) = "sync")
  BY <1>1, InPlace
<1>3. /\ k.user \in Users /\ Kind(k) \in {"push", "put", "remove", "prune"}
      /\ InOps(k) => k.doomed \subseteq Groups
      /\ TellsFirst(k) => k.status = FALSE
      /\ Kind(k) = "push" => k.read \in Reads
  BY <1>1, <1>2 DEF PlaceOK, HandOK, HandPcs
<1>4. PICK h : h = [k EXCEPT !.half = k.user]
  OBVIOUS
<1>5. /\ h \in Locals /\ h.pc = "tell" /\ h.request = k.request /\ h.at = k.at /\ h.user = k.user
      /\ h.status = k.status /\ h.half = k.user /\ h.own = k.own /\ h.doomed = k.doomed
      /\ h.read = k.read
  BY <1>1, <1>2, <1>3, <1>4 DEF Locals
<1>6. /\ Via(h) = Via(k) /\ InOps(h) = InOps(k) /\ Op(h) = Op(k) /\ Kind(h) = Kind(k)
      /\ TellsFirst(h) = TellsFirst(k)
  BY <1>5, SameOp
<1>7. /\ UNCHANGED stores /\ told' = [told EXCEPT ![k.user] = k.status]
      /\ Goto(c, h) \/ Goto(c, Told(h))
  BY <1>4, <1>5 DEF Deliver
<1>8. CASE Goto(c, h)
  <2>1. LocalOK(h) /\ Settled(h)
    BY <1>1, <1>2, <1>3, <1>5, <1>6 DEF LocalOK, PlaceOK, HandOK, HandPcs, Settled
  <2>2. Tells(k, h)
    BY <1>1, <1>5, <1>6, <1>7, <2>1 DEF Tells
  <2> QED BY <1>5, <1>7, <1>8, <2>2, GotoMoves DEF TellStep
<1>9. CASE Goto(c, Told(h)) /\ TellsFirst(k)
  <2>1. PICK r : r = [h EXCEPT !.pc = "remove"]
    OBVIOUS
  <2>2. "remove" \in Pcs
    BY DEF Pcs
  <2>3. /\ r \in Locals /\ r.pc = "remove" /\ r.request = k.request /\ r.at = k.at /\ r.user = k.user
        /\ r.status = k.status /\ r.half = k.user /\ r.own = k.own /\ r.doomed = k.doomed
    BY <1>5, <2>1, <2>2, SetPc
  <2>4. /\ Via(r) = Via(k) /\ InOps(r) = InOps(k) /\ Op(r) = Op(k) /\ Kind(r) = Kind(k)
        /\ TellsFirst(r)
    BY <1>9, <2>3, SameOp
  <2>5. LocalOK(r) /\ Settled(r)
    <3>1. Kind(k) \in {"remove", "prune"}
      BY <1>9 DEF TellsFirst
    <3> QED BY <1>1, <1>2, <1>3, <2>3, <2>4, <3>1 DEF LocalOK, PlaceOK, HandOK, HandPcs, Settled
  <2>6. Tells(k, r)
    BY <1>1, <1>7, <1>9, <2>3, <2>4, <2>5 DEF Tells
  <2>7. Goto(c, r)
    BY <1>6, <1>9, <2>1 DEF Told
  <2> QED BY <1>7, <2>3, <2>6, <2>7, GotoMoves DEF TellStep
<1>10. CASE Goto(c, Told(h)) /\ ~TellsFirst(k)
  <2>1. PICK r : r = Told(h)
    OBVIOUS
  <2>2. Starts(h, r)
    BY <1>2, <1>3, <1>5, <1>6, <1>10, <2>1, ToldIs
  <2>3. /\ LocalOK(r) /\ r \in Locals /\ r.half = NULL /\ r.user = NULL
        /\ r.pc \in StartPcs \union {"listUsers", "idle"}
        /\ r.own = {} \/ (r.own = k.own /\ r.request = k.request)
        /\ r.doomed = k.doomed \/ r.doomed = {}
        /\ r.pc = "email" => Op(r).externalId = NULL
    BY <1>5, <2>2, IdleIsOK DEF Starts, LocalOK
  <2>4. Settled(r) /\ r.pc \notin {"tell", "remove"}
    BY <2>3 DEF Settled, StartPcs
  <2>5. Tells(k, r)
    BY <1>1, <1>7, <1>10, <2>3, <2>4 DEF Tells
  <2> QED BY <1>7, <1>10, <2>1, <2>3, <2>5, GotoMoves DEF TellStep
<1> QED BY <1>7, <1>8, <1>9, <1>10

LEMMA WroteIs ==
  ASSUME TypeInv, NEW c \in Calls, calls[c].pc \in {"create", "write"}, NEW u \in Users,
         NEW row \in UserRows
  PROVE  LET r == Wrote(calls[c], u, row)
         IN  /\ r \in Locals /\ LocalOK(r) /\ Settled(r) /\ r.pc = "tell" /\ r.user = u
             /\ r.status = row.active /\ r.half = u /\ r.request = calls[c].request
             /\ r.at = calls[c].at /\ r.doomed = calls[c].doomed /\ InOps(r) /\ ~TellsFirst(r)
             /\ Via(calls[c]) # "sync" => r.own = {}
             /\ Via(calls[c]) = "sync" => r.own = calls[c].own \union {u}
<1> DEFINE k == calls[c]
<1>1. /\ k \in Locals /\ k.request \in Requests /\ PlaceOK(k) /\ HandOK(k) /\ InHands(k)
      /\ k.at # 0 /\ (k.own # {} => Via(k) = "sync")
  BY InPlace
<1>2. InOps(k) /\ Kind(k) \in {"push", "put"} /\ k.doomed \subseteq Groups
  BY <1>1 DEF PlaceOK
<1>3. PICK own : own = IF Via(k) = "sync" THEN k.own \union {u} ELSE k.own
  OBVIOUS
<1>0. PICK active, read : /\ active = row.active
                          /\ read = [email |-> row.email, externalId |-> row.externalId]
  OBVIOUS
<1>4. PICK w : w = [k EXCEPT !.pc = "tell", !.user = u, !.status = active, !.half = u,
                             !.read = read, !.own = own]
  OBVIOUS
<1>5. own \in SUBSET Users /\ "tell" \in Pcs /\ active \in BOOLEAN /\ read \in Reads
  BY <1>0, <1>1, <1>3 DEF Locals, Pcs, UserRows, Reads
<1>6. /\ w \in Locals /\ w.pc = "tell" /\ w.user = u /\ w.status = active /\ w.half = u
      /\ w.request = k.request /\ w.at = k.at /\ w.doomed = k.doomed /\ w.own = own
      /\ w.read = read
  BY <1>1, <1>4, <1>5 DEF Locals
<1>7. InOps(w) = InOps(k)
  BY <1>6, SameOp
<1>8. Wrote(k, u, row) = IF Via(k) = "bulk" /\ Kind(k) = "push" THEN Known(w, u) ELSE w
  BY <1>0, <1>3, <1>4 DEF Wrote
<1>9. PICK r : r = Wrote(k, u, row)
  OBVIOUS
<1>10. /\ r \in Locals /\ r.pc = "tell" /\ r.user = u /\ r.status = active /\ r.half = u
       /\ r.request = k.request /\ r.at = k.at /\ r.doomed = k.doomed /\ r.own = own
       /\ r.read \in Reads
  <2>1. PICK m : m = Known(w, u)
    OBVIOUS
  <2>2. /\ m \in Locals /\ m.pc = "tell" /\ m.user = u /\ m.status = active /\ m.half = u
        /\ m.request = k.request /\ m.at = k.at /\ m.doomed = k.doomed /\ m.own = own
        /\ m.read \in Reads
    BY <1>1, <1>2, <1>5, <1>6, <1>7, <2>1, KnownIs
  <2>3. r = m \/ r = w
    BY <1>8, <1>9, <2>1
  <2> QED BY <1>5, <1>6, <2>2, <2>3
<1>11. /\ Via(r) = Via(k) /\ InOps(r) /\ Op(r) = Op(k) /\ Kind(r) = Kind(k) /\ ~TellsFirst(r)
  BY <1>2, <1>10, SameOp DEF TellsFirst
<1>12. PlaceOK(r) /\ HandOK(r)
  BY <1>1, <1>2, <1>3, <1>10, <1>11 DEF PlaceOK, HandOK, HandPcs
<1>13. LocalOK(r) /\ Settled(r)
  BY <1>10, <1>12 DEF LocalOK, Settled
<1> QED BY <1>0, <1>1, <1>3, <1>9, <1>10, <1>11, <1>13

LEMMA UsersCreated ==
  ASSUME TypeInv, NEW c \in Calls, CreateUser(c)
  PROVE  UserStep(c)
<1> DEFINE k == calls[c]
           op == Op(k)
<1>1. k.pc = "create" /\ k.pc # "idle" /\ UNCHANGED <<groups, told>>
  BY DEF CreateUser
<1>2. /\ k \in Locals /\ k.request \in Requests /\ PlaceOK(k) /\ k.half = NULL
      /\ op \in Operations /\ InOps(k)
  BY <1>1, InPlace DEF PlaceOK
<1>3. op.kind = "push" /\ op.email \in Emails /\ op.externalId \in ExternalIds \union {NULL}
      /\ op.active \in BOOLEAN
  BY <1>1, <1>2, RequestsAre, SMTT(40) DEF PlaceOK, Operations, Kind, InOps, Op
<1>4. PICK row : row = [email |-> op.email, externalId |-> op.externalId,
                        active |-> op.active, deleted |-> FALSE]
  OBVIOUS
<1>5. /\ row \in UserRows /\ row.email = op.email /\ row.externalId = op.externalId
      /\ row.active = op.active /\ row.deleted = FALSE
  BY <1>3, <1>4 DEF UserRows
<1>6. PICK u \in Users \ drawn :
        /\ users' = MapSet(users, u, row)
        /\ drawn' = drawn \union {u}
        /\ Goto(c, Wrote(k, u, row))
  BY <1>4 DEF CreateUser
<1>7. PICK r : r = Wrote(k, u, row)
  OBVIOUS
<1>8. /\ r \in Locals /\ LocalOK(r) /\ Settled(r) /\ r.pc = "tell" /\ r.user = u
      /\ r.status = row.active /\ r.half = u /\ r.request = k.request
      /\ r.at = k.at /\ r.doomed = k.doomed /\ InOps(r) /\ ~TellsFirst(r)
      /\ Via(k) # "sync" => r.own = {}
      /\ Via(k) = "sync" => r.own = k.own \union {u}
  BY <1>1, <1>7, <1>5, WroteIs
<1>9. users' = [v \in DOMAIN users \union {u} |-> IF v = u THEN row ELSE users[v]]
  BY <1>6 DEF MapSet
<1> HIDE DEF op
<1>10. /\ users \in [DOMAIN users -> UserRows] /\ DOMAIN users \subseteq Users \intersect drawn
       /\ \A v \in DOMAIN users : users[v].deleted = TRUE => users[v].active = FALSE
  BY DEF TypeInv, UsersOK
<1>11. /\ DOMAIN users' = DOMAIN users \union {u} /\ users'[u] = row
       /\ \A v \in DOMAIN users : users'[v] = users[v]
       /\ u \notin DOMAIN users
  BY <1>6, <1>9, <1>10
<1>12. UsersOK'
  <2>1. users' \in [DOMAIN users' -> UserRows]
    BY <1>5, <1>9, <1>10, <1>11
  <2> QED BY <1>6, <1>5, <1>10, <1>11, <2>1 DEF UsersOK
<1>13. OnlyUser(k, u) /\ IdHow(k, r, u, {}) /\ DeletedHow(k, u)
  BY <1>6, <1>8, <1>5, <1>11 DEF OnlyUser, IdHow, DeletedHow
<1>14. IdGain(k, r, u, {})
  <2>1. SUFFICES ASSUME OnlyOne, Looked(k), NEW x \in ExternalIds \ contested
                 PROVE  \/ FindByExternalId(x)' \subseteq FindByExternalId(x)
                        \/ FindByExternalId(x)' \subseteq {u}
    BY <1>8 DEF IdGain
  <2>2. CASE x = op.externalId
    <3>1. FindByExternalId(x) = {}
      BY <1>1, <2>1, <2>2, NullIsNobody DEF Looked, NothingFound, op
    <3>2. FindByExternalId(x)' \subseteq FindByExternalId(x) \union {u}
      BY <1>11 DEF FindByExternalId
    <3> QED BY <3>1, <3>2
  <2>3. CASE x # op.externalId
    BY <1>5, <1>11, <2>3 DEF FindByExternalId
  <2> QED BY <2>2, <2>3
<1>15. OwnHow(k, r, u)
  <2>1. CASE Via(k) # "sync"
    BY <1>8, <2>1 DEF OwnHow
  <2>2. CASE Via(k) = "sync"
    <3>1. op \in Pushes(r)
      BY <1>2, <1>3, <1>8, RequestsAre, SMTT(40) DEF Pushes, InOps, Op, op
    <3>2. InSource(r, u)'
      BY <1>5, <1>11, <3>1 DEF InSource
    <3> QED BY <1>2, <1>8, <1>11, <2>2, <3>2 DEF OwnHow
  <2> QED BY <2>1, <2>2
<1>16. PictureHow(k, r, u, {})
  BY <1>2, <1>8, <1>5, <1>11 DEF PictureHow, Active
<1>17. drawn \subseteq drawn' /\ drawn' \subseteq Users \union Groups /\ r.user \in drawn'
  BY <1>6, <1>8 DEF TypeInv, HistoriesOK
<1>18. Writes(k, r, u, {}, {})
  BY <1>8, <1>13, <1>14, <1>15, <1>16, <1>17 DEF Writes
<1>19. Moves(c, r, {}, {})
  BY <1>6, <1>7, GotoMoves
<1> QED BY <1>1, <1>8, <1>12, <1>17, <1>18, <1>19 DEF UserStep

\* A user is written anew, and listed.
LEMMA UpdateIs ==
  ASSUME TypeInv, NEW u \in DOMAIN users, NEW row \in UserRows, row.deleted = FALSE,
         users' = [users EXCEPT ![u] = row], drawn' = drawn
  PROVE  /\ UsersOK' /\ DOMAIN users' = DOMAIN users /\ users'[u] = row
         /\ \A v \in DOMAIN users : v # u => users'[v] = users[v]
         /\ \A x : FindByExternalId(x)' \subseteq FindByExternalId(x) \union {u}
         /\ \A x : x # row.externalId => FindByExternalId(x)' \subseteq FindByExternalId(x)
         /\ u \in Users \intersect drawn
<1>1. /\ users \in [DOMAIN users -> UserRows] /\ DOMAIN users \subseteq Users \intersect drawn
      /\ \A v \in DOMAIN users : users[v].deleted = TRUE => users[v].active = FALSE
  BY DEF TypeInv, UsersOK
<1>2. /\ DOMAIN users' = DOMAIN users /\ users'[u] = row
      /\ \A v \in DOMAIN users : v # u => users'[v] = users[v]
      /\ users' \in [DOMAIN users' -> UserRows]
  BY <1>1
<1>3. UsersOK'
  BY <1>1, <1>2 DEF UsersOK
<1>4. \A x : FindByExternalId(x)' \subseteq FindByExternalId(x) \union {u}
  BY <1>2 DEF FindByExternalId
<1>5. \A x : x # row.externalId => FindByExternalId(x)' \subseteq FindByExternalId(x)
  BY <1>2 DEF FindByExternalId
<1> QED BY <1>1, <1>2, <1>3, <1>4, <1>5

LEMMA UsersUpdated ==
  ASSUME TypeInv, NEW c \in Calls, ProvisionUpdate(c)
  PROVE  UserStep(c)
<1> DEFINE k == calls[c]
<1>0. PICK op, u : op = Op(k) /\ u = k.user
  OBVIOUS
<1>1. k.pc = "write" /\ k.pc # "idle" /\ op.kind = "push" /\ UNCHANGED <<groups, drawn, told>>
      /\ u \in DOMAIN users
  BY <1>0 DEF ProvisionUpdate
<1>2. /\ k \in Locals /\ k.request \in Requests /\ PlaceOK(k) /\ k.half = NULL
      /\ op \in Operations /\ InOps(k)
  BY <1>0, <1>1, InPlace DEF PlaceOK
<1>3. /\ op.email \in Emails \union {NULL} /\ op.externalId \in ExternalIds \union {NULL}
      /\ op.active \in BOOLEAN \union {NULL} /\ Kind(k) = "push"
      /\ op.email # NULL \/ op.externalId # NULL
  BY <1>0, <1>1, <1>2 DEF PlaceOK, Operations, Kind
<1>4. PICK row : row = Updated(u, op.email, op.externalId, op.active)
  OBVIOUS
<1>5. /\ row \in UserRows /\ row.deleted = FALSE
      /\ row.email = IF op.email = NULL THEN users[u].email ELSE op.email
      /\ row.externalId = IF op.externalId = NULL THEN users[u].externalId ELSE op.externalId
  <2>1. users[u] \in UserRows
    BY <1>1 DEF TypeInv, UsersOK
  <2> QED BY <1>3, <1>4, <2>1 DEF Updated, UserRows
<1>6. users' = [users EXCEPT ![u] = row] /\ Goto(c, Wrote(k, u, row))
  BY <1>0, <1>4 DEF ProvisionUpdate
<1>7. /\ UsersOK' /\ DOMAIN users' = DOMAIN users /\ users'[u] = row
      /\ \A v \in DOMAIN users : v # u => users'[v] = users[v]
      /\ \A x : FindByExternalId(x)' \subseteq FindByExternalId(x) \union {u}
      /\ \A x : x # row.externalId => FindByExternalId(x)' \subseteq FindByExternalId(x)
      /\ u \in Users \intersect drawn
  BY <1>1, <1>5, <1>6, UpdateIs
<1>8. PICK active : active = row.active
  OBVIOUS
<1>9. PICK r : r = Wrote(k, u, row)
  OBVIOUS
<1>10. /\ r \in Locals /\ LocalOK(r) /\ Settled(r) /\ r.pc = "tell" /\ r.user = u
       /\ r.status = active /\ r.half = u /\ r.request = k.request
       /\ r.at = k.at /\ r.doomed = k.doomed /\ InOps(r) /\ ~TellsFirst(r)
       /\ Via(k) # "sync" => r.own = {}
       /\ Via(k) = "sync" => r.own = k.own \union {u}
  BY <1>1, <1>5, <1>7, <1>8, <1>9, WroteIs
<1>11. OnlyUser(k, u) /\ IdHow(k, r, u, {}) /\ DeletedHow(k, u)
  BY <1>0, <1>1, <1>5, <1>7, <1>10 DEF OnlyUser, IdHow, DeletedHow
<1>12. IdGain(k, r, u, {})
  <2>1. SUFFICES ASSUME OnlyOne, Looked(k), NEW x \in ExternalIds \ contested
                 PROVE  \/ FindByExternalId(x)' \subseteq FindByExternalId(x)
                        \/ FindByExternalId(x)' \subseteq {u}
    BY <1>10 DEF IdGain
  <2>2. CASE x # row.externalId
    BY <1>7, <2>2
  <2>3. CASE x = row.externalId /\ op.externalId # NULL
    <3>1. FindByExternalId(x) \subseteq {u}
      BY <1>0, <1>1, <1>3, <1>5, <2>1, <2>3 DEF Looked, FoundOnly
    <3> QED BY <1>7, <3>1
  <2>4. CASE x = row.externalId /\ op.externalId = NULL
    <3>1. users[u].externalId = x /\ x # NULL
      BY <1>5, <2>4, NullIsNobody
    <3>2. users[u].deleted = FALSE
      BY <1>0, <1>1, <1>3, <2>1, <2>4, <3>1 DEF Looked, FoundListed
    <3>3. u \in FindByExternalId(x)
      BY <1>1, <3>1, <3>2 DEF FindByExternalId
    <3> QED BY <1>7, <3>3
  <2> QED BY <2>2, <2>3, <2>4
<1>13. OwnHow(k, r, u)
  <2>1. CASE Via(k) # "sync"
    BY <1>10, <2>1 DEF OwnHow
  <2>2. CASE Via(k) = "sync"
    <3>1. op \in Pushes(r)
      BY <1>0, <1>1, <1>2, <1>10, RequestsAre DEF Pushes, InOps, Op
    <3>2. InSource(r, u)'
      BY <1>3, <1>5, <1>7, <3>1 DEF InSource
    <3> QED BY <1>1, <1>2, <1>7, <1>10, <2>2, <3>2 DEF OwnHow
  <2> QED BY <2>1, <2>2
<1>14. PictureHow(k, r, u, {})
  BY <1>1, <1>2, <1>7, <1>8, <1>10 DEF PictureHow, Active
<1>15. drawn' = drawn /\ drawn \subseteq Users \union Groups
  BY <1>1 DEF TypeInv, HistoriesOK
<1>16. Writes(k, r, u, {}, {})
  BY <1>7, <1>10, <1>11, <1>12, <1>13, <1>14, <1>15 DEF Writes
<1>17. Moves(c, r, {}, {})
  BY <1>6, <1>9, GotoMoves
<1> QED BY <1>1, <1>7, <1>10, <1>15, <1>16, <1>17 DEF UserStep

\* PUT: what is not given is kept, or, in a bulk request, written as it was read.
LEMMA UsersPut ==
  ASSUME TypeInv, NEW c \in Calls, PutUser(c)
  PROVE  UserStep(c)
<1> DEFINE k == calls[c]
<1>0. PICK op, u : op = Op(k) /\ u = k.user
  OBVIOUS
<1>1. k.pc = "write" /\ k.pc # "idle" /\ op.kind = "put" /\ UNCHANGED <<groups, drawn, told>>
      /\ u \in DOMAIN users
  BY <1>0 DEF PutUser
<1>2. /\ k \in Locals /\ k.request \in Requests /\ PlaceOK(k) /\ k.half = NULL
      /\ op \in Operations /\ InOps(k) /\ k.read \in Reads
  BY <1>0, <1>1, InPlace DEF PlaceOK
<1>3. /\ op.email \in Emails \union {NULL} /\ op.externalId \in ExternalIds \union {NULL}
      /\ op.active \in BOOLEAN \union {NULL} /\ Kind(k) = "put"
  BY <1>0, <1>1, <1>2 DEF Operations, Kind
<1>4. Via(k) \in {"scim", "bulk"}
  BY <1>0, <1>1, <1>2, RequestsAre DEF Op, InOps, Via
<1>5. PICK email, externalId : email = Kept(k, "email", op.email)
                               /\ externalId = Kept(k, "externalId", op.externalId)
  OBVIOUS
<1>6. email \in Emails \union {NULL} /\ externalId \in ExternalIds \union {NULL}
  BY <1>2, <1>3, <1>5 DEF Kept, Reads
<1>7. PICK row : row = Updated(u, email, externalId, op.active)
  OBVIOUS
<1>8. row \in UserRows /\ row.deleted = FALSE
  <2>1. users[u] \in UserRows
    BY <1>1 DEF TypeInv, UsersOK
  <2> QED BY <1>3, <1>6, <1>7, <2>1 DEF Updated, UserRows
<1>9. PICK lapsed : lapsed = IF Via(k) = "scim" /\ users[u].active # row.active THEN {u} ELSE {}
  OBVIOUS
<1>10. PICK given : given = {row.externalId} \ {NULL}
  OBVIOUS
<1>11. /\ users' = [users EXCEPT ![u] = row]
       /\ Advance(c, IF Via(k) = "bulk" THEN Wrote(k, u, row) ELSE After(k), lapsed, given)
  BY <1>0, <1>5, <1>7, <1>9, <1>10 DEF PutUser
<1>12. /\ UsersOK' /\ DOMAIN users' = DOMAIN users /\ users'[u] = row
       /\ \A v \in DOMAIN users : v # u => users'[v] = users[v]
       /\ \A x : x # row.externalId => FindByExternalId(x)' \subseteq FindByExternalId(x)
       /\ u \in Users \intersect drawn
  BY <1>1, <1>8, <1>11, UpdateIs
<1>13. lapsed \in SUBSET Users /\ given \in SUBSET ExternalIds
  BY <1>8, <1>9, <1>10, <1>12 DEF UserRows
<1>14. drawn' = drawn /\ drawn \subseteq Users \union Groups
  BY <1>1 DEF TypeInv, HistoriesOK
<1>15. DeletedHow(k, u) /\ OnlyUser(k, u)
  BY <1>0, <1>8, <1>12 DEF DeletedHow, OnlyUser
<1>16. ASSUME NEW r PROVE IdHow(k, r, u, given) /\ IdGain(k, r, u, given)
  <2>1. IdHow(k, r, u, given)
    BY <1>10, <1>12 DEF IdHow
  <2>2. \A x \in ExternalIds \ (contested \union given) : x # row.externalId
    BY <1>10, NullIsNobody
  <2> QED BY <1>12, <2>1, <2>2 DEF IdGain
<1>17. CASE Via(k) = "bulk"
  <2>1. PICK active : active = row.active
    OBVIOUS
  <2>2. PICK r : r = Wrote(k, u, row)
    OBVIOUS
  <2>3. /\ r \in Locals /\ LocalOK(r) /\ Settled(r) /\ r.pc = "tell" /\ r.user = u
        /\ r.status = active /\ r.half = u /\ r.request = k.request
        /\ r.at = k.at /\ r.doomed = k.doomed /\ InOps(r) /\ ~TellsFirst(r) /\ r.own = {}
    BY <1>1, <1>8, <1>12, <1>17, <2>1, <2>2, WroteIs
  <2>4. OwnHow(k, r, u) /\ PictureHow(k, r, u, lapsed)
    BY <1>1, <1>2, <1>12, <2>1, <2>3 DEF OwnHow, PictureHow, Active
  <2>5. Writes(k, r, u, lapsed, given)
    BY <1>12, <1>14, <1>15, <1>16, <2>3, <2>4 DEF Writes
  <2>6. Moves(c, r, lapsed, given)
    BY <1>11, <1>17, <2>2, GotoMoves
  <2> QED BY <1>1, <1>12, <1>13, <1>14, <2>3, <2>5, <2>6 DEF UserStep
<1>18. CASE Via(k) = "scim"
  <2>1. PICK r : r = After(k)
    OBVIOUS
  <2>2. Starts(k, r)
    <3>1. (InOps(k) \/ k.at = 0 => k.doomed \subseteq Groups) /\ (k.own # {} => Via(k) = "sync")
      BY <1>1, InPlace DEF PlaceOK
    <3> QED BY <1>2, <2>1, <3>1, AfterStarts
  <2>3. /\ LocalOK(r) /\ r \in Locals /\ r.half = NULL /\ r.user = NULL
        /\ r.pc \in StartPcs \union {"listUsers", "idle"}
        /\ r.doomed = k.doomed \/ r.doomed = {}
        /\ r.pc = "email" => Op(r).externalId = NULL
    BY <2>2, IdleIsOK DEF Starts, LocalOK
  <2>4. r.own = {}
    <3>1. k.own = {}
      BY <1>1, <1>18, InPlace
    <3> QED BY <2>2, <3>1, IdleIsOK DEF Starts
  <2>5. Settled(r) /\ r.pc \notin {"tell", "remove"}
    BY <2>3 DEF Settled, StartPcs
  <2>6. u \in lapsed \/ (Active(u)' <=> Active(u))
    BY <1>1, <1>9, <1>12, <1>18 DEF Active
  <2>7. OwnHow(k, r, u) /\ PictureHow(k, r, u, lapsed)
    BY <1>2, <2>3, <2>4, <2>6 DEF OwnHow, PictureHow
  <2>8. Writes(k, r, u, lapsed, given)
    BY <1>15, <1>16, <2>3, <2>5, <2>7 DEF Writes
  <2>9. Moves(c, r, lapsed, given)
    BY <1>11, <1>18, <2>1, GotoMoves
  <2> QED BY <1>1, <1>12, <1>13, <1>14, <2>3, <2>8, <2>9 DEF UserStep
<1> QED BY <1>4, <1>17, <1>18

\* What a deletion leaves: nothing, or a user that is hidden and inactive.
LEMMA RemovalIs ==
  ASSUME TypeInv, NEW u, drawn' = drawn,
         \/ u \notin DOMAIN users /\ users' = users
         \/ users' = MapDelete(users, {u})
         \/ u \in DOMAIN users /\ users' = [users EXCEPT ![u].active = FALSE, ![u].deleted = TRUE]
  PROVE  /\ UsersOK' /\ ~Active(u)'
         /\ DOMAIN users' \subseteq DOMAIN users
         /\ \A v \in DOMAIN users : v # u => v \in DOMAIN users' /\ users'[v] = users[v]
         /\ \A v \in DOMAIN users' : users'[v].externalId = users[v].externalId
         /\ \A x : FindByExternalId(x)' \subseteq FindByExternalId(x)
<1>1. /\ users \in [DOMAIN users -> UserRows] /\ DOMAIN users \subseteq Users \intersect drawn
      /\ \A v \in DOMAIN users : users[v].deleted = TRUE => users[v].active = FALSE
  BY DEF TypeInv, UsersOK
<1>2. CASE u \notin DOMAIN users /\ users' = users
  <2>1. UsersOK'
    BY <1>1, <1>2 DEF UsersOK
  <2> QED BY <1>2, <2>1 DEF Active, FindByExternalId
<1>3. CASE users' = MapDelete(users, {u})
  <2>1. /\ DOMAIN users' = DOMAIN users \ {u} /\ users' \in [DOMAIN users' -> UserRows]
        /\ \A v \in DOMAIN users' : users'[v] = users[v]
    BY <1>1, <1>3 DEF MapDelete
  <2>2. UsersOK'
    BY <1>1, <2>1 DEF UsersOK
  <2>3. \A x : FindByExternalId(x)' \subseteq FindByExternalId(x)
    BY <2>1 DEF FindByExternalId
  <2> QED BY <2>1, <2>2, <2>3 DEF Active
<1>4. CASE u \in DOMAIN users /\ users' = [users EXCEPT ![u].active = FALSE, ![u].deleted = TRUE]
  <2>1. /\ DOMAIN users' = DOMAIN users
        /\ \A v \in DOMAIN users : v # u => users'[v] = users[v]
        /\ users'[u] \in UserRows /\ users'[u].active = FALSE /\ users'[u].deleted = TRUE
        /\ users'[u].externalId = users[u].externalId
    <3>1. users[u] \in UserRows
      BY <1>1, <1>4
    <3>2. users'[u] = [users[u] EXCEPT !.active = FALSE, !.deleted = TRUE]
      BY <1>1, <1>4
    <3>3. /\ DOMAIN users' = DOMAIN users
          /\ \A v \in DOMAIN users : v # u => users'[v] = users[v]
      BY <1>1, <1>4
    <3> QED BY <3>1, <3>2, <3>3 DEF UserRows
  <2>2. users' \in [DOMAIN users' -> UserRows]
    <3>1. \A v \in DOMAIN users : users'[v] \in UserRows
      BY <1>1, <2>1
    <3>2. users' = [v \in DOMAIN users |-> users'[v]]
      BY <1>1, <1>4
    <3> QED BY <2>1, <3>1, <3>2
  <2>3. UsersOK'
    BY <1>1, <2>1, <2>2 DEF UsersOK
  <2>4. \A x : FindByExternalId(x)' \subseteq FindByExternalId(x)
    BY <2>1 DEF FindByExternalId
  <2> QED BY <2>1, <2>3, <2>4 DEF Active
<1> QED BY <1>2, <1>3, <1>4

LEMMA UsersRemoved ==
  ASSUME TypeInv, NEW c \in Calls, RemoveUser(c)
  PROVE  UserStep(c)
<1> DEFINE k == calls[c]
<1>0. PICK u : u = k.user
  OBVIOUS
<1>1. /\ k.pc = "remove" /\ k.pc # "idle" /\ UNCHANGED <<groups, drawn, told>>
      /\ \/ u \notin DOMAIN users /\ users' = users
         \/ users' = MapDelete(users, {u})
         \/ u \in DOMAIN users /\ users' = [users EXCEPT ![u].active = FALSE, ![u].deleted = TRUE]
  BY <1>0 DEF RemoveUser
<1>2. /\ k \in Locals /\ k.request \in Requests /\ PlaceOK(k) /\ HandOK(k) /\ InHands(k)
      /\ k.at # 0 /\ (k.own # {} => Via(k) = "sync")
  BY <1>1, InPlace
<1>3. /\ u \in Users /\ Kind(k) \in {"remove", "prune"} /\ (InOps(k) => k.doomed \subseteq Groups)
      /\ ~TellsFirst(k) => k.half = NULL
  BY <1>0, <1>1, <1>2 DEF PlaceOK, HandOK, HandPcs
<1>4. /\ InOps(k) => Kind(k) = "remove" /\ Via(k) # "sync" /\ k.own = {}
      /\ ~InOps(k) => Kind(k) = "prune" /\ Via(k) = "sync"
  <2>1. ASSUME InOps(k) PROVE Kind(k) = "remove" /\ Via(k) # "sync"
    <3>1. Op(k) \in Operations /\ (Via(k) = "sync" => Op(k).kind \in {"push", "group"})
      BY <1>2, <2>1, RequestsAre DEF InOps, Op, Via
    <3> QED BY <1>3, <2>1, <3>1 DEF Kind, Operations
  <2>2. ~InOps(k) => Kind(k) = "prune" /\ Via(k) = "sync"
    BY <1>2 DEF PlaceOK, Kind
  <2> QED BY <1>2, <2>1, <2>2
<1>5. /\ UsersOK' /\ ~Active(u)'
      /\ DOMAIN users' \subseteq DOMAIN users
      /\ \A v \in DOMAIN users : v # u => v \in DOMAIN users' /\ users'[v] = users[v]
      /\ \A v \in DOMAIN users' : users'[v].externalId = users[v].externalId
      /\ \A x : FindByExternalId(x)' \subseteq FindByExternalId(x)
  BY <1>1, RemovalIs
<1>6. drawn' = drawn /\ drawn \subseteq Users \union Groups
  BY <1>1 DEF TypeInv, HistoriesOK
<1>7. OnlyUser(k, u) /\ DeletedHow(k, u) /\ \A r : IdHow(k, r, u, {}) /\ IdGain(k, r, u, {})
  BY <1>0, <1>1, <1>5 DEF OnlyUser, DeletedHow, IdHow, IdGain
<1>8. ASSUME NEW r \in Locals, Goto(c, r), LocalOK(r), Settled(r), r.user \in drawn \union {NULL},
             r.doomed = k.doomed \/ r.doomed = {}, r.pc # "remove",
             r.pc = "tell" => r.half = u /\ InOps(r), OwnHow(k, r, u), PictureHow(k, r, u, {})
      PROVE  UserStep(c)
  <2>1. Writes(k, r, u, {}, {})
    BY <1>6, <1>7, <1>8 DEF Writes
  <2>2. Moves(c, r, {}, {})
    BY <1>8, GotoMoves
  <2> QED BY <1>1, <1>3, <1>5, <1>6, <2>1, <2>2 DEF UserStep
<1>9. CASE ~TellsFirst(k) /\ Goto(c, [k EXCEPT !.pc = "tell", !.status = FALSE, !.half = u])
  <2>1. PICK r : r = [k EXCEPT !.pc = "tell", !.status = FALSE, !.half = u]
    OBVIOUS
  <2>2. "tell" \in Pcs /\ FALSE \in BOOLEAN
    BY DEF Pcs
  <2>3. /\ r \in Locals /\ r.pc = "tell" /\ r.status = FALSE /\ r.request = k.request /\ r.at = k.at
        /\ r.own = k.own /\ r.user = u /\ r.half = u /\ r.doomed = k.doomed
    BY <1>0, <1>2, <1>3, <2>1, <2>2 DEF Locals
  <2>4. Via(r) = Via(k) /\ InOps(r) = InOps(k) /\ Op(r) = Op(k) /\ Kind(r) = Kind(k) /\ ~TellsFirst(r)
    BY <1>9, <2>3, SameOp
  <2>5. InOps(k)
    BY <1>4, <1>9 DEF TellsFirst
  <2>6. LocalOK(r) /\ Settled(r)
    BY <1>2, <1>3, <2>3, <2>4, <2>5 DEF LocalOK, PlaceOK, HandOK, HandPcs, Settled
  <2>7. OwnHow(k, r, u) /\ PictureHow(k, r, u, {})
    BY <1>3, <1>4, <1>5, <1>9, <2>3, <2>4, <2>5 DEF OwnHow, PictureHow
  <2>8. r.user \in drawn \union {NULL}
    BY <1>0, <1>2, <2>3 DEF InHands
  <2> QED BY <1>8, <1>9, <2>1, <2>3, <2>4, <2>5, <2>6, <2>7, <2>8
<1>10. CASE TellsFirst(k) /\ ~InOps(k) /\ Goto(c, Removed(k))
  <2>1. PICK r : r = [k EXCEPT !.pc = "prune", !.user = NULL, !.half = NULL]
    OBVIOUS
  <2>2. Removed(k) = r
    BY <1>4, <1>10, <2>1 DEF Removed
  <2>3. /\ r \in Locals /\ r.pc = "prune" /\ r.request = k.request /\ r.at = k.at
        /\ r.own = k.own /\ r.user = NULL /\ r.half = NULL /\ r.doomed = k.doomed
    <3>1. "prune" \in Pcs
      BY DEF Pcs
    <3> QED BY <1>2, <2>1, <3>1 DEF Locals
  <2>4. Via(r) = Via(k) /\ InOps(r) = InOps(k) /\ Op(r) = Op(k) /\ Kind(r) = Kind(k)
    BY <2>3, SameOp
  <2>5. LocalOK(r) /\ Settled(r)
    BY <1>2, <1>3, <1>10, <2>3, <2>4 DEF LocalOK, PlaceOK, HandOK, HandPcs, Settled
  <2>6. OwnHow(k, r, u) /\ PictureHow(k, r, u, {})
    BY <1>0, <1>1, <1>5, <1>10, <2>3 DEF OwnHow, PictureHow
  <2> QED BY <1>8, <1>10, <2>2, <2>3, <2>5, <2>6
<1>11. CASE TellsFirst(k) /\ InOps(k) /\ Goto(c, Removed(k))
  <2>1. PICK r : r = After(k)
    OBVIOUS
  <2>2. Removed(k) = r
    BY <1>4, <1>11, <2>1 DEF Removed
  <2>3. Starts(k, r)
    BY <1>2, <1>3, <2>1, AfterStarts
  <2>4. /\ LocalOK(r) /\ r \in Locals /\ r.half = NULL /\ r.user = NULL /\ r.own = {}
        /\ r.pc \in StartPcs \union {"listUsers", "idle"}
        /\ r.doomed = k.doomed \/ r.doomed = {}
        /\ r.pc = "email" => Op(r).externalId = NULL
    BY <1>4, <1>11, <2>3, IdleIsOK DEF Starts, LocalOK
  <2>5. Settled(r) /\ r.pc \notin {"tell", "remove"}
    BY <2>4 DEF Settled, StartPcs
  <2>6. OwnHow(k, r, u) /\ PictureHow(k, r, u, {})
    BY <1>0, <1>1, <1>5, <1>11, <2>4 DEF OwnHow, PictureHow
  <2> QED BY <1>8, <1>11, <2>2, <2>4, <2>5, <2>6
<1>12. \/ TellsFirst(k) /\ Goto(c, Removed(k))
       \/ ~TellsFirst(k) /\ Goto(c, [k EXCEPT !.pc = "tell", !.status = FALSE, !.half = u])
  BY <1>0 DEF RemoveUser
<1> QED BY <1>9, <1>10, <1>11, <1>12

-----------------------------------------------------------------------------
(* Every step is one of these *)

LEMMA StepsAre ==
  ASSUME TypeInv, Next
  PROVE  \E c \in Calls : CalmStep(c) \/ UserStep(c) \/ TellStep(c)
<1>1. PICK c \in Calls :
        \/ \E request \in Requests : Begin(c, request)
        \/ ProvisionByExternalId(c) \/ ProvisionByEmail(c)
        \/ CreateUser(c) \/ ProvisionUpdate(c) \/ UpdateRefused(c)
        \/ LookUser(c) \/ PutUser(c) \/ AnnounceRemoval(c) \/ RemoveUser(c)
        \/ Deliver(c) \/ GiveUp(c)
        \/ ResolveMember(c) \/ KeepMembers(c) \/ LookGroup(c) \/ FindOrCreateGroup(c)
        \/ CreateGroup(c) \/ UpdateGroup(c) \/ SetGroupMembers(c) \/ AnnounceGroup(c)
        \/ RemoveGroup(c) \/ ListGroups(c) \/ PruneGroup(c) \/ GroupsPruned(c)
        \/ ListUsers(c) \/ PruneUser(c) \/ SyncEnds(c)
        \/ Reject(c) \/ Die(c)
  BY DEF Next
<1>2. CASE \/ \E request \in Requests : Begin(c, request)
           \/ ProvisionByExternalId(c) \/ ProvisionByEmail(c) \/ UpdateRefused(c)
           \/ LookUser(c) \/ AnnounceRemoval(c) \/ GiveUp(c)
           \/ ListUsers(c) \/ PruneUser(c) \/ SyncEnds(c) \/ Reject(c) \/ Die(c)
  <2>1. QuietStep(c)
    BY <1>2, RequestsBegin, ProvisionLooks, UpdatesRefused, UsersAreLooked, RemovalsAnnounced,
       EventsGivenUp, UsersAreListed, UsersArePruned, RejectDie
  <2> QED BY <2>1, QuietIsCalm
<1>3. CASE \/ ResolveMember(c) \/ KeepMembers(c) \/ LookGroup(c) \/ FindOrCreateGroup(c)
           \/ UpdateGroup(c) \/ AnnounceGroup(c) \/ ListGroups(c) \/ GroupsPruned(c)
  <2>1. QuietStep(c)
    BY <1>3, MembersAreResolved, GroupsAreLooked, GroupsAreFound, GroupMoves, GroupsAreListed
  <2> QED BY <2>1, QuietIsCalm
<1>4. CASE CreateGroup(c) \/ SetGroupMembers(c) \/ RemoveGroup(c) \/ PruneGroup(c)
  BY <1>4, GroupsCreated, MembersSet, GroupsRemoved
<1>5. CASE CreateUser(c) \/ ProvisionUpdate(c) \/ PutUser(c) \/ RemoveUser(c)
  BY <1>5, UsersCreated, UsersUpdated, UsersPut, UsersRemoved
<1>6. CASE Deliver(c)
  BY <1>6, DeliverTells
<1> QED BY <1>1, <1>2, <1>3, <1>4, <1>5, <1>6

-----------------------------------------------------------------------------
(* Types *)

LEMMA TypesAtFirst ==
  ASSUME Init
  PROVE  TypeInv
<1>1. /\ users \in InitialUsers /\ DOMAIN users \subseteq Users /\ users \in [DOMAIN users -> UserRows]
      /\ \A u \in DOMAIN users : users[u].deleted => ~users[u].active
      /\ drawn = DOMAIN users
  BY InitialUsersAssumption DEF Init
<1>2. UsersOK
  BY <1>1 DEF UsersOK, UserRows
<1>3. GroupsOK
  BY DEF Init, GroupsOK, EmptyMap
<1>4. HistoriesOK
  <2>1. \A u \in Users : (u \in DOMAIN users /\ users[u].active) \in BOOLEAN
    OBVIOUS
  <2> QED BY <1>1, <2>1 DEF Init, HistoriesOK
<1>5. CallsOK
  <2>1. \A c \in Calls : calls[c] = Idle
    BY DEF Init
  <2>2. Idle \in Locals /\ InHands(Idle)
    BY IdleIsOK DEF LocalOK, InHands
  <2>3. calls \in [Calls -> Locals]
    BY <2>2 DEF Init
  <2> QED BY <2>1, <2>2, <2>3, IdleIsOK DEF CallsOK
<1> QED BY <1>2, <1>3, <1>4, <1>5 DEF TypeInv

LEMMA TypesStay ==
  ASSUME TypeInv, [Next]_vars
  PROVE  TypeInv'
<1>1. CASE UNCHANGED vars
  BY <1>1 DEF vars, stores, TypeInv, UsersOK, GroupsOK, HistoriesOK, CallsOK, InHands
<1>2. ASSUME NEW c \in Calls, CalmStep(c) PROVE TypeInv'
  <2>1. PICK r \in Locals, lapsed \in SUBSET Users :
          Moves(c, r, lapsed, {}) /\ Quietly(calls[c], r, lapsed)
    BY <1>2 DEF CalmStep
  <2>2. /\ users' = users /\ told' = told /\ GroupsOK' /\ drawn \subseteq drawn'
        /\ drawn' \subseteq Users \union Groups
    BY <1>2 DEF CalmStep
  <2>3. UsersOK' /\ told' \in [Users -> BOOLEAN]
    BY <2>2 DEF TypeInv, UsersOK, HistoriesOK
  <2>4. calls[c].own \subseteq drawn
    BY DEF TypeInv, CallsOK, InHands
  <2>5. /\ LocalOK(r) /\ r.user \in drawn' \union {NULL} /\ r.own \subseteq drawn'
        /\ r.doomed \subseteq drawn'
    BY <2>1, <2>2, <2>4 DEF Quietly
  <2> QED BY <2>1, <2>2, <2>3, <2>5, TypesKept
<1>3. ASSUME NEW c \in Calls, UserStep(c) PROVE TypeInv'
  <2>1. PICK r \in Locals, w \in Users, lapsed \in SUBSET Users, given \in SUBSET ExternalIds :
          Moves(c, r, lapsed, given) /\ Writes(calls[c], r, w, lapsed, given)
    BY <1>3 DEF UserStep
  <2>2. /\ groups' = groups /\ told' = told /\ UsersOK' /\ drawn \subseteq drawn'
        /\ drawn' \subseteq Users \union Groups
    BY <1>3 DEF UserStep
  <2>3. GroupsOK' /\ told' \in [Users -> BOOLEAN]
    BY <2>2 DEF TypeInv, GroupsOK, HistoriesOK
  <2>4. calls[c].own \subseteq drawn /\ calls[c].doomed \subseteq drawn
    BY DEF TypeInv, CallsOK, InHands
  <2>5. r.own \subseteq drawn'
    BY <2>1, <2>2, <2>4 DEF Writes, OwnHow, UsersOK
  <2>6. LocalOK(r) /\ r.user \in drawn' \union {NULL} /\ r.doomed \subseteq drawn'
    BY <2>1, <2>2, <2>4 DEF Writes
  <2> QED BY <2>1, <2>2, <2>3, <2>5, <2>6, TypesKept
<1>4. ASSUME NEW c \in Calls, TellStep(c) PROVE TypeInv'
  <2>1. PICK r \in Locals : Moves(c, r, {}, {}) /\ Tells(calls[c], r)
    BY <1>4 DEF TellStep
  <2>2. users' = users /\ groups' = groups /\ drawn' = drawn
    BY <1>4 DEF TellStep, stores
  <2>3. UsersOK' /\ GroupsOK' /\ drawn' \subseteq Users \union Groups
    BY <2>2 DEF TypeInv, UsersOK, GroupsOK, HistoriesOK
  <2>4. /\ calls[c].own \subseteq drawn /\ calls[c].doomed \subseteq drawn
        /\ calls[c].user \in drawn \union {NULL} /\ calls[c].status \in BOOLEAN
    BY DEF TypeInv, CallsOK, InHands, Locals
  <2>5. told' \in [Users -> BOOLEAN]
    BY <2>1, <2>4 DEF Tells, TypeInv, HistoriesOK
  <2>6. /\ LocalOK(r) /\ r.user \in drawn' \union {NULL} /\ r.own \subseteq drawn'
        /\ r.doomed \subseteq drawn'
    BY <2>1, <2>2, <2>4 DEF Tells
  <2> QED BY <2>1, <2>2, <2>3, <2>5, <2>6, TypesKept
<1>5. CASE Next
  BY <1>2, <1>3, <1>4, <1>5, StepsAre
<1> QED BY <1>1, <1>5

LEMMA TypesGiveOK ==
  ASSUME TypeInv
  PROVE  TypeOK
<1>1. /\ users \in [DOMAIN users -> UserRows] /\ DOMAIN users \subseteq Users \intersect drawn
      /\ \A u \in DOMAIN users : users[u].deleted = TRUE => users[u].active = FALSE
  BY DEF TypeInv, UsersOK
<1>2. \A u \in DOMAIN users :
        /\ u \in Users \intersect drawn
        /\ users[u].email \in Emails /\ users[u].externalId \in ExternalIds \union {NULL}
        /\ users[u].active \in BOOLEAN /\ (users[u].deleted => ~users[u].active)
  BY <1>1 DEF UserRows
<1>3. \A g \in DOMAIN groups :
        /\ g \in Groups \intersect drawn
        /\ groups[g].externalId \in ExternalIds /\ groups[g].active \in BOOLEAN
        /\ groups[g].members \subseteq References
  BY DEF TypeInv, GroupsOK, GroupRows
<1>4. ASSUME NEW c \in Calls
      PROVE  /\ calls[c].pc \in {"write", "announce", "tell", "remove"} => calls[c].user \in Users \intersect drawn
             /\ calls[c].half # NULL => calls[c].half = calls[c].user
             /\ calls[c].own \subseteq drawn /\ calls[c].doomed \subseteq drawn
  <2>1. LocalOK(calls[c]) /\ InHands(calls[c])
    BY DEF TypeInv, CallsOK
  <2> QED BY <2>1, NullIsNobody DEF LocalOK, HandOK, HandPcs, InHands
<1> QED BY <1>2, <1>3, <1>4 DEF TypeOK, TypeInv, HistoriesOK

\* Whatever is pushed, put, deleted and given up on, the stores hold what they should,
\* and a request that is about to write or tell of a user has one in its hands
\* (provisionUser, deprovisionUser, syncGroup, runDirectorySync).
THEOREM DirectoryTyped == Spec => []TypeOK
<1>1. Init => TypeInv
  BY TypesAtFirst
<1>2. TypeInv /\ [Next]_vars => TypeInv'
  BY TypesStay
<1>3. TypeInv => TypeOK
  BY TypesGiveOK
<1> QED BY <1>1, <1>2, <1>3, PTL DEF Spec

-----------------------------------------------------------------------------
(* What a synchronization has provisioned it does not remove *)

OwnOK(k) ==
  /\ k.doomed \intersect k.own = {}
  /\ \A u \in k.own : u \in DOMAIN users /\ InSource(k, u)
  /\ k.pc \in {"tell", "remove"} /\ ~InOps(k) => k.user \notin k.own

OwnInv == \A c \in Calls : OwnOK(calls[c])

LEMMA SourceStays ==
  ASSUME NEW k, NEW m, m.request = k.request, NEW u, users'[u] = users[u], InSource(k, u)
  PROVE  InSource(m, u)'
<1>1. Pushes(m) = Pushes(k)
  BY DEF Pushes
<1> QED BY <1>1 DEF InSource

\* OwnOK after a step, of a request that is m by then.
OwnThen(m) ==
  /\ m.doomed \intersect m.own = {}
  /\ \A u \in m.own : u \in DOMAIN users' /\ InSource(m, u)'
  /\ m.pc \in {"tell", "remove"} /\ ~InOps(m) => m.user \notin m.own

\* The requests that others are in keep it, for a user that is written leaves them.
LEMMA OthersKeepOwn ==
  ASSUME TypeInv, OwnInv, NEW c \in Calls, NEW r, NEW lapsed, NEW given, Moves(c, r, lapsed, given),
         NEW d \in Calls, d # c,
         \A u \in Users \intersect drawn : u # calls[c].user =>
           /\ u \in DOMAIN users => u \in DOMAIN users' /\ users'[u] = users[u]
  PROVE  \A m : m = calls'[d] => OwnThen(m)
<1> TAKE m
<1> HAVE m = calls'[d]
<1>1. /\ m.pc = calls[d].pc /\ m.request = calls[d].request /\ m.user = calls[d].user
      /\ m.doomed = calls[d].doomed /\ InOps(m) = InOps(calls[d])
      /\ m.own = calls[d].own \ {calls[c].user}
  BY OthersAre
<1>2. /\ calls[d].doomed \intersect calls[d].own = {}
      /\ \A u \in calls[d].own : u \in DOMAIN users /\ InSource(calls[d], u)
      /\ calls[d].pc \in {"tell", "remove"} /\ ~InOps(calls[d]) => calls[d].user \notin calls[d].own
  BY DEF OwnInv, OwnOK
<1>3. calls[d].own \subseteq Users \intersect drawn
  BY DEF TypeInv, CallsOK, InHands, Locals
<1>4. ASSUME NEW u \in m.own PROVE u \in DOMAIN users' /\ InSource(m, u)'
  <2>1. u \in DOMAIN users' /\ users'[u] = users[u] /\ InSource(calls[d], u)
    BY <1>1, <1>2, <1>3
  <2> QED BY <1>1, <2>1, SourceStays
<1> QED BY <1>1, <1>2, <1>4 DEF OwnThen

LEMMA OwnThenIs ==
  ASSUME \A d \in Calls : \A m : m = calls'[d] => OwnThen(m)
  PROVE  OwnInv'
BY DEF OwnInv, OwnOK, OwnThen, InSource

LEMMA OwnStays ==
  ASSUME TypeInv, OwnInv, [Next]_vars
  PROVE  OwnInv'
<1>1. CASE UNCHANGED vars
  BY <1>1 DEF vars, stores, OwnInv, OwnOK, InSource
<1>2. ASSUME NEW c \in Calls, CalmStep(c) PROVE OwnInv'
  <2>1. PICK r \in Locals, lapsed \in SUBSET Users :
          Moves(c, r, lapsed, {}) /\ Quietly(calls[c], r, lapsed)
    BY <1>2 DEF CalmStep
  <2>2. users' = users /\ calls'[c] = r
    BY <1>2, <2>1 DEF CalmStep, Moves
  <2>3. \A d \in Calls \ {c} : \A m : m = calls'[d] => OwnThen(m)
    BY <2>1, <2>2, OthersKeepOwn
  <2>4. OwnThen(r)
    <3>1. /\ calls[c].doomed \intersect calls[c].own = {}
          /\ \A u \in calls[c].own : u \in DOMAIN users /\ InSource(calls[c], u)
          /\ calls[c].pc \in {"tell", "remove"} /\ ~InOps(calls[c]) => calls[c].user \notin calls[c].own
          /\ calls[c].own \subseteq Users
      BY DEF OwnInv, OwnOK, TypeInv, CallsOK, Locals
    <3>2. CASE r.own = {}
      BY <3>2 DEF OwnThen
    <3>3. CASE r.own = calls[c].own /\ r.request = calls[c].request
      <4>1. r.doomed \intersect r.own = {}
        BY <2>1, <3>1, <3>3 DEF Quietly
      <4>2. ASSUME NEW u \in r.own PROVE u \in DOMAIN users' /\ InSource(r, u)'
        BY <2>2, <3>1, <3>3, SourceStays
      <4>3. r.pc \in {"tell", "remove"} /\ ~InOps(r) => r.user \notin r.own
        BY <2>1, <3>1, <3>3 DEF Quietly
      <4> QED BY <4>1, <4>2, <4>3 DEF OwnThen
    <3> QED BY <2>1, <3>2, <3>3 DEF Quietly
  <2> QED BY <2>2, <2>3, <2>4, OwnThenIs
<1>3. ASSUME NEW c \in Calls, UserStep(c) PROVE OwnInv'
  <2>1. PICK r \in Locals, w \in Users, lapsed \in SUBSET Users, given \in SUBSET ExternalIds :
          Moves(c, r, lapsed, given) /\ Writes(calls[c], r, w, lapsed, given)
    BY <1>3 DEF UserStep
  <2>2. calls'[c] = r
    BY <2>1 DEF Moves
  <2>3. \A u \in Users \intersect drawn : u # calls[c].user =>
           /\ u \in DOMAIN users => u \in DOMAIN users' /\ users'[u] = users[u]
    BY <2>1 DEF Writes, OnlyUser
  <2>4. \A d \in Calls \ {c} : \A m : m = calls'[d] => OwnThen(m)
    BY <2>1, <2>3, OthersKeepOwn
  <2>5. OwnThen(r)
    <3>1. /\ calls[c].doomed \intersect calls[c].own = {}
          /\ \A u \in calls[c].own : u \in DOMAIN users /\ InSource(calls[c], u)
          /\ calls[c].pc \in {"tell", "remove"} /\ ~InOps(calls[c]) => calls[c].user \notin calls[c].own
          /\ calls[c].own \subseteq Users \intersect drawn
      BY DEF OwnInv, OwnOK, TypeInv, CallsOK, Locals, InHands
    <3>2. CASE r.own = {}
      BY <3>2 DEF OwnThen
    <3>3. CASE r.own = calls[c].own /\ r.request = calls[c].request /\ calls[c].pc = "remove"
               /\ ~InOps(calls[c]) /\ w = calls[c].user
      <4>1. r.doomed \intersect r.own = {} /\ (r.pc \in {"tell", "remove"} => InOps(r))
        BY <2>1, <3>1, <3>3 DEF Writes
      <4>2. ASSUME NEW u \in r.own PROVE u \in DOMAIN users' /\ InSource(r, u)'
        <5>1. u # calls[c].user /\ u \in Users \intersect drawn /\ u \in DOMAIN users
              /\ InSource(calls[c], u)
          BY <3>1, <3>3
        <5>2. u \in DOMAIN users' /\ users'[u] = users[u]
          BY <2>3, <5>1
        <5> QED BY <3>3, <5>1, <5>2, SourceStays
      <4> QED BY <4>1, <4>2 DEF OwnThen
    <3>4. CASE r.own = calls[c].own \union {w} /\ r.request = calls[c].request /\ InOps(calls[c])
               /\ w \in DOMAIN users' /\ InSource(r, w)'
      <4>1. r.doomed \intersect r.own = {} /\ (r.pc \in {"tell", "remove"} => InOps(r))
        <5>1. calls[c].doomed \subseteq Groups \/ calls[c].doomed = {}
          BY <3>4 DEF TypeInv, CallsOK, LocalOK, PlaceOK
        <5> QED BY <2>1, <3>1, <3>4, <5>1, DirectoryAssumption DEF Writes
      <4>2. ASSUME NEW u \in r.own, u # w PROVE u \in DOMAIN users' /\ InSource(r, u)'
        <5>1. u \in Users \intersect drawn /\ u \in DOMAIN users /\ InSource(calls[c], u)
          BY <3>1, <3>4, <4>2
        <5>2. u \in DOMAIN users' /\ users'[u] = users[u]
          BY <2>1, <4>2, <5>1 DEF Writes, OnlyUser
        <5> QED BY <3>4, <5>1, <5>2, SourceStays
      <4> QED BY <3>4, <4>1, <4>2 DEF OwnThen
    <3> QED BY <2>1, <3>2, <3>3, <3>4 DEF Writes, OwnHow
  <2> QED BY <2>2, <2>4, <2>5, OwnThenIs
<1>4. ASSUME NEW c \in Calls, TellStep(c) PROVE OwnInv'
  <2>1. PICK r \in Locals : Moves(c, r, {}, {}) /\ Tells(calls[c], r)
    BY <1>4 DEF TellStep
  <2>2. users' = users /\ calls'[c] = r
    BY <1>4, <2>1 DEF TellStep, stores, Moves
  <2>3. \A d \in Calls \ {c} : \A m : m = calls'[d] => OwnThen(m)
    BY <2>1, <2>2, OthersKeepOwn
  <2>4. OwnThen(r)
    <3>1. /\ calls[c].doomed \intersect calls[c].own = {}
          /\ \A u \in calls[c].own : u \in DOMAIN users /\ InSource(calls[c], u)
          /\ calls[c].pc \in {"tell", "remove"} /\ ~InOps(calls[c]) => calls[c].user \notin calls[c].own
      BY DEF OwnInv, OwnOK
    <3>2. CASE r.own = {}
      BY <3>2 DEF OwnThen
    <3>3. CASE r.own = calls[c].own /\ r.request = calls[c].request
      <4>1. r.doomed \intersect r.own = {}
        BY <2>1, <3>1, <3>3 DEF Tells
      <4>2. ASSUME NEW u \in r.own PROVE u \in DOMAIN users' /\ InSource(r, u)'
        BY <2>2, <3>1, <3>3, SourceStays
      <4>3. r.pc \in {"tell", "remove"} /\ ~InOps(r) => r.user \notin r.own
        BY <2>1, <3>1, <3>3 DEF Tells
      <4> QED BY <4>1, <4>2, <4>3 DEF OwnThen
    <3> QED BY <2>1, <3>2, <3>3 DEF Tells
  <2> QED BY <2>2, <2>3, <2>4, OwnThenIs
<1>5. CASE Next
  BY <1>2, <1>3, <1>4, <1>5, StepsAre
<1> QED BY <1>1, <1>5

\* However many requests overlap, a synchronization removes none of the users that it
\* has itself pushed, unless another request has had them in its hands since
\* (runDirectorySync).
THEOREM ListedAreKept == Spec => []SyncKeepsListed
<1>1. Init => TypeInv /\ OwnInv
  <2>1. Init => OwnInv
    BY IdleIsOK DEF Init, OwnInv, OwnOK
  <2> QED BY <2>1, TypesAtFirst
<1>2. TypeInv /\ OwnInv /\ [Next]_vars => (TypeInv /\ OwnInv)'
  BY TypesStay, OwnStays
<1>3. OwnInv => SyncKeepsListed
  BY DEF OwnInv, OwnOK, SyncKeepsListed
<1> QED BY <1>1, <1>2, <1>3, PTL DEF Spec

-----------------------------------------------------------------------------
(* The subscriber's picture *)

\* A user that two requests have half done is excused.
HalvesApart ==
  \A c, d \in Calls : c # d /\ calls[c].half # NULL /\ calls[c].half = calls[d].half =>
    calls[c].half \in excused

\* The event that is due is true; a user about to be removed is told to be inactive.
HalfOK(k) ==
  /\ k.pc = "tell" /\ ~TellsFirst(k) /\ k.half \notin excused => (k.status = TRUE <=> Active(k.half))
  /\ k.pc = "remove" /\ k.half \notin excused \union {NULL} => told[k.half] = FALSE
  /\ k.pc = "remove" /\ TellsFirst(k) => k.half = k.user \/ k.user \in excused

Heard ==
  \A u \in Users : u \notin excused /\ (\A c \in Calls : calls[c].half # u) =>
    (told[u] = TRUE <=> Active(u))

PictureInv == HalvesApart /\ (\A c \in Calls : HalfOK(calls[c])) /\ Heard

\* HalfOK after a step, of a request that is m by then.
HalfThen(m) ==
  /\ m.pc = "tell" /\ ~TellsFirst(m) /\ m.half \notin excused' =>
       (m.status = TRUE <=> Active(m.half)')
  /\ m.pc = "remove" /\ m.half \notin excused' \union {NULL} => told'[m.half] = FALSE
  /\ m.pc = "remove" /\ TellsFirst(m) => m.half = m.user \/ m.user \in excused'

HeardThen(u) ==
  u \notin excused' /\ (\A c \in Calls : calls'[c].half # u) => (told'[u] = TRUE <=> Active(u)')

LEMMA PictureThenIs ==
  ASSUME HalvesApart', \A d \in Calls : \A m : m = calls'[d] => HalfThen(m),
         \A u \in Users : HeardThen(u)
  PROVE  PictureInv'
<1>1. \A d \in Calls : HalfOK(calls[d])'
  BY DEF HalfOK, HalfThen, Active
<1>2. Heard'
  BY DEF Heard, HeardThen, Active
<1> QED BY <1>1, <1>2 DEF PictureInv

\* What a step does to the halves.
LEMMA HalvesMove ==
  ASSUME TypeInv, NEW c \in Calls, NEW r \in Locals, NEW lapsed \in SUBSET Users,
         NEW given \in SUBSET ExternalIds, Moves(c, r, lapsed, given)
  PROVE  /\ calls'[c] = r /\ \A d \in Calls \ {c} : calls'[d].half = calls[d].half
         /\ excused \subseteq excused' /\ lapsed \subseteq excused'
         /\ \A d \in Calls \ {c} : r.half # NULL /\ calls[d].half = r.half => r.half \in excused'
         /\ \A d \in Calls : calls[d].half \in Users \union {NULL}
         /\ HalvesApart => HalvesApart'
<1>1. calls'[c] = r /\ \A d \in Calls \ {c} : calls'[d].half = calls[d].half
  <2>1. calls'[c] = r
    BY DEF Moves
  <2> QED BY <2>1, OthersAre
<1>2. /\ excused \subseteq excused' /\ lapsed \subseteq excused'
      /\ \A u \in Users : r.half = u /\ (\E d \in Calls \ {c} : calls[d].half = u) => u \in excused'
  BY DEF Moves
<1>3. r.half \in Users \union {NULL} /\ \A d \in Calls : calls[d].half \in Users \union {NULL}
  BY DEF Locals, TypeInv, CallsOK
<1>4. \A d \in Calls \ {c} : r.half # NULL /\ calls[d].half = r.half => r.half \in excused'
  BY <1>2, <1>3
<1>5. ASSUME HalvesApart, NEW a \in Calls, NEW b \in Calls, a # b,
             calls'[a].half # NULL, calls'[a].half = calls'[b].half
      PROVE  calls'[a].half \in excused'
  <2>1. CASE a = c
    BY <1>1, <1>4, <1>5, <2>1
  <2>2. CASE b = c
    BY <1>1, <1>4, <1>5, <2>2
  <2>3. CASE a # c /\ b # c
    BY <1>1, <1>2, <1>5, <2>3 DEF HalvesApart
  <2> QED BY <2>1, <2>2, <2>3
<1>6. HalvesApart => HalvesApart'
  BY <1>5 DEF HalvesApart
<1> QED BY <1>1, <1>2, <1>3, <1>4, <1>6

\* A request that does not move keeps its half, if neither the user nor the event changes.
LEMMA OthersKeepHalf ==
  ASSUME TypeInv, PictureInv, NEW c \in Calls, NEW r \in Locals, NEW lapsed \in SUBSET Users,
         NEW given \in SUBSET ExternalIds, Moves(c, r, lapsed, given), NEW d \in Calls, d # c,
         NEW h, h = calls[d].half,
         h \notin excused' \union {NULL} =>
           /\ calls[d].pc = "tell" => (Active(h)' <=> Active(h))
           /\ calls[d].pc = "remove" => told'[h] = told[h]
  PROVE  \A m : m = calls'[d] => HalfThen(m)
<1> TAKE m
<1> HAVE m = calls'[d]
<1>1. /\ m.pc = calls[d].pc /\ m.half = h /\ m.status = calls[d].status /\ m.user = calls[d].user
      /\ TellsFirst(m) = TellsFirst(calls[d])
  BY OthersAre
<1>2. excused \subseteq excused' /\ NULL \notin Users
  BY HalvesMove, NullIsNobody
<1>3. /\ m.pc = "tell" /\ ~TellsFirst(m) /\ h \notin excused => (m.status = TRUE <=> Active(h))
      /\ m.pc = "remove" /\ h \notin excused \union {NULL} => told[h] = FALSE
      /\ m.pc = "remove" /\ TellsFirst(m) => h = m.user \/ m.user \in excused
  BY <1>1 DEF PictureInv, HalfOK, Active
<1>4. m.pc = "tell" /\ ~TellsFirst(m) => h # NULL
  <2>1. calls[d].pc = "tell" => HandOK(calls[d])
    BY DEF TypeInv, CallsOK, LocalOK
  <2> QED BY <1>1, <1>2, <2>1 DEF HandOK, HandPcs
<1>5. m.pc = "tell" /\ ~TellsFirst(m) /\ h \notin excused' => (m.status = TRUE <=> Active(h)')
  BY <1>1, <1>2, <1>3, <1>4
<1>6. m.pc = "remove" /\ h \notin excused' \union {NULL} => told'[h] = FALSE
  BY <1>1, <1>2, <1>3
<1>7. m.pc = "remove" /\ TellsFirst(m) => h = m.user \/ m.user \in excused'
  BY <1>2, <1>3
<1> QED BY <1>1, <1>5, <1>6, <1>7 DEF HalfThen, Active

LEMMA CalmKeepsPicture ==
  ASSUME TypeInv, PictureInv, NEW c \in Calls, CalmStep(c)
  PROVE  PictureInv'
<1>1. PICK r \in Locals, lapsed \in SUBSET Users :
        Moves(c, r, lapsed, {}) /\ Quietly(calls[c], r, lapsed)
  BY DEF CalmStep
<1>2. users' = users /\ told' = told
  BY DEF CalmStep
<1>3. /\ calls'[c] = r /\ \A d \in Calls \ {c} : calls'[d].half = calls[d].half
      /\ excused \subseteq excused' /\ lapsed \subseteq excused' /\ HalvesApart'
  <2>1. PICK none : none = {}
    OBVIOUS
  <2>2. none \in SUBSET ExternalIds /\ Moves(c, r, lapsed, none)
    BY <1>1, <2>1
  <2> QED BY <2>2, HalvesMove DEF PictureInv
<1>4. \A u : Active(u)' <=> Active(u)
  BY <1>2 DEF Active
<1>5. ASSUME NEW d \in Calls \ {c} PROVE \A m : m = calls'[d] => HalfThen(m)
  <2>1. PICK h : h = calls[d].half
    OBVIOUS
  <2> QED BY <1>1, <1>2, <1>4, <2>1, OthersKeepHalf
<1>6. HalfThen(r)
  <2>1. /\ LocalOK(r) /\ r.half \in lapsed \union {NULL}
        /\ r.pc = "remove" /\ TellsFirst(r) => r.user \in lapsed
    BY <1>1 DEF Quietly
  <2>2. r.pc = "tell" /\ ~TellsFirst(r) => r.half # NULL
    BY <2>1, NullIsNobody DEF LocalOK, HandOK, HandPcs
  <2> QED BY <1>3, <2>1, <2>2 DEF HalfThen
<1>7. ASSUME NEW u \in Users PROVE HeardThen(u)
  <2>1. SUFFICES ASSUME u \notin excused', \A d \in Calls : calls'[d].half # u
                 PROVE  told'[u] = TRUE <=> Active(u)'
    BY DEF HeardThen
  <2>2. calls[c].half \in lapsed \union {NULL}
    BY <1>1 DEF Quietly
  <2>3. u \notin excused /\ \A d \in Calls : calls[d].half # u
    BY <1>3, <2>1, <2>2, NullIsNobody
  <2> QED BY <1>2, <1>4, <2>3 DEF PictureInv, Heard
<1> QED BY <1>3, <1>5, <1>6, <1>7, PictureThenIs

\* The request that has announced a removal has its user half removed.
LEMMA RemovedIsTold ==
  ASSUME TypeInv, PictureInv, NEW c \in Calls, NEW w \in Users, calls[c].pc = "remove",
         TellsFirst(calls[c]), w = calls[c].user, w \notin excused
  PROVE  calls[c].half = w /\ told[w] = FALSE
<1>1. calls[c].half = w
  BY DEF PictureInv, HalfOK
<1> QED BY <1>1, NullIsNobody DEF PictureInv, HalfOK

LEMMA WritesKeepPicture ==
  ASSUME TypeInv, PictureInv, NEW c \in Calls, UserStep(c)
  PROVE  PictureInv'
<1>1. PICK r \in Locals, w \in Users, lapsed \in SUBSET Users, given \in SUBSET ExternalIds :
        Moves(c, r, lapsed, given) /\ Writes(calls[c], r, w, lapsed, given)
  BY DEF UserStep
<1>2. told' = told
  BY DEF UserStep
<1>3. /\ calls'[c] = r /\ \A d \in Calls \ {c} : calls'[d].half = calls[d].half
      /\ excused \subseteq excused' /\ lapsed \subseteq excused' /\ HalvesApart'
      /\ \A d \in Calls \ {c} : r.half # NULL /\ calls[d].half = r.half => r.half \in excused'
      /\ \A d \in Calls : calls[d].half \in Users \union {NULL}
  BY <1>1, HalvesMove DEF PictureInv
<1>4. \A u \in Users \ {w} : Active(u)' <=> Active(u)
  BY <1>1 DEF Writes, OnlyUser, Active
<1>5. PictureHow(calls[c], r, w, lapsed)
  BY <1>1 DEF Writes
<1>6. ASSUME NEW d \in Calls \ {c} PROVE \A m : m = calls'[d] => HalfThen(m)
  <2>1. PICK h : h = calls[d].half
    OBVIOUS
  <2>2. ASSUME h \notin excused' \union {NULL} PROVE Active(h)' <=> Active(h)
    <3>1. CASE h # w
      BY <1>3, <1>4, <2>1, <2>2, <3>1
    <3>2. CASE h = w /\ r.half = w
      BY <1>3, <2>1, <2>2, <3>2
    <3>3. CASE h = w /\ (w \in lapsed \/ (Active(w)' <=> Active(w)))
      BY <1>3, <2>2, <3>3
    <3>4. CASE h = w /\ calls[c].pc = "remove" /\ TellsFirst(calls[c]) /\ w = calls[c].user
      <4>1. w \notin excused
        BY <1>3, <2>2, <3>4
      <4>2. calls[c].half = w /\ calls[d].half = w /\ w # NULL
        BY <2>1, <2>2, <3>4, <4>1, RemovedIsTold
      <4>3. w \in excused
        BY <4>2 DEF PictureInv, HalvesApart
      <4> QED BY <4>1, <4>3
    <3> QED BY <1>5, <3>1, <3>2, <3>3, <3>4 DEF PictureHow
  <2> QED BY <1>1, <1>2, <2>1, <2>2, OthersKeepHalf
<1>7. HalfThen(r)
  <2>1. r.pc # "remove" /\ (r.pc = "tell" => r.half = w)
    BY <1>1 DEF Writes
  <2>2. r.pc = "tell" => (r.status = TRUE <=> Active(w)')
    BY <1>5, <2>1, NullIsNobody DEF PictureHow
  <2> QED BY <2>1, <2>2 DEF HalfThen, Active
<1>8. ASSUME NEW u \in Users PROVE HeardThen(u)
  <2>1. SUFFICES ASSUME u \notin excused', \A d \in Calls : calls'[d].half # u
                 PROVE  told'[u] = TRUE <=> Active(u)'
    BY DEF HeardThen
  <2>2. u \notin excused /\ u \notin lapsed /\ r.half # u /\ u # NULL
        /\ \A d \in Calls \ {c} : calls[d].half # u
    BY <1>3, <2>1, NullIsNobody
  <2>3. ASSUME calls[c].half # u PROVE told[u] = TRUE <=> Active(u)
    BY <2>2, <2>3 DEF PictureInv, Heard
  <2>4. CASE calls[c].half # u /\ u # w
    BY <1>2, <1>4, <2>3, <2>4
  <2>5. CASE u = w
    <3>1. CASE calls[c].half = NULL /\ (Active(w)' <=> Active(w))
      BY <1>2, <2>2, <2>3, <2>5, <3>1
    <3>2. CASE calls[c].pc = "remove" /\ TellsFirst(calls[c]) /\ w = calls[c].user /\ ~Active(w)'
      <4>1. told[w] = FALSE
        BY <2>2, <2>5, <3>2, RemovedIsTold
      <4> QED BY <1>2, <2>5, <3>2, <4>1
    <3> QED BY <1>5, <2>2, <2>5, <3>1, <3>2 DEF PictureHow
  <2>6. CASE calls[c].half = u /\ u # w
    <3>1. calls[c].half # NULL /\ calls[c].pc = "remove" /\ w = calls[c].user
      BY <1>5, <2>2, <2>6 DEF PictureHow
    <3>2. calls[c].half = calls[c].user
      BY <3>1, InPlace DEF HandOK
    <3> QED BY <2>6, <3>1, <3>2
  <2> QED BY <2>4, <2>5, <2>6
<1> QED BY <1>3, <1>6, <1>7, <1>8, PictureThenIs

LEMMA TellsKeepPicture ==
  ASSUME TypeInv, PictureInv, NEW c \in Calls, TellStep(c)
  PROVE  PictureInv'
<1>1. PICK r \in Locals : Moves(c, r, {}, {}) /\ Tells(calls[c], r)
  BY DEF TellStep
<1>2. PICK k : k = calls[c]
  OBVIOUS
<1>3. PICK w : w = k.user
  OBVIOUS
<1>4. users' = users /\ told' = [told EXCEPT ![w] = k.status] /\ k.pc = "tell"
  BY <1>1, <1>2, <1>3 DEF TellStep, Tells, stores
<1>5. HandOK(k) /\ w \in Users /\ told \in [Users -> BOOLEAN]
  <2>1. HandOK(k)
    BY <1>2, <1>4, InPlace
  <2> QED BY <1>3, <1>4, <2>1 DEF HandOK, HandPcs, TypeInv, HistoriesOK
<1>6. /\ calls'[c] = r /\ \A d \in Calls \ {c} : calls'[d].half = calls[d].half
      /\ excused \subseteq excused' /\ HalvesApart'
      /\ \A d \in Calls \ {c} : r.half # NULL /\ calls[d].half = r.half => r.half \in excused'
      /\ \A d \in Calls : calls[d].half \in Users \union {NULL}
  <2>1. PICK none : none = {}
    OBVIOUS
  <2>2. none \in SUBSET Users /\ none \in SUBSET ExternalIds /\ Moves(c, r, none, none)
    BY <1>1, <2>1
  <2> QED BY <2>2, HalvesMove DEF PictureInv
<1>7. \A u : Active(u)' <=> Active(u)
  BY <1>4 DEF Active
<1>8. told'[w] = k.status /\ \A u \in Users \ {w} : told'[u] = told[u]
  BY <1>4, <1>5
<1>9. \/ /\ r.pc = "tell" /\ r.half = w /\ r.user = w /\ r.status = k.status
         /\ TellsFirst(r) = TellsFirst(k)
      \/ r.pc = "remove" /\ r.half = w /\ r.user = w /\ TellsFirst(k) /\ TellsFirst(r)
      \/ ~TellsFirst(k) /\ r.half = NULL /\ r.pc \notin {"tell", "remove"}
  BY <1>1, <1>2, <1>3 DEF Tells
<1>10. ~TellsFirst(k) /\ w \notin excused => k.half = w /\ (k.status = TRUE <=> Active(w))
  <2>1. ~TellsFirst(k) => k.half = w
    BY <1>3, <1>4, <1>5 DEF HandOK
  <2>2. HalfOK(k)
    BY <1>2 DEF PictureInv, HalfOK, Active
  <2> QED BY <1>4, <2>1, <2>2 DEF HalfOK, Active
<1>11. TellsFirst(k) => k.status = FALSE
  BY <1>4, <1>5 DEF HandOK
<1>12. ASSUME NEW d \in Calls \ {c} PROVE \A m : m = calls'[d] => HalfThen(m)
  <2>1. PICK h : h = calls[d].half
    OBVIOUS
  <2>2. ASSUME h \notin excused' \union {NULL} PROVE told'[h] = told[h]
    <3>1. h # w
      <4>1. CASE r.half = w
        BY <1>5, <1>6, <2>1, <2>2, <4>1
      <4>2. CASE ~TellsFirst(k)
        <5>1. h = w => w \notin excused /\ k.half = w
          BY <1>6, <1>10, <2>2, <4>2
        <5>2. h = w => w \in excused
          BY <1>2, <1>5, <2>1, <5>1, NullIsNobody DEF PictureInv, HalvesApart
        <5> QED BY <5>1, <5>2
      <4> QED BY <1>9, <4>1, <4>2
    <3> QED BY <1>6, <1>8, <2>1, <2>2, <3>1
  <2> QED BY <1>1, <1>7, <2>1, <2>2, OthersKeepHalf
<1>13. HalfThen(r)
  <2>1. CASE r.pc = "tell" /\ r.half = w /\ r.user = w /\ r.status = k.status
             /\ TellsFirst(r) = TellsFirst(k)
    <3>1. ~TellsFirst(r) /\ w \notin excused' => (r.status = TRUE <=> Active(w)')
      BY <1>6, <1>7, <1>10, <2>1
    <3> QED BY <2>1, <3>1 DEF HalfThen, Active
  <2>2. CASE r.pc = "remove" /\ r.half = w /\ r.user = w /\ TellsFirst(k) /\ TellsFirst(r)
    BY <1>8, <1>11, <2>2 DEF HalfThen
  <2>3. CASE r.pc \notin {"tell", "remove"}
    BY <2>3 DEF HalfThen
  <2> QED BY <1>9, <2>1, <2>2, <2>3
<1>14. ASSUME NEW u \in Users PROVE HeardThen(u)
  <2>1. SUFFICES ASSUME u \notin excused', \A d \in Calls : calls'[d].half # u
                 PROVE  told'[u] = TRUE <=> Active(u)'
    BY DEF HeardThen
  <2>2. u \notin excused /\ r.half # u /\ \A d \in Calls \ {c} : calls[d].half # u
    BY <1>6, <2>1
  <2>3. CASE u # w
    <3>1. calls[c].half # u
      BY <1>2, <1>3, <1>5, <2>3, NullIsNobody DEF HandOK
    <3> QED BY <1>7, <1>8, <2>2, <2>3, <3>1 DEF PictureInv, Heard
  <2>4. CASE u = w
    BY <1>7, <1>8, <1>9, <1>10, <2>2, <2>4
  <2> QED BY <2>3, <2>4
<1> QED BY <1>6, <1>12, <1>13, <1>14, PictureThenIs

LEMMA PictureStays ==
  ASSUME TypeInv, PictureInv, [Next]_vars
  PROVE  PictureInv'
<1>1. CASE UNCHANGED vars
  BY <1>1 DEF vars, stores, PictureInv, HalvesApart, HalfOK, Heard, Active
<1>2. CASE Next
  BY <1>2, StepsAre, CalmKeepsPicture, WritesKeepPicture, TellsKeepPicture
<1> QED BY <1>1, <1>2

\* What the subscriber heard last of a user is whether the user is active, however
\* often requests overlap, reject or die: unless two of them had the user half done,
\* one gave up or died so, or the SCIM server changed it without a word.
THEOREM PictureHolds == Spec => []PictureTrue
<1>1. Init => TypeInv /\ PictureInv
  <2>1. ASSUME Init PROVE PictureInv
    <3>1. \A c \in Calls : calls[c] = Idle
      BY <2>1 DEF Init
    <3>2. \A u \in Users : told[u] = TRUE <=> Active(u)
      <4>1. TypeInv
        BY <2>1, TypesAtFirst
      <4> QED BY <2>1, <4>1 DEF Init, Active, TypeInv, UsersOK, UserRows
    <3> QED BY <3>1, <3>2, IdleIsOK DEF PictureInv, HalvesApart, HalfOK, Heard
  <2> QED BY <2>1, TypesAtFirst
<1>2. TypeInv /\ PictureInv /\ [Next]_vars => (TypeInv /\ PictureInv)'
  BY TypesStay, PictureStays
<1>3. TypeInv /\ PictureInv => PictureTrue
  <2>1. ASSUME TypeInv, PictureInv,
               NEW u \in Users \ (excused \union {calls[c].half : c \in Calls})
        PROVE  told[u] = (u \in DOMAIN users /\ users[u].active)
    <3>1. told[u] = TRUE <=> Active(u)
      BY <2>1 DEF PictureInv, Heard
    <3>2. told[u] \in BOOLEAN /\ (u \in DOMAIN users => users[u].active \in BOOLEAN)
      BY <2>1 DEF TypeInv, HistoriesOK, UsersOK, UserRows
    <3> QED BY <3>1, <3>2 DEF Active
  <2> QED BY <2>1 DEF PictureTrue
<1> QED BY <1>1, <1>2, <1>3, PTL DEF Spec

-----------------------------------------------------------------------------
(* One user and one group for an external id *)

\* Two requests are not busy with the same external id, unless it is contested.
Contest ==
  \A c, d \in Calls : c # d => Busy(calls[c], users) \intersect Busy(calls[d], users) \subseteq contested

IdsInv == Contest /\ OnlyOne /\ \A c \in Calls : Looked(calls[c])

\* Looked after a step, of a request that is m by then.
LookedThen(m) == NothingFound(m)' /\ FoundOnly(m)' /\ FoundListed(m)' /\ NoGroupFound(m)'

LEMMA IdsThenAre ==
  ASSUME Contest', OnlyOne', \A d \in Calls : \A m : m = calls'[d] => LookedThen(m)
  PROVE  IdsInv'
<1>1. \A d \in Calls : Looked(calls[d])'
  BY DEF Looked, LookedThen, NothingFound, FoundOnly, FoundListed, NoGroupFound
<1> QED BY <1>1 DEF IdsInv

LEMMA SettledLooks ==
  ASSUME NEW r, Settled(r)
  PROVE  LookedThen(r)
BY DEF Settled, LookedThen, NothingFound, FoundOnly, FoundListed, NoGroupFound

LEMMA BusySame ==
  ASSUME NEW k, NEW m, m.pc = k.pc, m.request = k.request, m.at = k.at, m.user = k.user,
         m.key = k.key, NEW store
  PROVE  Busy(m, store) = Busy(k, store)
<1>1. InOps(m) = InOps(k) /\ Op(m) = Op(k)
  BY SameOp
<1> QED BY <1>1 DEF Busy

\* What a request is busy with.
LEMMA BusyWith ==
  ASSUME NEW k, k.pc # "idle", NEW store
  PROVE  /\ k.key # NULL => k.key \in Busy(k, store)
         /\ InOps(k) /\ Op(k).externalId # NULL => Op(k).externalId \in Busy(k, store)
         /\ k.user \in DOMAIN store /\ store[k.user].externalId # NULL =>
              store[k.user].externalId \in Busy(k, store)
BY DEF Busy

\* What others are busy with after a step is contested, if c is busy with it too.
LEMMA ContestMoves ==
  ASSUME TypeInv, NEW c \in Calls, NEW r, NEW lapsed, NEW given, Moves(c, r, lapsed, given)
  PROVE  /\ calls'[c] = r /\ contested \subseteq contested' /\ given \subseteq contested'
         /\ \A d \in Calls \ {c} : /\ Busy(calls'[d], users') = Busy(calls[d], users')
                                   /\ Busy(r, users') \intersect Busy(calls[d], users') \subseteq contested'
<1>1. calls'[c] = r /\ contested \subseteq contested' /\ given \subseteq contested'
      /\ \A d \in Calls \ {c} : Busy(r, users') \intersect Busy(calls[d], users') \subseteq contested'
  BY DEF Moves
<1>2. ASSUME NEW d \in Calls \ {c} PROVE Busy(calls'[d], users') = Busy(calls[d], users')
  <2>1. PICK m : m = calls'[d]
    OBVIOUS
  <2>2. PICK k : k = calls[d]
    OBVIOUS
  <2>3. PICK store : store = users'
    OBVIOUS
  <2>4. /\ m.pc = k.pc /\ m.request = k.request /\ m.at = k.at /\ m.user = k.user /\ m.key = k.key
    BY <2>1, <2>2, OthersAre
  <2>5. Busy(m, store) = Busy(k, store)
    BY <2>4, BusySame
  <2> QED BY <2>1, <2>2, <2>3, <2>5
<1> QED BY <1>1, <1>2

LEMMA ContestThenIs ==
  ASSUME TypeInv, NEW c \in Calls, NEW r, NEW lapsed, NEW given, Moves(c, r, lapsed, given),
         \A d, e \in Calls \ {c} : d # e =>
           Busy(calls[d], users') \intersect Busy(calls[e], users') \subseteq contested'
  PROVE  Contest'
<1>1. /\ calls'[c] = r
      /\ \A d \in Calls \ {c} : /\ Busy(calls'[d], users') = Busy(calls[d], users')
                                /\ Busy(r, users') \intersect Busy(calls[d], users') \subseteq contested'
  BY ContestMoves
<1>2. ASSUME NEW a \in Calls, NEW b \in Calls, a # b
      PROVE  Busy(calls'[a], users') \intersect Busy(calls'[b], users') \subseteq contested'
  <2>1. CASE a = c
    BY <1>1, <1>2, <2>1
  <2>2. CASE b = c
    BY <1>1, <1>2, <2>2
  <2>3. CASE a # c /\ b # c
    BY <1>1, <1>2, <2>3
  <2> QED BY <2>1, <2>2, <2>3
<1> QED BY <1>2 DEF Contest

LEMMA CalmKeepsIds ==
  ASSUME TypeInv, IdsInv, NEW c \in Calls, CalmStep(c)
  PROVE  IdsInv'
<1>1. PICK r \in Locals, lapsed \in SUBSET Users :
        Moves(c, r, lapsed, {}) /\ Quietly(calls[c], r, lapsed) /\ GroupGain(calls[c], r)
  BY DEF CalmStep
<1>2. users' = users
  BY DEF CalmStep
<1>3. /\ calls'[c] = r /\ contested \subseteq contested'
      /\ \A d \in Calls \ {c} : Busy(r, users') \intersect Busy(calls[d], users') \subseteq contested'
  BY <1>1, ContestMoves
<1>4. Contest'
  <2>1. \A d, e \in Calls \ {c} : d # e =>
          Busy(calls[d], users') \intersect Busy(calls[e], users') \subseteq contested'
    BY <1>2, <1>3 DEF IdsInv, Contest
  <2> QED BY <1>1, <2>1, ContestThenIs
<1>5. \A x : FindByExternalId(x)' = FindByExternalId(x)
  BY <1>2 DEF FindByExternalId
<1>6. Looked(calls[c]) /\ OnlyOne /\ NoGroupFound(calls[c])
  BY DEF IdsInv, Looked
<1>7. OnlyOne'
  <2>1. ASSUME NEW x \in ExternalIds, x \notin contested' PROVE Single(x)'
    <3>1. Single(x) /\ x \notin contested
      BY <1>3, <1>6, <2>1 DEF OnlyOne
    <3>2. \A u, v \in FindByExternalId(x)' : u = v
      BY <1>5, <3>1 DEF Single
    <3>3. \A g, h \in FindGroupByExternalId(x)' : g = h
      <4>1. CASE FindGroupByExternalId(x)' \subseteq FindGroupByExternalId(x)
        BY <3>1, <4>1 DEF Single
      <4>2. ASSUME calls[c].pc = "createGroup", x = calls[c].key,
                   NEW g, FindGroupByExternalId(x)' \subseteq FindGroupByExternalId(x) \union {g}
            PROVE  \A a, b \in FindGroupByExternalId(x)' : a = b
        <5>1. FindGroupByExternalId(x) = {}
          BY <1>6, <3>1, <4>2 DEF NoGroupFound
        <5> QED BY <4>2, <5>1
      <4> QED BY <1>1, <4>1, <4>2 DEF GroupGain
    <3> QED BY <3>2, <3>3 DEF Single
  <2> QED BY <2>1 DEF OnlyOne
<1>8. ASSUME NEW m, LET x == m.key
                    IN  m.pc = "createGroup" /\ x \notin contested' =>
                          x \in ExternalIds /\ FindGroupByExternalId(x) = {}
                            /\ ~(x = r.key /\ r.pc \notin {"idle", "createGroup"})
      PROVE  NoGroupFound(m)'
  <2>1. PICK x : x = m.key
    OBVIOUS
  <2>2. m.pc = "createGroup" /\ x \notin contested' =>
          x \in ExternalIds /\ FindGroupByExternalId(x) = {}
            /\ ~(x = r.key /\ r.pc \notin {"idle", "createGroup"})
    BY <1>8, <2>1
  <2>3. m.pc = "createGroup" /\ x \notin contested' => FindGroupByExternalId(x)' = {}
    BY <1>1, <2>2 DEF GroupGain
  <2> QED BY <2>1, <2>3 DEF NoGroupFound
<1>9. LookedThen(r)
  <2>1. Looked(r) /\ LocalOK(r)
    BY <1>1, <1>6 DEF Quietly
  <2>2. NothingFound(r)' /\ FoundOnly(r)' /\ FoundListed(r)'
    BY <1>2, <1>3, <1>5, <2>1 DEF Looked, NothingFound, FoundOnly, FoundListed
  <2>3. r.pc = "createGroup" => r.key \in ExternalIds
    BY <2>1 DEF LocalOK, PlaceOK, Locals
  <2>4. r.pc = "createGroup" /\ r.key \notin contested' => FindGroupByExternalId(r.key) = {}
    BY <1>3, <2>1 DEF Looked, NoGroupFound
  <2>5. NoGroupFound(r)'
    BY <1>8, <2>3, <2>4
  <2> QED BY <2>2, <2>5 DEF LookedThen
<1>10. ASSUME NEW d \in Calls \ {c} PROVE \A m : m = calls'[d] => LookedThen(m)
  <2> TAKE m
  <2> HAVE m = calls'[d]
  <2>1. /\ m.pc = calls[d].pc /\ m.user = calls[d].user /\ m.key = calls[d].key
        /\ Op(m) = Op(calls[d]) /\ Kind(m) = Kind(calls[d])
    BY <1>1, OthersAre
  <2>2. NothingFound(calls[d]) /\ FoundOnly(calls[d]) /\ FoundListed(calls[d]) /\ NoGroupFound(calls[d])
    BY DEF IdsInv, Looked
  <2>3. NothingFound(m)' /\ FoundOnly(m)' /\ FoundListed(m)'
    BY <1>2, <1>3, <1>5, <2>1, <2>2 DEF NothingFound, FoundOnly, FoundListed
  <2>4. m.pc = "createGroup" /\ m.key \notin contested' =>
          m.key \in ExternalIds /\ FindGroupByExternalId(m.key) = {}
            /\ ~(m.key = r.key /\ r.pc \notin {"idle", "createGroup"})
    <3>1. SUFFICES ASSUME m.pc = "createGroup", m.key \notin contested'
                   PROVE  m.key \in ExternalIds /\ FindGroupByExternalId(m.key) = {}
                            /\ ~(m.key = r.key /\ r.pc # "idle")
      OBVIOUS
    <3>2. calls[d] \in Locals /\ calls[d].key # NULL
      BY <2>1, <3>1, InGroups
    <3>3. m.key \in ExternalIds
      BY <2>1, <3>2 DEF Locals
    <3>4. FindGroupByExternalId(m.key) = {}
      BY <1>3, <2>1, <2>2, <3>1 DEF NoGroupFound
    <3>5. ASSUME m.key = r.key, r.pc # "idle" PROVE FALSE
      <4>1. m.key \in Busy(r, users')
        BY <3>2, <2>1, <3>5, BusyWith
      <4>2. m.key \in Busy(calls[d], users')
        BY <2>1, <3>1, <3>2, BusyWith
      <4> QED BY <1>3, <3>1, <4>1, <4>2
    <3> QED BY <3>3, <3>4, <3>5
  <2>5. NoGroupFound(m)'
    BY <1>8, <2>4
  <2> QED BY <2>3, <2>5 DEF LookedThen
<1>11. \A d \in Calls : \A m : m = calls'[d] => LookedThen(m)
  BY <1>3, <1>9, <1>10
<1> QED BY <1>4, <1>7, <1>11, IdsThenAre

\* A request becomes busy with another id only through the user that is written.
LEMMA BusyGrows ==
  ASSUME NEW k, NEW w, NEW before, NEW after, NEW x \in Busy(k, after),
         k.user # w => (k.user \in DOMAIN after => k.user \in DOMAIN before
                                                    /\ after[k.user] = before[k.user])
  PROVE  \/ x \in Busy(k, before)
         \/ /\ k.user = w /\ w \in DOMAIN after /\ x = after[w].externalId
            /\ ~(w \in DOMAIN before /\ after[w].externalId = before[w].externalId)
<1>1. k.pc # "idle" /\ x # NULL
  BY DEF Busy
<1>2. \/ x = k.key
      \/ InOps(k) /\ x = Op(k).externalId
      \/ k.user \in DOMAIN after /\ x = after[k.user].externalId
  BY <1>1 DEF Busy
<1>3. x = k.key \/ (InOps(k) /\ x = Op(k).externalId) => x \in Busy(k, before)
  BY <1>1, BusyWith
<1>4. ASSUME k.user \in DOMAIN before, x = before[k.user].externalId PROVE x \in Busy(k, before)
  BY <1>1, <1>4, BusyWith
<1> QED BY <1>2, <1>3, <1>4

LEMMA WritesKeepIds ==
  ASSUME TypeInv, IdsInv, NEW c \in Calls, UserStep(c)
  PROVE  IdsInv'
<1>1. PICK r \in Locals, w \in Users, lapsed \in SUBSET Users, given \in SUBSET ExternalIds :
        Moves(c, r, lapsed, given) /\ Writes(calls[c], r, w, lapsed, given)
  BY DEF UserStep
<1>2. groups' = groups /\ UsersOK'
  BY DEF UserStep
<1>3. /\ calls'[c] = r /\ contested \subseteq contested' /\ given \subseteq contested'
      /\ \A d \in Calls \ {c} : Busy(r, users') \intersect Busy(calls[d], users') \subseteq contested'
  BY <1>1, ContestMoves
<1>4. /\ OnlyUser(calls[c], w) /\ IdHow(calls[c], r, w, given) /\ IdGain(calls[c], r, w, given)
      /\ DeletedHow(calls[c], w) /\ Settled(r)
  BY <1>1 DEF Writes
<1>5. Looked(calls[c]) /\ OnlyOne /\ Contest /\ \A d \in Calls : Looked(calls[d])
  BY DEF IdsInv
<1>6. \A d \in Calls : calls[d].user \in Users \union {NULL} /\ w # NULL /\ NULL \notin DOMAIN users'
  BY <1>2, NullIsNobody DEF TypeInv, CallsOK, Locals, UsersOK
<1>7. PICK after, before : after = users' /\ before = users
  OBVIOUS
\* An id that a user in another's hands has got is contested.
<1>8. ASSUME NEW d \in Calls \ {c}, NEW x \in Busy(calls[d], users')
      PROVE  x \in Busy(calls[d], users) \/ x \in contested'
  <2>1. calls[d].user # w => (calls[d].user \in DOMAIN after => calls[d].user \in DOMAIN before
                                                                  /\ after[calls[d].user] = before[calls[d].user])
    BY <1>4, <1>6, <1>7 DEF OnlyUser
  <2>2. \/ x \in Busy(calls[d], before)
        \/ /\ calls[d].user = w /\ w \in DOMAIN after /\ x = after[w].externalId
           /\ ~(w \in DOMAIN before /\ after[w].externalId = before[w].externalId)
    <3>1. PICK k : k = calls[d]
      OBVIOUS
    <3>2. x \in Busy(k, after)
      BY <1>7, <1>8, <3>1
    <3> QED BY <2>1, <3>1, <3>2, BusyGrows
  <2>3. ASSUME w \in DOMAIN users', x = users'[w].externalId,
               ~(w \in DOMAIN users /\ users'[w].externalId = users[w].externalId)
        PROVE  x \in contested'
    <3>1. x # NULL
      BY <1>8 DEF Busy
    <3>2. x \in given \/ (r.user = w /\ r.pc # "idle")
      BY <1>4, <2>3, <3>1 DEF IdHow
    <3>3. CASE r.user = w /\ r.pc # "idle"
      <4>1. x \in Busy(r, after)
        BY <1>7, <2>3, <3>1, <3>3, BusyWith
      <4> QED BY <1>3, <1>7, <1>8, <4>1
    <3> QED BY <1>3, <3>2, <3>3
  <2> QED BY <1>7, <2>2, <2>3
<1>9. Contest'
  <2>1. ASSUME NEW d \in Calls \ {c}, NEW e \in Calls \ {c}, d # e,
               NEW x \in Busy(calls[d], users'), x \in Busy(calls[e], users')
        PROVE  x \in contested'
    <3>1. (x \in Busy(calls[d], users) /\ x \in Busy(calls[e], users)) \/ x \in contested'
      BY <1>8, <2>1
    <3>2. x \in Busy(calls[d], users) /\ x \in Busy(calls[e], users) => x \in contested
      BY <1>5, <2>1 DEF Contest
    <3> QED BY <1>3, <3>1, <3>2
  <2> QED BY <1>1, <2>1, ContestThenIs
<1>10. \A x \in ExternalIds \ contested' :
         \/ FindByExternalId(x)' \subseteq FindByExternalId(x)
         \/ r.user = w /\ r.pc # "idle" /\ FindByExternalId(x)' \subseteq {w}
  BY <1>3, <1>4, <1>5 DEF IdGain
<1>11. \A x : FindGroupByExternalId(x)' = FindGroupByExternalId(x)
  BY <1>2 DEF FindGroupByExternalId
<1>12. OnlyOne'
  <2>1. ASSUME NEW x \in ExternalIds, x \notin contested' PROVE Single(x)'
    <3>1. Single(x)
      BY <1>3, <1>5, <2>1 DEF OnlyOne
    <3>2. \A u, v \in FindByExternalId(x)' : u = v
      BY <1>10, <2>1, <3>1 DEF Single
    <3> QED BY <1>11, <3>1, <3>2 DEF Single
  <2> QED BY <2>1 DEF OnlyOne
\* What another request did not find is still not there.
<1>13. ASSUME NEW d \in Calls \ {c}, calls[d].pc # "idle", NEW x \in ExternalIds \ contested',
              x \in Busy(calls[d], users')
       PROVE  FindByExternalId(x)' \subseteq FindByExternalId(x)
  <2>1. SUFFICES ASSUME r.user = w, r.pc # "idle", NEW v \in FindByExternalId(x)', v = w
                 PROVE  FALSE
    BY <1>10, <1>13
  <2>2. v \in DOMAIN users' /\ users'[v].externalId = x /\ x # NULL
    BY <1>13, <2>1, NullIsNobody DEF FindByExternalId
  <2>3. x \in Busy(r, after)
    BY <1>7, <2>1, <2>2, BusyWith
  <2> QED BY <1>3, <1>7, <1>13, <2>3
<1>14. ASSUME NEW d \in Calls \ {c} PROVE \A m : m = calls'[d] => LookedThen(m)
  <2> TAKE m
  <2> HAVE m = calls'[d]
  <2>1. /\ m.pc = calls[d].pc /\ m.user = calls[d].user /\ m.key = calls[d].key
        /\ Op(m) = Op(calls[d]) /\ Kind(m) = Kind(calls[d])
    BY <1>1, OthersAre
  <2>2. NothingFound(calls[d]) /\ FoundOnly(calls[d]) /\ FoundListed(calls[d]) /\ NoGroupFound(calls[d])
    BY <1>5 DEF Looked
  <2>3. ASSUME m.pc \in {"email", "create"} \/ (m.pc = "write" /\ Kind(m) = "push"),
               Op(m).externalId # NULL, Op(m).externalId \notin contested'
        PROVE  /\ Op(m).externalId \notin contested
               /\ FindByExternalId(Op(m).externalId)' \subseteq FindByExternalId(Op(m).externalId)
    <3>1. calls[d].pc # "idle" /\ calls[d].pc \in {"email", "create", "write"}
      BY <2>1, <2>3
    <3>2. InOps(calls[d]) /\ Op(calls[d]) \in Operations
      <4>1. PlaceOK(calls[d])
        BY <3>1, InPlace
      <4>2. InOps(calls[d])
        BY <3>1, <4>1 DEF PlaceOK
      <4> QED BY <3>1, <4>2, InPlace
    <3>3. PICK x : x = Op(m).externalId
      OBVIOUS
    <3>4. x \in ExternalIds /\ x = Op(calls[d]).externalId /\ x # NULL /\ x \notin contested'
      BY <2>1, <2>3, <3>2, <3>3 DEF Operations
    <3>5. x \in Busy(calls[d], after)
      BY <3>1, <3>2, <3>4, BusyWith
    <3> QED BY <1>3, <1>7, <1>13, <3>1, <3>3, <3>4, <3>5
  <2>4. NothingFound(m)' /\ FoundOnly(m)'
    BY <2>1, <2>2, <2>3 DEF NothingFound, FoundOnly
  <2>5. FoundListed(m)'
    <3>1. SUFFICES ASSUME m.pc = "write", Kind(m) = "push", Op(m).externalId = NULL,
                          m.user \in DOMAIN users',
                          users'[m.user].externalId \notin contested' \union {NULL},
                          users'[m.user].deleted # FALSE
                   PROVE  FALSE
      BY DEF FoundListed
    <3>2. users'[m.user].deleted = TRUE
      BY <1>2, <3>1 DEF UsersOK, UserRows
    <3>3. CASE m.user # w
      <4>1. m.user \in DOMAIN users /\ users'[m.user] = users[m.user]
        BY <1>2, <1>4, <3>1, <3>3 DEF OnlyUser, UsersOK
      <4> QED BY <1>3, <2>1, <2>2, <3>1, <3>2, <4>1 DEF FoundListed
    <3>4. CASE m.user = w
      <4>1. /\ calls[c].pc = "remove" /\ calls[c].user = w /\ w \in DOMAIN users
            /\ users'[w].externalId = users[w].externalId
        BY <1>4, <3>1, <3>2, <3>4 DEF DeletedHow
      <4>2. PICK x : x = users[w].externalId
        OBVIOUS
      <4>3. x # NULL /\ x \notin contested'
        BY <3>1, <3>4, <4>1, <4>2
      <4>4. x \in Busy(calls[c], before)
        BY <1>7, <4>1, <4>2, <4>3, BusyWith
      <4>5. x \in Busy(calls[d], before)
        BY <1>7, <2>1, <3>1, <3>4, <4>1, <4>2, <4>3, BusyWith
      <4> QED BY <1>3, <1>5, <1>7, <4>3, <4>4, <4>5 DEF Contest
    <3> QED BY <3>3, <3>4
  <2>6. NoGroupFound(m)'
    BY <1>3, <1>11, <2>1, <2>2 DEF NoGroupFound
  <2> QED BY <2>4, <2>5, <2>6 DEF LookedThen
<1>15. \A d \in Calls : \A m : m = calls'[d] => LookedThen(m)
  BY <1>3, <1>4, <1>14, SettledLooks
<1> QED BY <1>9, <1>12, <1>15, IdsThenAre

LEMMA TellsKeepIds ==
  ASSUME TypeInv, IdsInv, NEW c \in Calls, TellStep(c)
  PROVE  IdsInv'
<1>1. PICK r \in Locals : Moves(c, r, {}, {}) /\ Tells(calls[c], r)
  BY DEF TellStep
<1>2. users' = users /\ groups' = groups
  BY DEF TellStep, stores
<1>3. calls'[c] = r /\ contested \subseteq contested'
  BY <1>1, ContestMoves
<1>4. Contest'
  <2>1. \A d, e \in Calls \ {c} : d # e =>
          Busy(calls[d], users') \intersect Busy(calls[e], users') \subseteq contested'
    BY <1>2, <1>3 DEF IdsInv, Contest
  <2> QED BY <1>1, <2>1, ContestThenIs
<1>5. \A x : FindByExternalId(x)' = FindByExternalId(x)
             /\ FindGroupByExternalId(x)' = FindGroupByExternalId(x)
  BY <1>2 DEF FindByExternalId, FindGroupByExternalId
<1>6. OnlyOne'
  BY <1>3, <1>5 DEF IdsInv, OnlyOne, Single
<1>7. LookedThen(r)
  BY <1>1, SettledLooks DEF Tells
<1>8. ASSUME NEW d \in Calls \ {c} PROVE \A m : m = calls'[d] => LookedThen(m)
  <2> TAKE m
  <2> HAVE m = calls'[d]
  <2>1. /\ m.pc = calls[d].pc /\ m.user = calls[d].user /\ m.key = calls[d].key
        /\ Op(m) = Op(calls[d]) /\ Kind(m) = Kind(calls[d])
    BY <1>1, OthersAre
  <2>2. NothingFound(calls[d]) /\ FoundOnly(calls[d]) /\ FoundListed(calls[d]) /\ NoGroupFound(calls[d])
    BY DEF IdsInv, Looked
  <2> QED BY <1>2, <1>3, <1>5, <2>1, <2>2
          DEF LookedThen, NothingFound, FoundOnly, FoundListed, NoGroupFound
<1>9. \A d \in Calls : \A m : m = calls'[d] => LookedThen(m)
  BY <1>3, <1>7, <1>8
<1> QED BY <1>4, <1>6, <1>9, IdsThenAre

LEMMA IdsStay ==
  ASSUME TypeInv, IdsInv, [Next]_vars
  PROVE  IdsInv'
<1>1. CASE UNCHANGED vars
  <2>1. \A x : FindByExternalId(x)' = FindByExternalId(x)
               /\ FindGroupByExternalId(x)' = FindGroupByExternalId(x)
    BY <1>1 DEF vars, stores, FindByExternalId, FindGroupByExternalId
  <2>2. Contest' /\ OnlyOne'
    BY <1>1, <2>1 DEF vars, stores, IdsInv, Contest, OnlyOne, Single
  <2>3. \A d \in Calls : Looked(calls[d])'
    BY <1>1, <2>1 DEF vars, stores, IdsInv, Looked, NothingFound, FoundOnly, FoundListed, NoGroupFound
  <2> QED BY <2>2, <2>3 DEF IdsInv
<1>2. CASE Next
  BY <1>2, StepsAre, CalmKeepsIds, WritesKeepIds, TellsKeepIds
<1> QED BY <1>1, <1>2

LEMMA IdsAtFirst ==
  ASSUME Init
  PROVE  IdsInv
<1>1. \A c \in Calls : calls[c] = Idle
  BY DEF Init
<1>2. Contest
  BY <1>1, IdleIsOK DEF Contest, Busy
<1>3. OnlyOne
  <2>1. \A u, v \in DOMAIN users :
          users[u].externalId # NULL /\ users[u].externalId = users[v].externalId => u = v
    BY InitialUsersAssumption DEF Init
  <2>2. \A x : FindGroupByExternalId(x) = {}
    BY DEF Init, FindGroupByExternalId, EmptyMap
  <2>3. \A x \in ExternalIds : \A u, v \in FindByExternalId(x) : u = v
    BY <2>1, NullIsNobody DEF FindByExternalId
  <2> QED BY <2>2, <2>3 DEF OnlyOne, Single
<1>4. \A c \in Calls : Looked(calls[c])
  BY <1>1, IdleIsOK DEF Looked, NothingFound, FoundOnly, FoundListed, NoGroupFound
<1> QED BY <1>2, <1>3, <1>4 DEF IdsInv

LEMMA AtMostOne ==
  ASSUME NEW S, \A a, b \in S : a = b
  PROVE  Cardinality(S) <= 1
<1>1. CASE S = {}
  BY <1>1, FS_EmptySet
<1>2. ASSUME NEW a \in S PROVE Cardinality(S) <= 1
  <2>1. S = {a}
    BY <1>2
  <2> QED BY <2>1, FS_Singleton
<1> QED BY <1>1, <1>2

\* An external id has at most one active user and one active group, whatever is pushed,
\* moved, deleted and pushed again by however many requests, until two of them are busy
\* with the id at once or PUT gives it unlooked (provisionUser, syncGroup).
THEOREM OneUserPerId == Spec => []OnePerExternalId
<1>1. Init => TypeInv /\ IdsInv
  BY TypesAtFirst, IdsAtFirst
<1>2. TypeInv /\ IdsInv /\ [Next]_vars => (TypeInv /\ IdsInv)'
  BY TypesStay, IdsStay
<1>3. TypeInv /\ IdsInv => OnePerExternalId
  <2>1. ASSUME TypeInv, IdsInv, NEW x \in ExternalIds \ contested
        PROVE  Cardinality(Holders(x)) <= 1 /\ Cardinality(GroupHolders(x)) <= 1
    <3>1. Single(x)
      BY <2>1 DEF IdsInv, OnlyOne
    <3>2. \A u \in Holders(x) : u \in FindByExternalId(x)
      BY <2>1 DEF Holders, FindByExternalId, TypeInv, UsersOK, UserRows
    <3>3. \A g \in GroupHolders(x) : g \in FindGroupByExternalId(x)
      BY DEF GroupHolders, FindGroupByExternalId
    <3>4. /\ \A u, v \in Holders(x) : u = v
          /\ \A g, h \in GroupHolders(x) : g = h
      BY <3>1, <3>2, <3>3 DEF Single
    <3> QED BY <3>4, AtMostOne
  <2> QED BY <2>1 DEF OnePerExternalId
<1> QED BY <1>1, <1>2, <1>3, PTL DEF Spec
=============================================================================
