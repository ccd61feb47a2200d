------------------------------- MODULE Erasure -------------------------------
(***************************************************************************)
(* The erasure of one user (gdpr.ts) among the requests that store         *)
(* something of that user: authenticator app, passkeys, backup codes,      *)
(* password, phone and login.  A request is a slot of ErasureCalls; a step *)
(* runs from one await to the next, and a request may die at any of them.  *)
(* What is stored is modelled by whether it is there, keys one by one; an  *)
(* authenticator app is enabled exactly when it has a secret.              *)
(***************************************************************************)
EXTENDS Naturals, Sequences

CONSTANTS
  UserKeys,     \* bound: the user's passkeys
  ErasureCalls  \* bound: requests in flight

Stores == {"session", "codes", "secret", "pending", "password", "phone", "activity", "row"}

ASSUME ErasureAssumption == UserKeys \intersect Stores = {}

Items == Stores \union UserKeys

VARIABLES
  held,  \* what the stores hold of the user; "row" is the user's own row
  late,  \* what a request stored that overlapped an erasure, used a session so stored,
         \* or a reset link of a user who was gone (history)
  erasureCall \* the local variables of every request

erasureVars == <<held, late, erasureCall>>

Quiet == [pc |-> "idle"]

ErasureInit ==
  /\ held \in {{"row"}, {"row", "password"}}
  /\ late = {}
  /\ erasureCall = [c \in ErasureCalls |-> Quiet]

ErasureAt(c, pc) == erasureCall[c].pc = pc
ErasureGoesOn(c, locals) == erasureCall' = [erasureCall EXCEPT ![c] = locals]
ErasureEnds(c) == ErasureGoesOn(c, Quiet)

Writing == {"write", "sms", "undo"}

Erasing(c) == erasureCall[c].pc \in {"list", "keys", "stage"}
ErasureInFlight == \E c \in ErasureCalls : Erasing(c)

-----------------------------------------------------------------------------
(* Requests that write: what they check, and what they store an await later *)

Starts(c, adds, removes, overlaps) ==
  /\ ErasureAt(c, "idle")
  /\ ErasureGoesOn(c, [pc |-> "write", adds |-> adds, removes |-> removes,
                       overlaps |-> overlaps])
  /\ UNCHANGED <<held, late>>

Begin(c, adds, removes) == Starts(c, adds, removes, ErasureInFlight \/ "session" \in late)

SignedIn == "session" \in held

StartTotpSetup(c) == SignedIn /\ "secret" \notin held /\ Begin(c, {"pending"}, {})
ConfirmTotpSetup(c) == SignedIn /\ "pending" \in held /\ Begin(c, {"secret"}, {"pending"})
DisableTotp(c) == SignedIn /\ "secret" \in held /\ Begin(c, {}, {"secret", "pending"})
StoreBackupCodes(c) == SignedIn /\ Begin(c, {"codes"}, {})
StorePasskey(c, k) == SignedIn /\ Begin(c, {k}, {})
RemovePasskey(c, k) == SignedIn /\ k \in held /\ Begin(c, {}, {k})
VerifyPhone(c) == SignedIn /\ "phone" \in held /\ Begin(c, {}, {"phone"})
SendPhoneCode(c) == SignedIn /\ Begin(c, {"phone"}, {})

\* register sets the password of a user who has none.
SetPassword(c) == "row" \in held /\ "password" \notin held /\ Begin(c, {"password"}, {})

\* resetPasswordWithToken: a link mailed before is as good when the user is gone.
ResetPassword(c) == Starts(c, {"password"}, {}, ErasureInFlight \/ "row" \notin held)

\* login finds the user and a factor; it ends by storing where it was and a session,
\* and before, if a backup code was its second factor, the codes that are left.
LoginStarts(c) ==
  /\ "row" \in held /\ held \intersect ({"password"} \union UserKeys) # {}
  /\ \/ Begin(c, {"activity", "session"}, {})
     \/ "codes" \in held /\ Begin(c, {"codes", "activity", "session"}, {})

StoreChanges(adds, removes, overlaps) ==
  /\ held' = (held \ removes) \union adds
  /\ late' = (late \ (removes \union adds)) \union (IF overlaps THEN adds ELSE {})

Write(c) ==
  LET call == erasureCall[c]
  IN  /\ ErasureAt(c, "write")
      /\ StoreChanges(call.adds, call.removes, call.overlaps)
      /\ IF call.adds = {"phone"}
         THEN ErasureGoesOn(c, [call EXCEPT !.pc = "sms"])
         ELSE ErasureEnds(c)

\* The code is sent; where sending fails, it is deleted again.
PhoneCodeSent(c) ==
  /\ ErasureAt(c, "sms")
  /\ ErasureEnds(c) \/ ErasureGoesOn(c, [erasureCall[c] EXCEPT !.pc = "undo"])
  /\ UNCHANGED <<held, late>>

PhoneCodeUndone(c) ==
  /\ ErasureAt(c, "undo")
  /\ StoreChanges({}, {"phone"}, FALSE)
  /\ ErasureEnds(c)

-----------------------------------------------------------------------------
(* eraseUserData *)

\* Each is an awaited call of its own, the user's row the last of them.
Stages == <<{"codes"}, {"secret", "pending"}, {"password"}, {"phone"}, {"activity"}, {"row"}>>

EraseBegin(c) ==
  /\ ErasureAt(c, "idle")
  /\ ErasureGoesOn(c, [pc |-> "find"])
  /\ UNCHANGED <<held, late>>

\* The requests in flight now overlap this erasure.
MarkOverlap(c, locals) ==
  erasureCall' = [d \in ErasureCalls |->
    IF d = c THEN locals
    ELSE IF erasureCall[d].pc \in Writing THEN [erasureCall[d] EXCEPT !.overlaps = TRUE]
    ELSE erasureCall[d]]

\* findById, and every session of the user invalidated in the same step.
EraseFind(c) ==
  /\ ErasureAt(c, "find")
  /\ IF "row" \in held
     THEN /\ StoreChanges({}, {"session"}, FALSE)
          /\ MarkOverlap(c, [pc |-> "list"])
     ELSE ErasureEnds(c) /\ UNCHANGED <<held, late>>

EraseList(c) ==
  /\ ErasureAt(c, "list")
  /\ ErasureGoesOn(c, [pc |-> "keys", left |-> held \intersect UserKeys])
  /\ UNCHANGED <<held, late>>

EraseKey(c, k) ==
  /\ ErasureAt(c, "keys") /\ k \in erasureCall[c].left
  /\ StoreChanges({}, {k}, FALSE)
  /\ ErasureGoesOn(c, [erasureCall[c] EXCEPT !.left = @ \ {k}])

EraseKeysDone(c) ==
  /\ ErasureAt(c, "keys") /\ erasureCall[c].left = {}
  /\ ErasureGoesOn(c, [pc |-> "stage", nth |-> 1])
  /\ UNCHANGED <<held, late>>

\* A plausible bug: the row is deleted before the rest.
EraseRowEarly(c) ==
  LET nth == erasureCall[c].nth
  IN  /\ ErasureAt(c, "stage")
      /\ StoreChanges({}, Stages[nth] \union {"row"}, FALSE)
      /\ IF nth = Len(Stages)
         THEN ErasureEnds(c)
         ELSE ErasureGoesOn(c, [pc |-> "stage", nth |-> nth + 1])

EraseStage(c) ==
  LET nth == erasureCall[c].nth
  IN  /\ ErasureAt(c, "stage")
      /\ StoreChanges({}, Stages[nth], FALSE)
      /\ IF nth = Len(Stages)
         THEN ErasureEnds(c)
         ELSE ErasureGoesOn(c, [pc |-> "stage", nth |-> nth + 1])

\* A store rejects, the process dies.
ErasureAbort(c) ==
  /\ ~ErasureAt(c, "idle")
  /\ ErasureEnds(c)
  /\ UNCHANGED <<held, late>>

ErasureNext ==
  \E c \in ErasureCalls :
    \/ StartTotpSetup(c) \/ ConfirmTotpSetup(c) \/ DisableTotp(c)
    \/ StoreBackupCodes(c) \/ SetPassword(c) \/ ResetPassword(c)
    \/ VerifyPhone(c) \/ SendPhoneCode(c) \/ LoginStarts(c)
    \/ \E k \in UserKeys : StorePasskey(c, k) \/ RemovePasskey(c, k) \/ EraseKey(c, k)
    \/ Write(c) \/ PhoneCodeSent(c) \/ PhoneCodeUndone(c)
    \/ EraseBegin(c) \/ EraseFind(c) \/ EraseList(c) \/ EraseKeysDone(c) \/ EraseStage(c)
    \/ ErasureAbort(c)

ErasureSpec == ErasureInit /\ [][ErasureNext]_erasureVars

-----------------------------------------------------------------------------
(* Correctness *)

ErasureLocals ==
  [pc : {"idle", "find", "list"}]
    \union [pc : {"keys"}, left : SUBSET UserKeys]
    \union [pc : {"stage"}, nth : 1 .. Len(Stages)]
    \union [pc : Writing, adds : SUBSET (Items \ {"row"}), removes : SUBSET (Items \ {"row"}),
            overlaps : BOOLEAN]

\* The stores and the requests keep their types.
ErasureTypes ==
  /\ held \subseteq Items /\ late \subseteq held
  /\ erasureCall \in [ErasureCalls -> ErasureLocals]

\* Once the user's row is gone nothing of the user is left but what a request
\* stored that was in flight together with an erasure, that used a session such a
\* request stored, or a reset link the user had been sent: an erasure that died half
\* way leaves the row, by which it can be run again.
NothingOutlivesTheRow ==
  "row" \notin held => held \subseteq late
=============================================================================
