------------------------------- MODULE Login -------------------------------
(***************************************************************************)
(* login() of registration-login.ts for one account with account lockout,  *)
(* TOTP or SMS as second factor and backup codes, beside sendLoginSmsOtp   *)
(* and generateAndStoreBackupCodes for the same account.                   *)
(*                                                                         *)
(* A request is a slot c \in Requests; a step runs from one await to the   *)
(* next.  What the client sent is chosen where the code looks at it.       *)
(***************************************************************************)
EXTENDS AccountLockout, BackupCodes, SmsChallenge

CONSTANTS
  Requests,  \* request slots, a bound on the requests in flight
  MaxTime    \* bound on the clock

ASSUME RequestsAssumption == IsFiniteSet(Requests) /\ MaxTime \in Nat

VARIABLES
  now,       \* Date.now()
  factors,   \* which second factors the account has, "totp" and "sms"
  lock,      \* the account's lockout entry
  guesses,   \* failures since the entry was last empty or over (history)
  request    \* the local variables of every request

accountVars == <<lock, guesses>>
vars == <<now, factors, accountVars, backupVars, smsVars, request>>

\* The local "code" is a backup code in a login, an SMS code where one was read.
Idle == [pc |-> "idle", stage |-> NULL, seen |-> {}, backup |-> NULL, sms |-> NULL,
         expires |-> NULL]

Init ==
  /\ now = 0
  /\ factors \in SUBSET {"totp", "sms"}
  /\ lock = NoEntry
  /\ guesses = 0
  /\ BackupInit
  /\ SmsInit
  /\ request = [c \in Requests |-> Idle]

At(c, pc) == request[c].pc = pc
Continue(c, locals) == request' = [request EXCEPT ![c] = locals]
Finish(c) == Continue(c, Idle)

-----------------------------------------------------------------------------
(* login(): the outcomes of its checks *)

\* recordLoginFailure
Fail(c) ==
  /\ lock' = FailureRecorded(lock, now)
  /\ guesses' = IF LockIsOver(lock, now) THEN 1 ELSE guesses + 1
  /\ Finish(c)

\* On to the next check, TOTP before SMS; without one left the login succeeds
\* and clearFailedAttempts.
Proceed(c) ==
  LET left == CASE request[c].stage = "password" -> factors
                [] request[c].stage = "totp"     -> factors \ {"totp"}
                [] request[c].stage = "sms"      -> {}
      next == IF "totp" \in left THEN "totp" ELSE "sms"
  IN  IF left = {}
      THEN lock' = NoEntry /\ guesses' = 0 /\ Finish(c)
      ELSE /\ Continue(c, [Idle EXCEPT !.pc = "factor", !.stage = next,
                                      !.backup = request[c].backup])
           /\ UNCHANGED accountVars

LoginBegin(c) ==
  /\ At(c, "idle")
  /\ ~IsLocked(lock, now)
  /\ lock' = Checked(lock, now)
  /\ guesses' = IF LockIsOver(lock, now) THEN 0 ELSE guesses
  /\ Continue(c, [Idle EXCEPT !.pc = "password", !.stage = "password"])
  /\ UNCHANGED <<now, factors, backupVars, smsVars>>

\* findUserByEmail and verifyPassword; no such user is a wrong password.
VerifyPassword(c) ==
  /\ At(c, "password")
  /\ Proceed(c) \/ Fail(c)
  /\ UNCHANGED <<now, factors, backupVars, smsVars>>

\* requiresTotp, requiresSmsOtp: the client sent nothing to look at.
FactorRequired(c) ==
  /\ At(c, "factor") /\ request[c].backup = NULL
  /\ Finish(c)
  /\ UNCHANGED <<now, factors, accountVars, backupVars, smsVars>>

VerifyTotpChallenge(c) ==
  /\ At(c, "factor") /\ request[c].stage = "totp"
  /\ Proceed(c) \/ Fail(c)
  /\ UNCHANGED <<now, factors, backupVars, smsVars>>

\* One request carries one backup code, for whichever factor it is tried.
BackupRead(c, code) ==
  /\ At(c, "factor")
  /\ request[c].backup \in {NULL, code}
  /\ Continue(c, [request[c] EXCEPT !.pc = "backup", !.seen = hashes, !.backup = code])
  /\ UNCHANGED <<now, factors, accountVars, backupVars, smsVars>>

BackupVerified(c) ==
  /\ At(c, "backup")
  /\ ConsumeBackupCode(request[c].seen, request[c].backup)
  /\ Proceed(c)
  /\ UNCHANGED <<now, factors, smsVars>>

\* No hash matches, or setHashes rejects, which the loop takes for a mismatch.
BackupRefused(c) ==
  /\ At(c, "backup")
  /\ Fail(c)
  /\ UNCHANGED <<now, factors, backupVars, smsVars>>

SmsRead(c) ==
  /\ At(c, "factor") /\ request[c].stage = "sms"
  /\ \/ /\ challenge # NULL
        /\ Continue(c, [request[c] EXCEPT !.sms = challenge.code,
                          !.pc = IF now > challenge.expires THEN "expire" ELSE "consume"])
        /\ UNCHANGED accountVars
     \/ /\ challenge # NULL => now <= challenge.expires
        /\ Fail(c)
  /\ UNCHANGED <<now, factors, backupVars, smsVars>>

SmsConsume(c) ==
  /\ At(c, "consume")
  /\ DeleteChallenge(request[c].sms)
  /\ Proceed(c)
  /\ UNCHANGED <<now, factors, backupVars>>

SmsExpire(c) ==
  /\ At(c, "expire")
  /\ DeleteChallenge(request[c].sms)
  /\ Fail(c)
  /\ UNCHANGED <<now, factors, backupVars>>

-----------------------------------------------------------------------------
(* sendLoginSmsOtp *)

\* The limit is looked at before the await on the store, and counted after.
SendBegin(c) ==
  /\ At(c, "idle")
  /\ "sms" \in factors
  /\ MaySend(now)
  /\ Continue(c, [Idle EXCEPT !.pc = "store", !.expires = now + CodeLife])
  /\ UNCHANGED <<now, factors, accountVars, backupVars, smsVars>>

SendStore(c) ==
  /\ At(c, "store")
  /\ \E code \in SmsCodes :
       /\ StoreCode(code, request[c].expires, now)
       /\ Continue(c, [Idle EXCEPT !.pc = "sending", !.sms = code])
  /\ UNCHANGED <<now, factors, accountVars, backupVars>>

\* The sender, or the fallback sender, took the message.
SendDelivered(c) ==
  /\ At(c, "sending")
  /\ Finish(c)
  /\ UNCHANGED <<now, factors, accountVars, backupVars, smsVars>>

\* Both senders rejected.
SendFailed(c) ==
  /\ At(c, "sending")
  /\ Continue(c, [request[c] EXCEPT !.pc = "undo"])
  /\ UNCHANGED <<now, factors, accountVars, backupVars, smsVars>>

SendUndo(c) ==
  /\ At(c, "undo")
  /\ DeleteChallenge(request[c].sms)
  /\ Finish(c)
  /\ UNCHANGED <<now, factors, accountVars, backupVars>>

-----------------------------------------------------------------------------
(* generateAndStoreBackupCodes, and the environment *)

GenerateBegin(c) ==
  /\ At(c, "idle")
  /\ Continue(c, [Idle EXCEPT !.pc = "generate", !.seen = hashes])
  /\ UNCHANGED <<now, factors, accountVars, backupVars, smsVars>>

GenerateStore(c) ==
  /\ At(c, "generate")
  /\ \E codes \in SUBSET (BackupCodeSet \ shown) \ {{}} :
       AddBackupCodes(request[c].seen, codes)
  /\ Finish(c)
  /\ UNCHANGED <<now, factors, accountVars, smsVars>>

\* A store operation rejects, or the process dies.
Abort(c) ==
  /\ ~At(c, "idle")
  /\ Finish(c)
  /\ UNCHANGED <<now, factors, accountVars, backupVars, smsVars>>

Tick ==
  /\ now < MaxTime
  /\ now' = now + 1
  /\ UNCHANGED <<factors, accountVars, backupVars, smsVars, request>>

Serve(c) ==
  \/ LoginBegin(c) \/ VerifyPassword(c) \/ FactorRequired(c) \/ VerifyTotpChallenge(c)
  \/ \E code \in BackupCodeSet : BackupRead(c, code)
  \/ BackupVerified(c) \/ BackupRefused(c)
  \/ SmsRead(c) \/ SmsConsume(c) \/ SmsExpire(c)
  \/ SendBegin(c) \/ SendStore(c) \/ SendDelivered(c) \/ SendFailed(c) \/ SendUndo(c)
  \/ GenerateBegin(c) \/ GenerateStore(c)

Next == Tick \/ \E c \in Requests : Serve(c) \/ Abort(c)

Spec == Init /\ [][Next]_vars

-----------------------------------------------------------------------------
(* Correctness *)

\* The stores, the entry and the locals keep their types.
TypeOK ==
  /\ BackupTypes /\ SmsTypes
  /\ now \in 0 .. MaxTime
  /\ factors \subseteq {"totp", "sms"}
  /\ lock \in [count : 0 .. MaxAttempts, until : Nat \union {NoLock}]
  /\ guesses \in Nat
  /\ \A c \in Requests :
       /\ request[c].seen \subseteq shown
       /\ request[c].sms \in generated \union {NULL}
       /\ request[c].backup \in BackupCodeSet \union {NULL}

\* However logins overlap, an account takes at most maxAttempts wrong guesses
\* before it locks, and one more for every other login in flight.
GuessesPerLock == guesses <= MaxAttempts + Cardinality(Requests) - 1

\* A lock ends when it was said to end, or with a login that succeeds: the late
\* failures of logins that overlap neither extend nor shorten it.
LockKeepsItsTime ==
  [][IsLocked(lock, now) => lock' \in {lock, NoEntry}]_vars

\* Unless a request wrote over hashes that had changed since it read them, the
\* store holds the codes shown and not yet used, and each has passed at most once.
BackupCodesAccountedFor ==
  ~staleHashes =>
    /\ hashes = {code \in shown : paid[code] = 0}
    /\ \A code \in BackupCodeSet : paid[code] <= 1

\* PRD.md: "Backup Codes: Single-use recovery codes".  Violated: two requests
\* read the same hashes before either writes them back.
BackupCodesAreSingleUse == \A code \in BackupCodeSet : paid[code] <= 1

\* The newest code, until it is used, expires or could not be sent, is the one
\* that will be accepted, unless a request deleted it in place of an older one.
NewestCodeStands ==
  newest # NULL /\ ~staleDelete => challenge # NULL /\ challenge.code = newest
=============================================================================
