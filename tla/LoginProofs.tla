---------------------------- MODULE LoginProofs ----------------------------
(***************************************************************************)
(* The lockout, the backup codes and the SMS challenge under any number of *)
(* overlapping logins.                                                     *)
(***************************************************************************)
EXTENDS Login, FiniteSetTheorems, TLAPS

LoginPcs == {"password", "factor", "backup", "expire", "consume"}
InFlight == {c \in Requests : request[c].pc \in LoginPcs}

\* Below the limit the entry counts every failure; once it has locked, whoever
\* is in flight may add one, and nobody new comes in.
LockInv ==
  /\ now \in 0 .. MaxTime
  /\ lock \in [count : 0 .. MaxAttempts, until : Nat \union {NoLock}]
  /\ guesses \in Nat
  /\ lock.until = NoLock => guesses = lock.count /\ guesses < MaxAttempts
  /\ lock.until # NoLock =>
       guesses + Cardinality(InFlight) <= MaxAttempts + Cardinality(Requests) - 1

Locals == [pc : LoginPcs \union {"idle", "store", "sending", "undo", "generate"},
           stage : {"password", "totp", "sms", NULL},
           seen : SUBSET BackupCodeSet, backup : BackupCodeSet \union {NULL},
           sms : SmsCodes \union {NULL}, expires : Nat \union {NULL}]

\* What the locals of a request promise at each of its awaits.
Well(r) ==
  /\ r \in Locals
  /\ r.seen \subseteq shown
  /\ r.sms \in generated \union {NULL}
  /\ r.pc \in LoginPcs => r.stage \in {"password", "totp", "sms"}
  /\ r.pc = "store" => r.expires \in Nat

RequestsInv ==
  /\ factors \subseteq {"totp", "sms"}
  /\ request \in [Requests -> Locals]
  /\ \A c \in Requests : Well(request[c])

\* No code passes before it is shown.
BackupInv ==
  /\ BackupTypes /\ BackupCodesAccountedFor
  /\ \A code \in BackupCodeSet \ shown : paid[code] = 0

SmsInv ==
  /\ challenge \in [code : SmsCodes, expires : Nat] \union {NULL}
  /\ challenge # NULL => challenge.code \in generated
  /\ generated \subseteq SmsCodes
  /\ newest \in generated \union {NULL}
  /\ staleDelete \in BOOLEAN
  /\ NewestCodeStands

IInv == LockInv /\ RequestsInv /\ BackupInv /\ SmsInv

-----------------------------------------------------------------------------
(* What the operations do to the part of the state they are about *)

LEMMA InFlightFinite ==
  /\ IsFiniteSet(InFlight) /\ Cardinality(InFlight) \in Nat
  /\ IsFiniteSet(Requests) /\ Cardinality(Requests) \in Nat
  /\ Cardinality(InFlight) <= Cardinality(Requests)
<1> InFlight \in SUBSET Requests
  BY DEF InFlight
<1> QED BY FS_Subset, FS_CardinalityType, RequestsAssumption

LEMMA IdleIsWell == Well(Idle)
  BY DEF Well, Idle, Locals, LoginPcs

\* An entry that counts one more failure is below the limit or locks.
LEMMA FailureIsCounted ==
  ASSUME NEW entry \in [count : 0 .. MaxAttempts, until : Nat \union {NoLock}],
         NEW t \in Nat, ~IsLocked(entry, t),
         entry.until = NoLock => entry.count < MaxAttempts
  PROVE  /\ FailureRecorded(entry, t).count = Counted(entry)
         /\ Counted(entry) \in 1 .. MaxAttempts
         /\ Counted(entry) = IF LockIsOver(entry, t) THEN 1 ELSE entry.count + 1
         /\ FailureRecorded(entry, t).until =
              IF Counted(entry) = MaxAttempts THEN t + LockoutDuration ELSE NoLock
<1>1. /\ entry.count \in 0 .. MaxAttempts /\ entry.until \in Nat \union {NoLock}
      /\ entry.until # NoLock => t >= entry.until
  BY LockoutAssumption DEF IsLocked
<1>2. Counted(entry) \in 1 .. MaxAttempts
  BY <1>1, LockoutAssumption DEF Counted
<1>3. Counted(entry) = IF LockIsOver(entry, t) THEN 1 ELSE entry.count + 1
  BY <1>1 DEF Counted, LockIsOver
<1> QED BY <1>1, <1>2, <1>3, LockoutAssumption DEF FailureRecorded

\* A login that fails leaves the guesses accounted for.
LEMMA FailKeepsLock ==
  ASSUME IInv, NEW c \in InFlight, Fail(c), UNCHANGED now
  PROVE  LockInv'
<1> USE DEF IInv
<1>1. /\ InFlight' = InFlight \ {c} /\ c \in Requests
      /\ Cardinality(InFlight') = Cardinality(InFlight) - 1
  <2>1. InFlight' = InFlight \ {c} /\ c \in Requests
    BY DEF InFlight, Fail, Finish, Continue, Idle, LoginPcs, RequestsInv
  <2> QED BY <2>1, FS_RemoveElement, InFlightFinite
<1>2. now \in Nat /\ LockoutDuration \in Nat \ {0} /\ MaxAttempts \in Nat \ {0} /\ NoLock \notin Nat
  BY RequestsAssumption, LockoutAssumption DEF LockInv
<1>3. CASE IsLocked(lock, now)
  <2>1. lock' = lock /\ guesses' = guesses + 1 /\ lock.until # NoLock
    BY <1>2, <1>3 DEF Fail, FailureRecorded, IsLocked, LockIsOver, LockInv
  <2> QED BY <2>1, <1>1, <1>2, InFlightFinite DEF LockInv
<1>4. CASE ~IsLocked(lock, now)
  <2>1. /\ lock'.count = Counted(lock) /\ Counted(lock) \in 1 .. MaxAttempts
        /\ Counted(lock) = IF LockIsOver(lock, now) THEN 1 ELSE lock.count + 1
        /\ lock'.until = IF Counted(lock) = MaxAttempts THEN now + LockoutDuration ELSE NoLock
    BY <1>2, <1>4, FailureIsCounted DEF Fail, LockInv
  <2>2. lock' = [count |-> lock'.count, until |-> lock'.until]
    BY <1>4 DEF Fail, FailureRecorded
  <2>3. lock.until # NoLock => LockIsOver(lock, now)
    BY <1>2, <1>4 DEF IsLocked, LockIsOver, LockInv
  <2>4. lock.until = NoLock => ~LockIsOver(lock, now)
    BY DEF LockIsOver
  <2>5. guesses' = Counted(lock)
    BY <2>1, <2>3, <2>4 DEF Fail, LockInv
  <2> QED BY <2>1, <2>2, <2>5, <1>1, <1>2, InFlightFinite DEF LockInv
<1> QED BY <1>3, <1>4

LEMMA FailKeepsRequests ==
  ASSUME IInv, NEW c \in Requests, Finish(c),
         UNCHANGED factors, shown \subseteq shown', generated \subseteq generated'
  PROVE  RequestsInv'
<1> USE DEF IInv
<1>1. \A d \in Requests : request'[d] = request[d] \/ request'[d] = Idle
  BY DEF Finish, Continue, RequestsInv
<1>2. \A d \in Requests : Well(request[d])'
  <2>1. TAKE d \in Requests
  <2>2. CASE request'[d] = request[d]
    BY <2>2 DEF RequestsInv, Well
  <2>3. CASE request'[d] = Idle
    BY <2>3, IdleIsWell DEF Well, Idle
  <2> QED BY <1>1, <2>2, <2>3
<1> QED BY <1>2 DEF RequestsInv, Finish, Continue, Well

LEMMA ContinueKeepsRequests ==
  ASSUME IInv, NEW c \in Requests, NEW r, Continue(c, r), Well(r)',
         UNCHANGED factors, shown \subseteq shown', generated \subseteq generated'
  PROVE  RequestsInv'
<1> USE DEF IInv
<1>1. r \in Locals
  BY DEF Well
<1>2. \A d \in Requests : Well(request[d])'
  <2>1. TAKE d \in Requests
  <2>2. CASE d # c
    BY <2>2 DEF RequestsInv, Well, Continue
  <2>3. CASE d = c
    BY <2>3 DEF RequestsInv, Well, Continue
  <2> QED BY <2>2, <2>3
<1> QED BY <1>1, <1>2 DEF RequestsInv, Continue

LEMMA FactorLocals ==
  ASSUME NEW stage \in {"totp", "sms"}, NEW backup \in BackupCodeSet \union {NULL}
  PROVE  \E r \in Locals :
           /\ r = [Idle EXCEPT !.pc = "factor", !.stage = stage, !.backup = backup]
           /\ r.pc = "factor" /\ r.stage = stage /\ r.seen = {} /\ r.sms = NULL
<1> DEFINE r == [Idle EXCEPT !.pc = "factor", !.stage = stage, !.backup = backup]
<1>1. r \in Locals
  BY DEF Idle, Locals, LoginPcs
<1>2. r.pc = "factor" /\ r.stage = stage /\ r.seen = {} /\ r.sms = NULL
  BY DEF Idle
<1> QED BY <1>1, <1>2

\* A login that passes a check goes on, or succeeds and clears the entry.
LEMMA ProceedKeeps ==
  ASSUME IInv, NEW c \in InFlight, Proceed(c), UNCHANGED <<now, factors>>,
         shown \subseteq shown', generated \subseteq generated'
  PROVE  LockInv' /\ RequestsInv'
<1> USE DEF IInv
<1> DEFINE left == CASE request[c].stage = "password" -> factors
                     [] request[c].stage = "totp"     -> factors \ {"totp"}
                     [] request[c].stage = "sms"      -> {}
           next == IF "totp" \in left THEN "totp" ELSE "sms"
<1>0. c \in Requests /\ Well(request[c]) /\ request[c].pc \in LoginPcs
  BY DEF InFlight, RequestsInv
<1>1. CASE left = {}
  <2>1. lock' = NoEntry /\ guesses' = 0 /\ Finish(c)
    BY <1>1 DEF Proceed
  <2>2. LockInv'
    BY <2>1, LockoutAssumption DEF LockInv, NoEntry
  <2> QED BY <1>0, <2>1, <2>2, FailKeepsRequests
<1>2. CASE left # {}
  <2>0. next \in {"totp", "sms"} /\ request[c].backup \in BackupCodeSet \union {NULL}
    BY <1>0 DEF Well, Locals
  <2>1. /\ request' = [request EXCEPT ![c] =
              [Idle EXCEPT !.pc = "factor", !.stage = next, !.backup = request[c].backup]]
        /\ UNCHANGED <<lock, guesses>>
    BY <1>2 DEF Proceed, accountVars, Continue
  <2> HIDE DEF next
  <2>7. PICK r \in Locals :
          /\ r = [Idle EXCEPT !.pc = "factor", !.stage = next, !.backup = request[c].backup]
          /\ r.pc = "factor" /\ r.stage = next /\ r.seen = {} /\ r.sms = NULL
    BY <2>0, FactorLocals
  <2>2. request' = [request EXCEPT ![c] = r]
    BY <2>1, <2>7
  <2>3. r \in Locals
    BY <2>7
  <2>4. Well(r)'
    BY <2>0, <2>7, <2>3, SmsAssumption DEF Well
  <2>5. InFlight' = InFlight
    BY <1>0, <2>2, <2>7 DEF Continue, InFlight, LoginPcs, RequestsInv
  <2>6. LockInv'
    BY <2>1, <2>5 DEF LockInv
  <2> QED BY <1>0, <2>2, <2>4, <2>6, ContinueKeepsRequests DEF Continue
<1> HIDE DEF left
<1> QED BY <1>1, <1>2

\* A request that only changes its locals.
LEMMA LocalStep ==
  ASSUME IInv, NEW c \in Requests, NEW r, Continue(c, r), Well(r),
         r.pc \in LoginPcs => request[c].pc \in LoginPcs,
         UNCHANGED <<now, factors, lock, guesses, backupVars, smsVars>>
  PROVE  IInv'
<1> USE DEF IInv
<1>1. BackupInv' /\ SmsInv'
  BY DEF backupVars, smsVars, BackupInv, BackupTypes, BackupCodesAccountedFor, SmsInv, NewestCodeStands
<1>2. RequestsInv'
  <2>1. Well(r)'
    BY DEF Well, backupVars, smsVars
  <2> QED BY <2>1, ContinueKeepsRequests DEF backupVars, smsVars
<1>3. LockInv'
  <2>1. /\ InFlight' \subseteq InFlight
        /\ IsFiniteSet(InFlight') /\ Cardinality(InFlight') <= Cardinality(InFlight)
        /\ Cardinality(InFlight') \in Nat
    <3>1. InFlight' \subseteq InFlight
      BY DEF InFlight, Continue, RequestsInv
    <3> QED BY <3>1, InFlightFinite, FS_Subset, FS_CardinalityType
  <2> QED BY <2>1, InFlightFinite, RequestsAssumption, LockoutAssumption,
             FS_CardinalityType DEF LockInv
<1> QED BY <1>1, <1>2, <1>3

\* Writing the hashes back less a code keeps the account of them, or marks it stale.
LEMMA ConsumeKeepsBackup ==
  ASSUME BackupInv, NEW seen \in SUBSET shown, NEW code, ConsumeBackupCode(seen, code)
  PROVE  BackupInv'
<1> USE DEF BackupInv, ConsumeBackupCode, SetHashes
<1>1. code \in shown /\ code \in BackupCodeSet /\ shown' = shown /\ hashes' \subseteq shown
  BY DEF BackupTypes
<1>2. paid' \in [BackupCodeSet -> Nat] /\ staleHashes' \in BOOLEAN
  BY <1>1 DEF BackupTypes
<1>3. \A b \in BackupCodeSet : paid'[b] = IF b = code THEN paid[b] + 1 ELSE paid[b]
  BY <1>1 DEF BackupTypes
<1>4. BackupCodesAccountedFor'
  <2>1. SUFFICES ASSUME ~staleHashes'
                 PROVE  /\ hashes' = {b \in shown' : paid'[b] = 0}
                        /\ \A b \in BackupCodeSet : paid'[b] <= 1
    BY DEF BackupCodesAccountedFor
  <2>2. ~staleHashes /\ hashes = seen
    BY <2>1
  <2>3. /\ seen = {b \in shown : paid[b] = 0}
        /\ \A b \in BackupCodeSet : paid[b] <= 1
    BY <2>2, Zenon DEF BackupCodesAccountedFor
  <2>4. hashes' = seen \ {code} /\ shown \subseteq BackupCodeSet /\ paid \in [BackupCodeSet -> Nat]
        /\ paid[code] = 0
    BY <2>3 DEF BackupTypes
  <2>5. \A b \in BackupCodeSet : paid'[b] <= 1
    BY <1>3, <2>3, <2>4
  <2>6. \A b \in shown : paid'[b] = 0 <=> b # code /\ paid[b] = 0
    BY <1>3, <2>4
  <2> QED BY <1>1, <2>3, <2>4, <2>5, <2>6
<1> QED BY <1>1, <1>2, <1>3, <1>4 DEF BackupTypes

LEMMA AddKeepsBackup ==
  ASSUME BackupInv, NEW seen \in SUBSET shown, NEW codes, AddBackupCodes(seen, codes)
  PROVE  BackupInv'
BY DEF BackupInv, BackupTypes, BackupCodesAccountedFor, AddBackupCodes, SetHashes

LEMMA StoreKeepsSms ==
  ASSUME SmsInv, NEW code, NEW expires \in Nat, StoreCode(code, expires, now)
  PROVE  SmsInv'
<1>1. challenge' \in [code : SmsCodes, expires : Nat] /\ challenge'.code = code
  BY DEF StoreCode
<1> QED BY <1>1, SmsAssumption DEF SmsInv, StoreCode, NewestCodeStands

LEMMA DeleteKeepsSms ==
  ASSUME SmsInv, NEW code, DeleteChallenge(code)
  PROVE  SmsInv'
BY DEF SmsInv, DeleteChallenge, NewestCodeStands

\* A login that makes one of its checks, whichever way it goes.
LEMMA CheckKeeps ==
  ASSUME IInv, NEW c \in InFlight, Proceed(c) \/ Fail(c), UNCHANGED <<now, factors>>,
         shown \subseteq shown', generated \subseteq generated'
  PROVE  LockInv' /\ RequestsInv'
<1>1. CASE Proceed(c)
  BY <1>1, ProceedKeeps
<1>2. CASE Fail(c)
  <2>1. c \in Requests /\ Finish(c)
    BY <1>2 DEF InFlight, Fail
  <2> QED BY <1>2, <2>1, FailKeepsLock, FailKeepsRequests
<1> QED BY <1>1, <1>2

LEMMA OthersKeep ==
  ASSUME IInv
  PROVE  /\ UNCHANGED backupVars => BackupInv' /\ shown \subseteq shown'
         /\ UNCHANGED smsVars => SmsInv' /\ generated \subseteq generated'
BY DEF IInv, backupVars, smsVars, BackupInv, BackupTypes, BackupCodesAccountedFor,
       SmsInv, NewestCodeStands

-----------------------------------------------------------------------------
(* Every step of Next keeps the invariant *)

LEMMA LoginBeginKeeps ==
  ASSUME IInv, NEW c \in Requests, LoginBegin(c)
  PROVE  IInv'
<1> PICK r : r = [Idle EXCEPT !.pc = "password", !.stage = "password"]
  OBVIOUS
<1>1. Continue(c, r) /\ UNCHANGED <<now, factors>>
  BY DEF LoginBegin
<1>2. Well(r)'
  BY DEF Well, Idle, Locals, LoginPcs
<1>3. BackupInv' /\ SmsInv' /\ shown \subseteq shown' /\ generated \subseteq generated'
  BY OthersKeep DEF LoginBegin
<1>4. RequestsInv'
  BY <1>1, <1>2, <1>3, ContinueKeepsRequests
<1>5. lock'.until = NoLock /\ lock' \in [count : 0 .. MaxAttempts, until : Nat \union {NoLock}]
      /\ guesses' = lock'.count /\ guesses' < MaxAttempts /\ guesses' \in Nat
  BY RequestsAssumption, LockoutAssumption
     DEF LoginBegin, IInv, LockInv, IsLocked, LockIsOver, Checked, NoEntry
<1>6. LockInv'
  BY <1>1, <1>5 DEF IInv, LockInv
<1> QED BY <1>3, <1>4, <1>6 DEF IInv

LEMMA ChecksKeep ==
  ASSUME IInv, NEW c \in Requests,
         \/ VerifyPassword(c) \/ VerifyTotpChallenge(c) \/ BackupVerified(c) \/ BackupRefused(c)
         \/ SmsConsume(c) \/ SmsExpire(c)
  PROVE  IInv'
<1>0. UNCHANGED <<now, factors>> /\ (Proceed(c) \/ Fail(c))
  BY DEF VerifyPassword, VerifyTotpChallenge, BackupVerified, BackupRefused, SmsConsume, SmsExpire
<1>1. c \in InFlight
  BY DEF InFlight, At, LoginPcs, VerifyPassword, VerifyTotpChallenge, BackupVerified,
         BackupRefused, SmsConsume, SmsExpire
<1>2. BackupInv' /\ shown \subseteq shown'
  <2>1. CASE UNCHANGED backupVars
    BY <2>1, OthersKeep
  <2>2. CASE BackupVerified(c)
    <3>1. PICK seen, code : seen = request[c].seen /\ code = request[c].backup
      OBVIOUS
    <3>2. seen \in SUBSET shown
      BY <3>1 DEF IInv, RequestsInv, Well
    <3>3. ConsumeBackupCode(seen, code)
      BY <2>2, <3>1 DEF BackupVerified
    <3> QED BY <3>2, <3>3, ConsumeKeepsBackup DEF IInv, ConsumeBackupCode
  <2> QED BY <2>1, <2>2 DEF VerifyPassword, VerifyTotpChallenge, BackupRefused, SmsConsume, SmsExpire
<1>3. SmsInv' /\ generated \subseteq generated'
  <2>1. CASE UNCHANGED smsVars
    BY <2>1, OthersKeep
  <2>2. CASE SmsConsume(c) \/ SmsExpire(c)
    <3>1. PICK code : code = request[c].sms
      OBVIOUS
    <3>2. DeleteChallenge(code)
      BY <2>2, <3>1 DEF SmsConsume, SmsExpire
    <3> QED BY <3>2, DeleteKeepsSms DEF IInv, DeleteChallenge
  <2> QED BY <2>1, <2>2 DEF VerifyPassword, VerifyTotpChallenge, BackupVerified, BackupRefused
<1> QED BY <1>0, <1>1, <1>2, <1>3, CheckKeeps DEF IInv

LEMMA SmsReadKeeps ==
  ASSUME IInv, NEW c \in Requests, SmsRead(c)
  PROVE  IInv'
<1>1. CASE Fail(c)
  <2>1. c \in InFlight
    BY DEF SmsRead, InFlight, At, LoginPcs
  <2>2. /\ BackupInv' /\ SmsInv' /\ shown \subseteq shown' /\ generated \subseteq generated'
        /\ UNCHANGED <<now, factors>>
    BY OthersKeep DEF SmsRead
  <2> QED BY <1>1, <2>1, <2>2, CheckKeeps DEF IInv
<1>2. CASE ~Fail(c)
  <2>1. PICK r : r = [request[c] EXCEPT !.sms = challenge.code,
                        !.pc = IF now > challenge.expires THEN "expire" ELSE "consume"]
    OBVIOUS
  <2>2. challenge # NULL /\ Continue(c, r) /\ UNCHANGED <<now, factors, lock, guesses, backupVars, smsVars>>
    BY <1>2, <2>1 DEF SmsRead, accountVars
  <2>3. Well(r)
    <3>1. request[c] \in Locals /\ Well(request[c]) /\ request[c].stage = "sms"
      BY DEF IInv, RequestsInv, SmsRead
    <3>2. challenge.code \in SmsCodes /\ challenge.code \in generated
      BY <2>2 DEF IInv, SmsInv
    <3> QED BY <2>1, <3>1, <3>2 DEF Well, Locals, LoginPcs
  <2>4. request[c].pc \in LoginPcs
    BY DEF SmsRead, At, LoginPcs
  <2> QED BY <2>2, <2>3, <2>4, LocalStep
<1> QED BY <1>1, <1>2

\* The steps that only change the locals of the request.
LEMMA LocalsKeep ==
  ASSUME IInv, NEW c \in Requests,
         \/ FactorRequired(c) \/ (\E code \in BackupCodeSet : BackupRead(c, code))
         \/ SendBegin(c) \/ SendDelivered(c) \/ SendFailed(c) \/ GenerateBegin(c) \/ Abort(c)
  PROVE  IInv'
<1>0. UNCHANGED <<now, factors, lock, guesses, backupVars, smsVars>>
  BY DEF FactorRequired, BackupRead, SendBegin, SendDelivered, SendFailed, GenerateBegin, Abort,
         accountVars
<1>1. request[c] \in Locals /\ Well(request[c])
  BY DEF IInv, RequestsInv
<1>2. \E r : Continue(c, r) /\ Well(r) /\ (r.pc \in LoginPcs => request[c].pc \in LoginPcs)
  <2>1. CASE FactorRequired(c) \/ SendDelivered(c) \/ Abort(c)
    <3>1. Continue(c, Idle)
      BY <2>1 DEF FactorRequired, SendDelivered, Abort, Finish
    <3> QED BY <3>1, IdleIsWell DEF Idle, LoginPcs
  <2>2. CASE \E code \in BackupCodeSet : BackupRead(c, code)
    <3>1. PICK code \in BackupCodeSet : BackupRead(c, code)
      BY <2>2
    <3>2. PICK r : r = [request[c] EXCEPT !.pc = "backup", !.seen = hashes, !.backup = code]
      OBVIOUS
    <3>3. hashes \subseteq shown /\ shown \subseteq BackupCodeSet
      BY DEF IInv, BackupInv, BackupTypes
    <3>4. request[c].pc = "factor" /\ Continue(c, r)
      BY <3>1, <3>2 DEF BackupRead, At
    <3>5. r \in Locals
      BY <1>1, <3>2, <3>3 DEF Locals, LoginPcs
    <3>6. r.pc = "backup" /\ r.seen = hashes /\ r.sms = request[c].sms /\ r.stage = request[c].stage
      BY <1>1, <3>2 DEF Locals
    <3>7. Well(r)
      BY <1>1, <3>3, <3>4, <3>5, <3>6 DEF Well, LoginPcs
    <3> QED BY <3>4, <3>7 DEF LoginPcs
  <2>3. CASE SendBegin(c)
    <3>1. PICK expires : expires = now + CodeLife
      OBVIOUS
    <3>2. PICK r : r = [Idle EXCEPT !.pc = "store", !.expires = expires]
      OBVIOUS
    <3>3. expires \in Nat
      BY <3>1, SmsAssumption, RequestsAssumption DEF IInv, LockInv
    <3>4. Well(r) /\ r.pc = "store"
      BY <3>2, <3>3 DEF Well, Idle, Locals, LoginPcs
    <3> QED BY <2>3, <3>1, <3>2, <3>4 DEF SendBegin, LoginPcs
  <2>4. CASE SendFailed(c)
    <3>1. PICK r : r = [request[c] EXCEPT !.pc = "undo"]
      OBVIOUS
    <3>2. Well(r) /\ r.pc = "undo"
      BY <1>1, <3>1 DEF Well, Locals, LoginPcs
    <3> QED BY <2>4, <3>1, <3>2 DEF SendFailed, LoginPcs
  <2>5. CASE GenerateBegin(c)
    <3>1. PICK r : r = [Idle EXCEPT !.pc = "generate", !.seen = hashes]
      OBVIOUS
    <3>2. hashes \subseteq shown /\ shown \subseteq BackupCodeSet
      BY DEF IInv, BackupInv, BackupTypes
    <3>3. Well(r) /\ r.pc = "generate"
      BY <3>1, <3>2 DEF Well, Idle, Locals, LoginPcs
    <3> QED BY <2>5, <3>1, <3>3 DEF GenerateBegin, LoginPcs
  <2> QED BY <2>1, <2>2, <2>3, <2>4, <2>5
<1> QED BY <1>0, <1>2, LocalStep

\* Storing, undoing and generating.
LEMMA StoresKeep ==
  ASSUME IInv, NEW c \in Requests, SendStore(c) \/ SendUndo(c) \/ GenerateStore(c)
  PROVE  IInv'
<1>0. UNCHANGED <<now, factors, lock, guesses>>
  BY DEF SendStore, SendUndo, GenerateStore, accountVars
<1>1. request[c] \in Locals /\ Well(request[c])
  BY DEF IInv, RequestsInv
<1>2. BackupInv' /\ shown \subseteq shown'
  <2>1. CASE UNCHANGED backupVars
    BY <2>1, OthersKeep
  <2>2. CASE GenerateStore(c)
    <3>1. PICK seen, codes : seen = request[c].seen /\ AddBackupCodes(seen, codes)
      BY <2>2 DEF GenerateStore
    <3> QED BY <1>1, <3>1, AddKeepsBackup DEF IInv, Well, AddBackupCodes
  <2> QED BY <2>1, <2>2 DEF SendStore, SendUndo
<1>3. SmsInv' /\ generated \subseteq generated'
  <2>1. CASE UNCHANGED smsVars
    BY <2>1, OthersKeep
  <2>2. CASE SendUndo(c)
    <3>1. PICK code : code = request[c].sms /\ DeleteChallenge(code)
      BY <2>2 DEF SendUndo
    <3> QED BY <3>1, DeleteKeepsSms DEF IInv, DeleteChallenge
  <2>3. CASE SendStore(c)
    <3>1. PICK code, expires : expires = request[c].expires /\ StoreCode(code, expires, now)
      BY <2>3 DEF SendStore
    <3> QED BY <1>1, <2>3, <3>1, StoreKeepsSms DEF IInv, StoreCode, Well, SendStore, At
  <2> QED BY <2>1, <2>2, <2>3 DEF GenerateStore
<1>4. PICK r : Continue(c, r) /\ Well(r)' /\ r.pc \notin LoginPcs
  <2>1. CASE SendUndo(c) \/ GenerateStore(c)
    <3>1. Continue(c, Idle)
      BY <2>1 DEF SendUndo, GenerateStore, Finish
    <3> QED BY <3>1 DEF Well, Idle, Locals, LoginPcs
  <2>2. CASE SendStore(c)
    <3>1. PICK code : /\ StoreCode(code, request[c].expires, now)
                      /\ Continue(c, [Idle EXCEPT !.pc = "sending", !.sms = code])
      BY <2>2 DEF SendStore
    <3>2. PICK r : r = [Idle EXCEPT !.pc = "sending", !.sms = code]
      OBVIOUS
    <3>3. code \in SmsCodes /\ code \in generated'
      BY <3>1 DEF StoreCode
    <3>4. Well(r)' /\ r.pc = "sending"
      BY <3>2, <3>3 DEF Well, Idle, Locals, LoginPcs
    <3> QED BY <3>1, <3>2, <3>4 DEF LoginPcs
  <2> QED BY <2>1, <2>2
<1>5. RequestsInv'
  BY <1>0, <1>2, <1>3, <1>4, ContinueKeepsRequests
<1>6. LockInv'
  <2>1. InFlight' = InFlight
    <3>1. request[c].pc \notin LoginPcs
      BY DEF SendStore, SendUndo, GenerateStore, At, LoginPcs
    <3> QED BY <1>4, <3>1 DEF InFlight, Continue, IInv, RequestsInv
  <2> QED BY <1>0, <2>1 DEF IInv, LockInv
<1> QED BY <1>2, <1>3, <1>5, <1>6 DEF IInv

LEMMA TickKeeps ==
  ASSUME IInv, Tick
  PROVE  IInv'
<1>1. UNCHANGED <<factors, lock, guesses, request, backupVars, smsVars>> /\ now' \in 0 .. MaxTime
  BY RequestsAssumption DEF Tick, accountVars, IInv, LockInv
<1>2. BackupInv' /\ SmsInv'
  BY <1>1, OthersKeep
<1>3. RequestsInv' /\ InFlight' = InFlight
  BY <1>1 DEF IInv, RequestsInv, Well, InFlight, backupVars, smsVars
<1>4. LockInv'
  BY <1>1, <1>3 DEF IInv, LockInv
<1> QED BY <1>2, <1>3, <1>4 DEF IInv

LEMMA InitIsGood ==
  ASSUME Init
  PROVE  IInv
<1>1. LockInv
  BY RequestsAssumption, LockoutAssumption DEF Init, LockInv, NoEntry
<1>2. BackupInv
  <2>1. BackupTypes
    BY DEF Init, BackupInit, BackupTypes
  <2>2. hashes = {} /\ shown = {} /\ paid = [code \in BackupCodeSet |-> 0]
    BY DEF Init, BackupInit
  <2>3. \A code \in BackupCodeSet : paid[code] = 0
    BY <2>2
  <2>4. BackupCodesAccountedFor
    BY <2>2, <2>3 DEF BackupCodesAccountedFor
  <2> QED BY <2>1, <2>3, <2>4 DEF BackupInv
<1>3. SmsInv
  BY DEF Init, SmsInit, SmsInv, NewestCodeStands
<1>4. RequestsInv
  <2>1. Idle \in Locals
    BY IdleIsWell DEF Well
  <2> QED BY <2>1, IdleIsWell DEF Init, RequestsInv
<1> QED BY <1>1, <1>2, <1>3, <1>4 DEF IInv

LEMMA StepKeeps ==
  ASSUME IInv, [Next]_vars
  PROVE  IInv'
<1>1. CASE Tick
  BY <1>1, TickKeeps
<1>2. ASSUME NEW c \in Requests, Serve(c) \/ Abort(c)
      PROVE  IInv'
  BY <1>2, LoginBeginKeeps, ChecksKeep, SmsReadKeeps, LocalsKeep, StoresKeep DEF Serve
<1>3. CASE UNCHANGED vars
  <2>1. BackupInv' /\ SmsInv'
    BY <1>3, OthersKeep DEF vars
  <2>2. RequestsInv' /\ LockInv'
    BY <1>3 DEF IInv, RequestsInv, Well, LockInv, InFlight, vars, accountVars, backupVars, smsVars
  <2> QED BY <2>1, <2>2 DEF IInv
<1> QED BY <1>1, <1>2, <1>3 DEF Next

LEMMA Invariance == Spec => []IInv
BY InitIsGood, StepKeeps, PTL DEF Spec

-----------------------------------------------------------------------------
(* The theorems *)

\* The stores, the lockout's entry and the locals of every request keep their
\* types, whatever number of logins is in flight.
THEOREM TypeCorrect == Spec => []TypeOK
<1>1. IInv => TypeOK
  <2> SUFFICES ASSUME IInv PROVE TypeOK
    OBVIOUS
  <2>1. BackupTypes /\ SmsTypes
    BY DEF IInv, BackupInv, SmsInv, SmsTypes
  <2>2. ASSUME NEW c \in Requests
        PROVE  /\ request[c].seen \subseteq shown
               /\ request[c].sms \in generated \union {NULL}
               /\ request[c].backup \in BackupCodeSet \union {NULL}
    BY DEF IInv, RequestsInv, Well, Locals
  <2> QED BY <2>1, <2>2 DEF IInv, LockInv, RequestsInv, TypeOK
<1> QED BY <1>1, Invariance, PTL

\* Overlapping logins that check the lock before they await get at most one
\* wrong guess each past maxAttempts.
THEOREM Guesses == Spec => []GuessesPerLock
<1>1. IInv => GuessesPerLock
  <2>1. SUFFICES ASSUME IInv, lock.until = NoLock PROVE GuessesPerLock
    BY InFlightFinite, LockoutAssumption DEF IInv, LockInv, GuessesPerLock
  <2> QED BY <2>1, InFlightFinite, LockoutAssumption DEF IInv, LockInv, GuessesPerLock
<1> QED BY <1>1, Invariance, PTL

\* The codes in the store are those shown and unused, and none passes twice,
\* as long as no request has written over hashes it had not read.
THEOREM BackupCodesKept == Spec => []BackupCodesAccountedFor
<1>1. IInv => BackupCodesAccountedFor
  BY DEF IInv, BackupInv
<1> QED BY <1>1, Invariance, PTL

\* Only a request that holds an older code can take the newest one away early.
THEOREM NewestCode == Spec => []NewestCodeStands
<1>1. IInv => NewestCodeStands
  BY DEF IInv, SmsInv
<1> QED BY <1>1, Invariance, PTL

\* A lock is neither extended nor cut short by the failures that come in late.
THEOREM LockStays == Spec => LockKeepsItsTime
<1>1. ASSUME IInv, [Next]_vars PROVE [IsLocked(lock, now) => lock' \in {lock, NoEntry}]_vars
  <2>1. SUFFICES ASSUME Next, IsLocked(lock, now) PROVE lock' \in {lock, NoEntry}
    BY <1>1
  <2>2. CASE UNCHANGED lock
    BY <2>2
  <2>3. ASSUME NEW c \in Requests, LoginBegin(c) \/ Proceed(c) \/ Fail(c)
        PROVE  lock' \in {lock, NoEntry}
    BY <2>1, <2>3 DEF LoginBegin, Proceed, Fail, FailureRecorded, accountVars
  <2> QED BY <2>1, <2>2, <2>3 DEF Next, Serve, Tick, Abort, VerifyPassword, FactorRequired,
        VerifyTotpChallenge, BackupRead, BackupVerified, BackupRefused, SmsRead, SmsConsume,
        SmsExpire, SendBegin, SendStore, SendDelivered, SendFailed, SendUndo, GenerateBegin,
        GenerateStore, accountVars
<1> QED BY <1>1, Invariance, PTL DEF Spec, LockKeepsItsTime
=============================================================================
