---------------------------- MODULE SmsChallenge ----------------------------
(***************************************************************************)
(* The challenge store of sms-mfa.ts for one user, and its limit on codes  *)
(* sent; sms-otp.ts and phone-verification.ts have the same store under    *)
(* another key.  At most one code is stored; deleting deletes whatever is. *)
(***************************************************************************)
EXTENDS Naturals, Sequences

CONSTANTS
  SmsCodes,    \* bound: the codes that are ever generated, all different
  CodeLife,    \* ttlMs, in ticks
  SendWindow,  \* RATE_LIMIT_WINDOW_MS, in ticks
  SendMax,     \* RATE_LIMIT_MAX
  NULL

ASSUME SmsAssumption ==
  /\ CodeLife \in Nat /\ SendWindow \in Nat \ {0} /\ SendMax \in Nat \ {0}
  /\ NULL \notin SmsCodes /\ NULL \notin [code : SmsCodes, expires : Nat]

VARIABLES
  challenge,   \* [code, expires], or NULL
  sends,       \* when codes were sent, as the rate limiter keeps it
  generated,   \* codes ever stored (history)
  newest,      \* the code stored last, until it is used, expires or is undone (history)
  staleDelete  \* whether a request deleted a code it had neither read nor stored (history)

smsVars == <<challenge, sends, generated, newest, staleDelete>>

SmsInit ==
  /\ challenge = NULL
  /\ sends = <<>>
  /\ generated = {}
  /\ newest = NULL
  /\ staleDelete = FALSE

Recent(now) == SelectSeq(sends, LAMBDA t : t + SendWindow > now)
MaySend(now) == Len(Recent(now)) < SendMax

\* A plausible bug: a code that still stands is kept, and another one is sent.
StoreKeepsStanding(code, expires, now) ==
  /\ code \in SmsCodes \ generated
  /\ challenge' = IF challenge = NULL THEN [code |-> code, expires |-> expires] ELSE challenge
  /\ sends' = Append(Recent(now), now)
  /\ generated' = generated \union {code}
  /\ newest' = code
  /\ UNCHANGED staleDelete

\* challengeStore.set, then challengeRateLimiter.record.
StoreCode(code, expires, now) ==
  /\ code \in SmsCodes \ generated
  /\ challenge' = [code |-> code, expires |-> expires]
  /\ sends' = Append(Recent(now), now)
  /\ generated' = generated \union {code}
  /\ newest' = code
  /\ UNCHANGED staleDelete

\* challengeStore.delete by a request that has to do with this code.
DeleteChallenge(code) ==
  /\ challenge' = NULL
  /\ newest' = IF newest = code THEN NULL ELSE newest
  /\ staleDelete' = (staleDelete \/ (challenge # NULL /\ challenge.code # code))
  /\ UNCHANGED <<sends, generated>>

SmsTypes ==
  /\ challenge \in [code : generated, expires : Nat] \union {NULL}
  /\ generated \subseteq SmsCodes
  /\ newest \in generated \union {NULL}
  /\ staleDelete \in BOOLEAN
=============================================================================
