--------------------------- MODULE SingleUseToken ---------------------------
(***************************************************************************)
(* The signed single-use links: magic-link.ts, password-reset.ts,          *)
(* email-verification.ts and double-opt-in.ts sign an expiry in whole      *)
(* seconds, and remember a redeemed token in a map that forgets it at that *)
(* second.  The four copies of the code are the same; the flows that       *)
(* redeem a token then do their own asynchronous work.  Each kind of link  *)
(* has a store of its own; as a jti is never drawn twice, one map stands   *)
(* for the four.                                                           *)
(*                                                                         *)
(* The signature and payload checks of a token that the server did not     *)
(* sign are left out: they change nothing.                                 *)
(***************************************************************************)
EXTENDS Runtime, Maps

CONSTANTS
  Tokens,    \* bound: the tokens that may be signed, by their jti
  Calls,     \* bound: flows in progress
  Ttl,       \* ttlMs
  MaxRedemptions  \* bound on how often one token is accepted

ASSUME LinkAssumption ==
  /\ {Ttl, MaxRedemptions} \subseteq Nat
  /\ NULL \notin Tokens \X Nat

VARIABLES
  tokens,      \* signed token -> its kind and claims: exp (seconds), device-bound or not
  used,        \* the store of used tokens: jti -> expiry in ticks
  call,        \* flow -> the redemption it is acting on
  redemptions, \* token -> how often it was accepted (history)
  acted        \* redemptions, as <<token, number>>, that had their effect (history)

linkVars == <<tokens, used, call, redemptions, acted>>

LinkInit ==
  /\ tokens = EmptyMap
  /\ used = EmptyMap
  /\ call = [c \in Calls |-> NULL]
  /\ redemptions = [t \in Tokens |-> 0]
  /\ acted = {}

\* What is signed and mailed: the expiry is rounded down.
SignLink(t, kind, bound) ==
  /\ t \notin DOMAIN tokens
  /\ tokens' = MapSet(tokens, t,
                 [kind |-> kind, exp |-> (now + Ttl) \div Second, bound |-> bound])
  /\ UNCHANGED <<now, used, call, redemptions, acted>>

\* Only a link that signs in may be bound to the device it was asked for from.
CreateMagicLinkToken(t, bound) == SignLink(t, "magicLink", bound)
CreatePasswordResetToken(t) == SignLink(t, "passwordReset", FALSE)
CreateEmailVerificationToken(t) == SignLink(t, "emailVerification", FALSE)
CreateConfirmationToken(t) == SignLink(t, "confirmation", FALSE)

\* The flows that ask for a link.  It is good even if the mail could not be sent, and
\* nothing happens where the address has no user.
RequestMagicLink(t, bound) == CreateMagicLinkToken(t, bound)
RequestPasswordReset(t) == CreatePasswordResetToken(t)
SendEmailVerification(t) == CreateEmailVerificationToken(t)

Unexpired(t) == tokens[t].exp >= now \div Second

\* A plausible bug: the entry is dropped as soon as its second begins.
IsUsedRounded(t) == t \in DOMAIN used /\ used[t] \div Second > now \div Second

\* isUsed: an entry past its expiry is dropped, and counts as absent.
IsUsed(t) == t \in DOMAIN used /\ used[t] >= now

Purged(t) == IF IsUsed(t) THEN used ELSE MapDelete(used, {t})

\* verifyMagicLinkToken for a link bound to a device that the caller is not on: the
\* device is checked before the token is spent.
RedeemElsewhere(t) ==
  /\ tokens[t].bound
  /\ Unexpired(t)
  /\ ~IsUsed(t)
  /\ used' = Purged(t)
  /\ UNCHANGED <<now, tokens, call, redemptions, acted>>

\* verify...Token: the token is spent before anything else is known.
Spend(t, kind) ==
  /\ tokens[t].kind = kind
  /\ Unexpired(t)
  /\ ~IsUsed(t)
  /\ redemptions[t] < MaxRedemptions
  /\ used' = MapSet(Purged(t), t, tokens[t].exp * Second)
  /\ redemptions' = [redemptions EXCEPT ![t] = @ + 1]
  /\ UNCHANGED <<now, tokens, acted>>

\* ... and the flow goes on to its own asynchronous work.
Redeem(c, t, kind) ==
  /\ call[c] = NULL
  /\ Spend(t, kind)
  /\ call' = [call EXCEPT ![c] = <<t, redemptions[t] + 1>>]

VerifyMagicLinkToken(c, t) == Redeem(c, t, "magicLink")
VerifyPasswordResetToken(c, t) == Redeem(c, t, "passwordReset")
VerifyEmailVerificationToken(c, t) == Redeem(c, t, "emailVerification")
VerifyConfirmationToken(c, t) == Redeem(c, t, "confirmation")

\* requireConfirmationForSensitiveOperation: the token is right, but of another
\* user, address or operation.  It is spent all the same.
ConfirmationMismatch(t) ==
  /\ Spend(t, "confirmation")
  /\ UNCHANGED call

\* A flow has its effect, or ends without it, the token staying spent.
Ends(c, kind, effect) ==
  /\ call[c] # NULL /\ tokens[call[c][1]].kind = kind
  /\ acted' = acted \union effect
  /\ call' = [call EXCEPT ![c] = NULL]
  /\ UNCHANGED <<now, tokens, used, redemptions>>

\* The user is signed in, or not found by the address.
VerifyMagicLink(c) == Ends(c, "magicLink", {call[c]}) \/ Ends(c, "magicLink", {})

\* The new password is refused, or hashed and written, or the write fails.
ResetPasswordWithToken(c) == Ends(c, "passwordReset", {call[c]}) \/ Ends(c, "passwordReset", {})

\* setEmailVerified resolves or rejects.
VerifyEmailWithToken(c) ==
  Ends(c, "emailVerification", {call[c]}) \/ Ends(c, "emailVerification", {})

\* The confirmed operation runs or rejects.
ExecuteSensitiveOperation(c) == Ends(c, "confirmation", {call[c]}) \/ Ends(c, "confirmation", {})

LinkNext ==
  \/ \E t \in Tokens :
       \/ \E bound \in BOOLEAN : RequestMagicLink(t, bound)
       \/ RequestPasswordReset(t)
       \/ SendEmailVerification(t)
       \/ CreateConfirmationToken(t)
  \/ \E t \in DOMAIN tokens : RedeemElsewhere(t) \/ ConfirmationMismatch(t)
  \/ \E c \in Calls, t \in DOMAIN tokens :
       \/ VerifyMagicLinkToken(c, t)
       \/ VerifyPasswordResetToken(c, t)
       \/ VerifyEmailVerificationToken(c, t)
       \/ VerifyConfirmationToken(c, t)
  \/ \E c \in Calls :
       \/ VerifyMagicLink(c)
       \/ ResetPasswordWithToken(c)
       \/ VerifyEmailWithToken(c)
       \/ ExecuteSensitiveOperation(c)
  \/ Tick /\ UNCHANGED linkVars

LinkSpec == now = 0 /\ LinkInit /\ [][LinkNext]_<<now, linkVars>>

-----------------------------------------------------------------------------
(* Correctness *)

Kinds == {"magicLink", "passwordReset", "emailVerification", "confirmation"}

\* Clock, claims, the store of used tokens and the histories keep their types;
\* an expiry is a second no later than the one the longest-lived link ends in.
LinkTypes ==
  /\ now \in 0 .. MaxTime
  /\ tokens \in [DOMAIN tokens ->
                  [kind : Kinds, exp : 0 .. (MaxTime + Ttl) \div Second, bound : BOOLEAN]]
  /\ DOMAIN used \subseteq DOMAIN tokens /\ DOMAIN tokens \subseteq Tokens
  /\ used \in [DOMAIN used -> Nat]
  /\ call \in [Calls -> (Tokens \X Nat) \union {NULL}]
  /\ redemptions \in [Tokens -> 0 .. MaxRedemptions]
  /\ acted \subseteq Tokens \X Nat

\* Until its expiry second has begun, a link has one effect at most, even if it
\* is presented again while the first flow waits for its own work, or after the
\* flow failed: the used-token store remembers it as long as it can be accepted.
OneEffectBeforeExpiry ==
  \A t \in DOMAIN tokens : now <= tokens[t].exp * Second =>
    \A i, j \in acted : i[1] = t /\ j[1] = t => i = j

-----------------------------------------------------------------------------
(* What the documentation says, and the code does not do *)

\* "Single-use: Token invalidated after use".
SingleUse == \A i, j \in acted : i[1] = j[1] => i = j
=============================================================================
