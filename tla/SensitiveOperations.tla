------------------------ MODULE SensitiveOperations ------------------------
(***************************************************************************)
(* The mail that confirms a sensitive operation of one user:               *)
(* sensitive-operations-flow.ts under resend-policy.ts.  A request checks  *)
(* the policy, sends and waits, and then records that it sent; another may *)
(* run in between.  The link of the mail is a token of SingleUseToken.     *)
(***************************************************************************)
EXTENDS Runtime, Sequences, FiniteSets, Maps

CONSTANTS
  Operations,  \* SENSITIVE_OPERATIONS
  Requests,    \* bound: requests in flight
  ResendBase, ResendMax, \* baseDelayMs, maxDelayMs
  MaxMails     \* bound on the mails of one operation

ASSUME ResendAssumption ==
  /\ ResendBase \in Nat \ {0} /\ ResendMax \in Nat /\ ResendMax >= ResendBase
  /\ MaxMails \in Nat /\ IsFiniteSet(Requests)

VARIABLES
  resends, \* ResendPolicyStore: operation -> when a mail was recorded last, and how many
  mails,   \* operation -> when its mails were sent (history)
  request  \* the operation a request is sending the mail of, or recording; or idle

resendVars == <<resends, mails, request>>

NoMail == [pc |-> "idle"]

ResendInit ==
  /\ resends = EmptyMap
  /\ mails = [o \in Operations |-> <<>>]
  /\ request = [r \in Requests |-> NoMail]

\* delayMsForCount
ResendDelay(count) ==
  LET doubled == ResendBase * 2 ^ (count - 1)
  IN  IF doubled > ResendMax THEN ResendMax ELSE doubled

\* A plausible bug: the delay of the first mail is none.
CheckResendFromSecond(o) ==
  o \in DOMAIN resends /\ resends[o].count > 1 =>
    now >= resends[o].lastSentAt + ResendDelay(resends[o].count)

\* checkResend
CheckResend(o) ==
  o \in DOMAIN resends =>
    now >= resends[o].lastSentAt + ResendDelay(resends[o].count)

\* requestSensitiveOperation up to sendEmail
RequestConfirmation(r, o) ==
  /\ request[r] = NoMail
  /\ CheckResend(o)
  /\ request' = [request EXCEPT ![r] = [pc |-> "send", operation |-> o]]
  /\ UNCHANGED <<now, resends, mails>>

\* sendEmail or fallbackSendEmail delivers.
SendMail(r) ==
  LET o == request[r].operation
  IN  /\ request[r].pc = "send" /\ Len(mails[o]) < MaxMails
      /\ mails' = [mails EXCEPT ![o] = Append(@, now)]
      /\ request' = [request EXCEPT ![r].pc = "record"]
      /\ UNCHANGED <<now, resends>>

\* Both reject: nothing is recorded.
SendFails(r) ==
  /\ request[r].pc = "send"
  /\ request' = [request EXCEPT ![r] = NoMail]
  /\ UNCHANGED <<now, resends, mails>>

\* recordResend, when the answer of the mail server has come
RecordResend(r) ==
  LET o == request[r].operation
      count == IF o \in DOMAIN resends THEN resends[o].count + 1 ELSE 1
  IN  /\ request[r].pc = "record"
      /\ resends' = MapSet(resends, o, [lastSentAt |-> now, count |-> count])
      /\ request' = [request EXCEPT ![r] = NoMail]
      /\ UNCHANGED <<now, mails>>

ResendNext ==
  \/ \E r \in Requests :
       \/ \E o \in Operations : RequestConfirmation(r, o)
       \/ SendMail(r) \/ SendFails(r) \/ RecordResend(r)
  \/ Tick /\ UNCHANGED resendVars

ResendSpec == now = 0 /\ ResendInit /\ [][ResendNext]_<<now, resendVars>>

-----------------------------------------------------------------------------
(* Correctness *)

\* The store, the history and the requests keep their types.
ResendTypes ==
  /\ DOMAIN resends \subseteq Operations
  /\ \A o \in DOMAIN resends :
       resends[o] \in [lastSentAt : 0 .. MaxTime, count : 1 .. MaxMails]
  /\ mails \in [Operations -> Seq(0 .. MaxTime)]
  /\ request \in [Requests ->
       {NoMail} \union [pc : {"send", "record"}, operation : Operations]]

\* Within the base delay one operation gets as many mails as there were requests
\* in flight at once, and no more: what is recorded after the wait for the mail
\* server stops every request that starts later.
MailsWithinOverlap ==
  \A o \in Operations : \A i, j \in DOMAIN mails[o] :
    i <= j /\ mails[o][j] - mails[o][i] < ResendBase => j - i < Cardinality(Requests)
=============================================================================
