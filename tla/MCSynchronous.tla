--------------------------- MODULE MCSynchronous ---------------------------
(***************************************************************************)
(* The synchronous components on small sets.  They share the process and   *)
(* its clock and none of each other's state, so a behaviour follows one of *)
(* them, the others staying as they started.                               *)
(***************************************************************************)
EXTENDS ConcurrentSessionLimit, SingleUseToken, DeviceAuthorization, TokenEndpoint,
        AttemptWindows, SensitiveOperations, TLC

CONSTANTS
  Shut,                 \* an organization that allows no session
  DeviceTime, LinkTime  \* bounds on the clock where MaxTime is more than is needed

TwoOrNone == [o \in Orgs |-> IF o = Shut THEN 0 ELSE 2]

VARIABLE focus

vars == <<now, limiterVars, linkVars, deviceVars, tokenVars, windowVars, resendVars, focus>>

Init ==
  /\ now = 0
  /\ LimiterInit /\ LinkInit /\ DeviceInit /\ TokenInit /\ WindowInit /\ ResendInit
  /\ focus \in {"limiter", "links", "devices", "tokens", "attempts", "mails"}
  /\ focus # "tokens" => settings = [secret |-> "own", rotate |-> FALSE]
  /\ focus # "attempts" => counter = "window"

LimiterStep ==
  /\ focus = "limiter" /\ LimiterNext
  /\ UNCHANGED <<now, linkVars, deviceVars, tokenVars, windowVars, resendVars, focus>>

LinkStep ==
  /\ focus = "links" /\ LinkNext /\ now' <= LinkTime
  /\ UNCHANGED <<limiterVars, deviceVars, tokenVars, windowVars, resendVars, focus>>

DeviceStep ==
  /\ focus = "devices" /\ DeviceNext /\ now' <= DeviceTime
  /\ UNCHANGED <<limiterVars, linkVars, tokenVars, windowVars, resendVars, focus>>

TokenStep ==
  /\ focus = "tokens" /\ TokenNext
  /\ UNCHANGED <<limiterVars, linkVars, deviceVars, windowVars, resendVars, focus>>

AttemptStep ==
  /\ focus = "attempts" /\ WindowNext
  /\ UNCHANGED <<limiterVars, linkVars, deviceVars, tokenVars, resendVars, focus>>

MailStep ==
  /\ focus = "mails" /\ ResendNext
  /\ UNCHANGED <<limiterVars, linkVars, deviceVars, tokenVars, windowVars, focus>>

Next == LimiterStep \/ LinkStep \/ DeviceStep \/ TokenStep \/ AttemptStep \/ MailStep

Spec == Init /\ [][Next]_vars

\* The types of the component a behaviour follows.
TypeOK ==
  CASE focus = "limiter" -> LimiterTypes
    [] focus = "links" -> LinkTypes
    [] focus = "devices" -> DeviceTypes
    [] focus = "tokens" -> TokenTypes
    [] focus = "attempts" -> WindowTypes
    [] focus = "mails" -> ResendTypes

Symmetry ==
  Permutations(Devices) \union Permutations(UserCodes) \union Permutations(Users)
    \union Permutations(Requests)
=============================================================================
