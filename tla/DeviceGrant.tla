---------------------------- MODULE DeviceGrant ----------------------------
(***************************************************************************)
(* What a device code promises: it is asked for once, decided once, and a  *)
(* code that was approved yields one token, for the user who approved it   *)
(* and the client that asked.                                              *)
(***************************************************************************)
CONSTANTS Devices, Clients, Subs, NULL

VARIABLES
  grant,   \* device code -> [phase, client, sub]
  tokens   \* tokens handed out

vars == <<grant, tokens>>

Unasked == [phase |-> "unasked", client |-> NULL, sub |-> NULL]
Closed == [phase |-> "closed", client |-> NULL, sub |-> NULL]

Init ==
  /\ grant = [d \in Devices |-> Unasked]
  /\ tokens = {}

Ask(d, client) ==
  /\ grant[d].phase = "unasked"
  /\ grant' = [grant EXCEPT ![d] = [phase |-> "open", client |-> client, sub |-> NULL]]
  /\ UNCHANGED tokens

Approve(d, sub) ==
  /\ grant[d].phase = "open"
  /\ grant' = [grant EXCEPT
                 ![d] = [phase |-> "approved", client |-> @.client, sub |-> sub]]
  /\ UNCHANGED tokens

Deny(d) ==
  /\ grant[d].phase = "open"
  /\ grant' = [grant EXCEPT ![d].phase = "denied"]
  /\ UNCHANGED tokens

\* The code ran out, or the denial was reported.
Close(d) ==
  /\ grant[d].phase \in {"open", "approved", "denied"}
  /\ grant' = [grant EXCEPT ![d] = Closed]
  /\ UNCHANGED tokens

Issue(d) ==
  /\ grant[d].phase = "approved"
  /\ grant' = [grant EXCEPT ![d] = Closed]
  /\ tokens' = tokens \union
       {[device |-> d, client |-> grant[d].client, sub |-> grant[d].sub]}

Next ==
  \E d \in Devices :
    \/ \E client \in Clients : Ask(d, client)
    \/ \E sub \in Subs : Approve(d, sub)
    \/ Deny(d)
    \/ Close(d)
    \/ Issue(d)

Spec == Init /\ [][Next]_vars
=============================================================================
