-------------------------- MODULE SessionLifecycle --------------------------
(***************************************************************************)
(* What session management promises, with no requests, store or registry:  *)
(* a session is opened once, renewed while active and closed for good; it  *)
(* answers to one credential at a time, and a credential serves once.      *)
(***************************************************************************)
CONSTANTS SessionIds, Tokens, NULL

VARIABLES
  status,  \* session -> "absent", "active" or "closed"
  live,    \* session -> the credential that renews it, or NULL
  issued   \* every credential ever put in service

vars == <<status, live, issued>>

Init ==
  /\ status = [s \in SessionIds |-> "absent"]
  /\ live = [s \in SessionIds |-> NULL]
  /\ issued = {}

Open(s, tok) ==
  /\ status[s] = "absent"
  /\ tok \notin issued
  /\ status' = [status EXCEPT ![s] = "active"]
  /\ live' = [live EXCEPT ![s] = tok]
  /\ issued' = issued \union {tok}

Renew(s, tok) ==
  /\ status[s] = "active"
  /\ tok \notin issued
  /\ live' = [live EXCEPT ![s] = tok]
  /\ issued' = issued \union {tok}
  /\ UNCHANGED status

\* A renewal overtaken by the end of its session: its credential is stillborn.
Waste(tok) ==
  /\ tok \notin issued
  /\ issued' = issued \union {tok}
  /\ UNCHANGED <<status, live>>

Close(S) ==
  /\ \A s \in S : status[s] = "active"
  /\ status' = [s \in SessionIds |-> IF s \in S THEN "closed" ELSE status[s]]
  /\ live' = [s \in SessionIds |-> IF s \in S THEN NULL ELSE live[s]]
  /\ UNCHANGED issued

Next ==
  \/ \E s \in SessionIds, tok \in Tokens : Open(s, tok) \/ Renew(s, tok)
  \/ \E tok \in Tokens : Waste(tok)
  \/ \E S \in SUBSET SessionIds : Close(S)

Spec == Init /\ [][Next]_vars
=============================================================================
