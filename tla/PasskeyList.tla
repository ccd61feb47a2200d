----------------------------- MODULE PasskeyList -----------------------------
(***************************************************************************)
(* The hook of the browser that lists a user's passkeys, over the requests *)
(* of passkey-client.ts.  A call of the hook is a slot of HookCalls, and   *)
(* may overlap the others.  A request is answered in any order, or fails   *)
(* before or after the server acted on it; one that failed is not acted on *)
(* later, and nobody else changes the account.                             *)
(***************************************************************************)
EXTENDS Naturals, FiniteSets

CONSTANTS
  HookKeys,   \* bound: the credentials ever made
  HookCalls,  \* bound: calls of the hook in flight
  MaxLists    \* bound on the lists asked for

ASSUME HookAssumption == MaxLists \in Nat

VARIABLES
  account,        \* the keys the server stores
  madeKeys,       \* the credentials the browser ever created
  shown, loading, failed, \* the hook's passkeys, loading and error # null
  sent, applied,  \* lists asked for, and the last one that was applied (history)
  hookCall        \* the calls of the hook, with the answer once there is one

hookState == <<shown, loading, failed>>
hookVars == <<account, madeKeys, hookState, sent, applied, hookCall>>

Resting == [pc |-> "idle"]
Waiting == [at |-> "server"]                 \* the request, before the server acts
Answered(v) == [at |-> "browser", ok |-> TRUE, value |-> v]
Failed == [at |-> "browser", ok |-> FALSE]

HookInit ==
  /\ account \in SUBSET HookKeys /\ madeKeys = account
  /\ shown = {} /\ loading = TRUE /\ failed = FALSE
  /\ sent = 0 /\ applied = 0
  /\ hookCall = [c \in HookCalls |-> Resting]

HookAt(c, pc) == hookCall[c].pc = pc
HookGoesOn(c, locals) == hookCall' = [hookCall EXCEPT ![c] = locals]
HasAnswer(c) == hookCall[c].req.at = "browser"
Asking(pc, k) == [pc |-> pc, key |-> k, req |-> Waiting]

-----------------------------------------------------------------------------
(* The server's side of a request: list, finish, revoke *)

\* The server acts and answers, or its answer is lost.
Serve(c) ==
  LET call == hookCall[c]
  IN  /\ ~HookAt(c, "idle") /\ call.req = Waiting
      /\ account' = CASE HookAt(c, "finish") -> account \union {call.key}
                      [] HookAt(c, "revoke") -> account \ {call.key}
                      [] OTHER -> account
      /\ \E answer \in {Answered(account), Failed} :
           hookCall' = [hookCall EXCEPT ![c].req = answer]
      /\ UNCHANGED <<madeKeys, hookState, sent, applied>>

\* The request never arrives, or is refused.
Refuse(c) ==
  /\ ~HookAt(c, "idle") /\ hookCall[c].req = Waiting
  /\ hookCall' = [hookCall EXCEPT ![c].req = Failed]
  /\ UNCHANGED <<account, madeKeys, hookState, sent, applied>>

-----------------------------------------------------------------------------
(* The calls of the hook *)

Reload(c) ==
  /\ sent < MaxLists
  /\ sent' = sent + 1
  /\ loading' = TRUE /\ failed' = FALSE
  /\ HookGoesOn(c, [pc |-> "list", nth |-> sent + 1, req |-> Waiting])

\* Also what the hook does when it is first used.
ReloadBegin(c) ==
  /\ HookAt(c, "idle")
  /\ Reload(c)
  /\ UNCHANGED <<account, madeKeys, shown, applied>>

ReloadEnd(c) ==
  LET call == hookCall[c]
  IN  /\ HookAt(c, "list") /\ HasAnswer(c)
      /\ IF call.req.ok
         THEN shown' = call.req.value /\ failed' = failed
         ELSE shown' = {} /\ failed' = TRUE
      /\ loading' = FALSE
      /\ applied' = call.nth
      /\ HookGoesOn(c, Resting)
      /\ UNCHANGED <<account, madeKeys, sent>>

\* addPasskey: the request for the creation options.
AddBegin(c) ==
  /\ HookAt(c, "idle")
  /\ failed' = FALSE
  /\ HookGoesOn(c, [pc |-> "options", req |-> Waiting])
  /\ UNCHANGED <<account, madeKeys, shown, loading, sent, applied>>

\* navigator.credentials.create, and the request to finish.
AddCreate(c, k) ==
  /\ HookAt(c, "options") /\ HasAnswer(c) /\ hookCall[c].req.ok
  /\ k \notin madeKeys
  /\ madeKeys' = madeKeys \union {k}
  /\ HookGoesOn(c, Asking("finish", k))
  /\ UNCHANGED <<account, hookState, sent, applied>>

RevokeBegin(c, k) ==
  /\ HookAt(c, "idle")
  /\ k \in shown
  /\ failed' = FALSE
  /\ HookGoesOn(c, Asking("revoke", k))
  /\ UNCHANGED <<account, madeKeys, shown, loading, sent, applied>>

\* A plausible bug: the list is not asked for again.
ChangeEndUnseen(c) ==
  /\ hookCall[c].pc \in {"finish", "revoke"} /\ HasAnswer(c) /\ hookCall[c].req.ok
  /\ HookGoesOn(c, Resting)
  /\ UNCHANGED <<account, madeKeys, hookState, sent, applied>>

\* The change was made: the same call goes on as a reload.
ChangeEnd(c) ==
  /\ hookCall[c].pc \in {"finish", "revoke"} /\ HasAnswer(c) /\ hookCall[c].req.ok
  /\ Reload(c)
  /\ UNCHANGED <<account, madeKeys, shown, applied>>

\* The answer is an error, or the user cancels: the error is shown, the list stays.
ChangeFail(c) ==
  /\ hookCall[c].pc \in {"options", "finish", "revoke"} /\ HasAnswer(c)
  /\ ~hookCall[c].req.ok \/ HookAt(c, "options")
  /\ failed' = TRUE
  /\ HookGoesOn(c, Resting)
  /\ UNCHANGED <<account, madeKeys, shown, loading, sent, applied>>

HookNext ==
  \E c \in HookCalls :
    \/ Serve(c) \/ Refuse(c)
    \/ ReloadBegin(c) \/ ReloadEnd(c)
    \/ AddBegin(c) \/ ChangeEnd(c) \/ ChangeFail(c)
    \/ \E k \in HookKeys : AddCreate(c, k) \/ RevokeBegin(c, k)

HookSpec == HookInit /\ [][HookNext]_hookVars

-----------------------------------------------------------------------------
(* Correctness *)

\* The hook's state, its calls and the account keep their types.
HookTypes ==
  /\ account \subseteq madeKeys /\ madeKeys \subseteq HookKeys
  /\ shown \subseteq HookKeys /\ loading \in BOOLEAN /\ failed \in BOOLEAN
  /\ sent \in 0 .. MaxLists /\ applied \in 0 .. sent
  /\ \A c \in HookCalls :
       hookCall[c].pc \in {"idle", "list", "options", "finish", "revoke"}

\* However the calls of the hook overlapped, and whatever failed: once nothing is
\* in flight and no error is shown, the page shows the keys of the account, if the
\* list asked for last is the one that was applied last.
ListSettles ==
  /\ \A c \in HookCalls : HookAt(c, "idle")
  /\ ~loading /\ ~failed
  /\ applied = sent
  => shown = account
=============================================================================
