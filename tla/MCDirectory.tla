----------------------------- MODULE MCDirectory -----------------------------
(***************************************************************************)
(* Directory on small sets, with the requests worth mixing.                *)
(***************************************************************************)
EXTENDS Directory, TLC

CONSTANTS u1, u2, u3, g1, g2, e1, e2, e3, x1, x2, y1, y2

Nothing == [kind |-> "push", target |-> NULL, email |-> NULL, externalId |-> NULL, active |-> NULL,
            members |-> NULL, byReference |-> FALSE, prune |-> "no"]

Push(e, x, active) == [Nothing EXCEPT !.email = e, !.externalId = x, !.active = active]
Put(ref, e, active) == [Nothing EXCEPT !.kind = "put", !.target = ref, !.email = e, !.active = active]
Remove(ref) == [Nothing EXCEPT !.kind = "remove", !.target = ref]
ByReference(op) == [op EXCEPT !.byReference = TRUE]
Group(y, members) == [Nothing EXCEPT !.kind = "group", !.externalId = y, !.members = members]
Regroup(ref, members) == [Nothing EXCEPT !.kind = "regroup", !.target = ref, !.members = members]
Ungroup(ref) == [Nothing EXCEPT !.kind = "ungroup", !.target = ref]
Pruning(op, how) == [op EXCEPT !.prune = how]

Request(via, ops) == [via |-> via, ops |-> ops, failOnErrors |-> 0, prune |-> "no"]

MCInitialUsers ==
  {u1 :> [email |-> e1, externalId |-> x1, active |-> TRUE, deleted |-> FALSE],
   u1 :> [email |-> e1, externalId |-> x1, active |-> FALSE, deleted |-> TRUE]}

\* A user moved to another address, deleted, deactivated and put back; bulk
\* requests that refer to their own results; whole directories.
MCRequests ==
  {Request("scim", <<Push(e2, x1, TRUE)>>),
   Request("scim", <<Push(e3, x2, TRUE)>>),
   Request("scim", <<Remove(x1)>>),
   Request("scim", <<Put(u1, NULL, FALSE)>>),
   Request("scim", <<ByReference(Regroup(y1, {x2}))>>),
   Request("event", <<Push(e1, x1, FALSE)>>),
   Request("event", <<Remove(x1)>>),
   Request("event", <<Ungroup(y1)>>),
   [Request("bulk", <<Push(e2, x2, TRUE), ByReference(Put(x2, e3, TRUE)), ByReference(Group(y1, {x2}))>>)
      EXCEPT !.failOnErrors = 1],
   [Request("bulk", <<Remove(u1), Push(e1, x1, TRUE), Regroup(y2, NULL)>>) EXCEPT !.failOnErrors = 2],
   Request("bulk", <<Pruning(Group(y1, {x1}), "soft"), Ungroup(g1)>>),
   [Request("sync", <<Push(e1, NULL, TRUE), ByReference(Group(y2, {x1, e1})),
                      Pruning(Group(y1, {}), "hard")>>)
      EXCEPT !.prune = "soft"],
   [Request("sync", <<Push(e2, x2, TRUE)>>) EXCEPT !.prune = "hard"]}

Symmetry == Permutations(Calls)
=============================================================================
